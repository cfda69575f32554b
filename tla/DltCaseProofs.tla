--------------------------- MODULE DltCaseProofs ---------------------------
(***************************************************************************)
(* Theorems about DltCase, for any cases, overlapping calls, ceilings,     *)
(* decay, member cap, failure, logs and findings.                          *)
(***************************************************************************)
EXTENDS DltCase, FiniteSetTheorems, TLAPS

----------------------------------------------------------------------------
(* The policy's operators.                                                 *)

(* The ceilings, by label.                                                 *)
LEMMA LimitValues ==
    /\ Limit["class"] = ClassBCeiling /\ Limit["unverifiable"] = UnverifiedCeiling
    /\ Limit["contradicted"] = ContradictedCeiling
    /\ Limit["registry_miss"] = RegistryMissCeiling /\ Limit["evidence_gap"] = GapCeiling
    /\ Limit["reuse_decay"] = 1000
    /\ \A label \in Labels : Limit[label] \in Scores
<1>1. \A label \in Labels :
         Limit[label] = CASE label = "class" -> ClassBCeiling
                          [] label = "unverifiable" -> UnverifiedCeiling
                          [] label = "contradicted" -> ContradictedCeiling
                          [] label = "registry_miss" -> RegistryMissCeiling
                          [] label = "evidence_gap" -> GapCeiling
                          [] OTHER -> 1000
  BY DEF Limit
<1>2. /\ Limit["class"] = ClassBCeiling /\ Limit["unverifiable"] = UnverifiedCeiling
      /\ Limit["contradicted"] = ContradictedCeiling
      /\ Limit["registry_miss"] = RegistryMissCeiling /\ Limit["evidence_gap"] = GapCeiling
      /\ Limit["reuse_decay"] = 1000
  BY <1>1 DEF Labels
<1>3. {ClassBCeiling, UnverifiedCeiling, ContradictedCeiling, RegistryMissCeiling,
       GapCeiling, 1000} \subseteq Scores
  BY CeilingsAssumption DEF Scores
<1>4. \A label \in Labels : Limit[label] \in Scores
  BY <1>1, <1>3
<1>5. QED
  BY <1>2, <1>4

(* One ceiling lowers a score to itself, and only if its label applies.    *)
LEMMA CapLowers ==
    ASSUME NEW score \in Scores, NEW label \in Labels, NEW labels
    PROVE  /\ Cap(score, label, labels) \in Scores
           /\ Cap(score, label, labels) <= score
           /\ label \in labels => Cap(score, label, labels) <= Limit[label]
<1> DEFINE limit == Limit[label]
<1>1. limit \in Scores
  BY LimitValues
<1>2. Cap(score, label, labels) = IF label \in labels /\ limit < score THEN limit ELSE score
  BY DEF Cap
<1> HIDE DEF limit
<1>3. /\ Cap(score, label, labels) \in Scores
      /\ Cap(score, label, labels) <= score
      /\ label \in labels => Cap(score, label, labels) <= limit
  BY <1>1, <1>2 DEF Scores
<1>4. QED
  BY <1>3 DEF limit

(* Composed, the ceilings bound a score by each that applies.              *)
LEMMA CappedWithinEach ==
    ASSUME NEW score \in Scores, NEW labels \in SUBSET (Labels \ {"reuse_decay"})
    PROVE  /\ Capped(score, labels) \in Scores
           /\ Capped(score, labels) <= score
           /\ \A label \in labels : Capped(score, labels) <= Limit[label]
<1> DEFINE s1 == Cap(score, "class", labels)
           s2 == Cap(s1, "unverifiable", labels)
           s3 == Cap(s2, "contradicted", labels)
           s4 == Cap(s3, "registry_miss", labels)
           s5 == Cap(s4, "evidence_gap", labels)
<1>1. s1 \in Scores /\ s1 <= score /\ ("class" \in labels => s1 <= Limit["class"])
  BY CapLowers DEF Labels
<1> HIDE DEF s1
<1>2. s2 \in Scores /\ s2 <= s1 /\ ("unverifiable" \in labels => s2 <= Limit["unverifiable"])
  BY <1>1, CapLowers DEF Labels
<1> HIDE DEF s2
<1>3. s3 \in Scores /\ s3 <= s2 /\ ("contradicted" \in labels => s3 <= Limit["contradicted"])
  BY <1>2, CapLowers DEF Labels
<1> HIDE DEF s3
<1>4. s4 \in Scores /\ s4 <= s3 /\ ("registry_miss" \in labels => s4 <= Limit["registry_miss"])
  BY <1>3, CapLowers DEF Labels
<1> HIDE DEF s4
<1>5. s5 \in Scores /\ s5 <= s4 /\ ("evidence_gap" \in labels => s5 <= Limit["evidence_gap"])
  BY <1>4, CapLowers DEF Labels
<1> HIDE DEF s5
<1>6. Capped(score, labels) = s5
  BY DEF Capped, s1, s2, s3, s4, s5
<1>7. /\ Limit["class"] \in Scores /\ Limit["unverifiable"] \in Scores
      /\ Limit["contradicted"] \in Scores /\ Limit["registry_miss"] \in Scores
      /\ Limit["evidence_gap"] \in Scores
  BY LimitValues DEF Labels
<1>8. s5 <= s1 /\ s5 <= s2 /\ s5 <= s3 /\ s5 <= s4 /\ s5 <= score
  BY <1>1, <1>2, <1>3, <1>4, <1>5 DEF Scores
<1>9. \A limit \in Scores :
         /\ s1 <= limit \/ s2 <= limit => s5 <= limit
         /\ s3 <= limit \/ s4 <= limit => s5 <= limit
  BY <1>1, <1>2, <1>3, <1>4, <1>5, <1>8 DEF Scores
<1>10. ASSUME NEW label \in labels PROVE s5 <= Limit[label]
  <2>1. label \in {"class", "unverifiable", "contradicted", "registry_miss", "evidence_gap"}
    BY DEF Labels
  <2>2. QED
    BY <1>1, <1>2, <1>3, <1>4, <1>5, <1>7, <1>9, <2>1
<1>11. QED
  BY <1>5, <1>6, <1>8, <1>10

(* A decayed score is a score.                                             *)
LEMMA DecayedScore ==
    ASSUME NEW score \in Scores
    PROVE  (score * ReuseDecay) \div 100 \in Scores
<1>1. /\ score \in Int /\ 0 <= score /\ score <= 1000
      /\ ReuseDecay \in Int /\ 0 <= ReuseDecay /\ ReuseDecay <= 100
  BY ReuseAssumption DEF Scores
<1> DEFINE product == score * ReuseDecay
<1>2. /\ product \in Int /\ 0 <= product /\ product <= 1000 * ReuseDecay
  BY <1>1
<1> HIDE DEF product
<1>3. product \in Int /\ 0 <= product /\ product <= 100000
  BY <1>1, <1>2
<1>4. product \div 100 \in Scores
  BY <1>3 DEF Scores
<1>5. QED
  BY <1>4 DEF product

(* What the policy returns, for any failure, verdict and logs: a finding   *)
(* whose score is within each ceiling it names, and names all that apply;  *)
(* one without a score stays without, and only reuse names the decay.      *)
THEOREM PolicySupported ==
    ASSUME NEW finding \in Findings, NEW f, NEW verdict, NEW l, NEW reused \in BOOLEAN
    PROVE  LET result == ApplyPolicy(finding, f, verdict, l, reused) IN
           /\ result \in Findings
           /\ Supported(result)
           /\ Applied(f, verdict, l) \subseteq result.ceilings
           /\ finding.confidence = NoScore => result.confidence = NoScore
           /\ ~reused => "reuse_decay" \notin result.ceilings
<1> DEFINE labels == Applied(f, verdict, l)
           scored == finding.confidence # NoScore
           score  == IF reused THEN (finding.confidence * ReuseDecay) \div 100
                               ELSE finding.confidence
           conf   == IF scored THEN Capped(score, labels) ELSE NoScore
           decay  == IF reused /\ scored THEN {"reuse_decay"} ELSE {}
           action == IF ClassOf(f) \in {"B", "U"} /\ finding.action # "ROUTE_TO_DEV"
                     THEN "NEEDS_MANUAL_REVIEW" ELSE finding.action
           result == ApplyPolicy(finding, f, verdict, l, reused)
<1>1. result = [finding EXCEPT !.confidence = conf, !.ceilings = labels \cup decay,
                               !.action = action]
  BY DEF ApplyPolicy
<1>2. labels \subseteq Labels \ {"reuse_decay"}
  BY DEF Applied, Labels
<1>3. scored => score \in Scores
  BY DecayedScore DEF Findings
<1>4. scored => /\ conf \in Scores
                /\ \A label \in labels : conf <= Limit[label]
  <2> HIDE DEF labels, score
  <2>1. QED
    BY <1>2, <1>3, CappedWithinEach
<1>5. action \in Actions
  BY DEF Findings, Actions
<1>6. decay \subseteq Labels
  BY DEF Labels
<1> HIDE DEF labels, score, conf, action
<1>7. conf \in Scores \cup {NoScore} /\ (~scored => conf = NoScore)
  BY <1>4 DEF conf
<1>8. result \in Findings /\ result.confidence = conf /\ result.ceilings = labels \cup decay
  <2>1. labels \cup decay \in SUBSET Labels
    BY <1>2, <1>6
  <2> HIDE DEF decay
  <2>2. QED
    BY <1>1, <1>5, <1>7, <2>1 DEF Findings
<1>9. \A label \in labels \cup decay : conf <= Limit[label]
  <2>1. \A label \in Labels : Limit[label] \in Scores
    BY LimitValues
  <2>2. CASE scored
    <3>1. Limit["reuse_decay"] = 1000
      BY LimitValues
    <3>2. conf <= Limit["reuse_decay"]
      BY <1>4, <2>2, <3>1 DEF Scores
    <3>3. QED
      BY <1>4, <2>2, <3>2
  <2>3. CASE ~scored
    <3>1. \A limit \in Scores : NoScore <= limit
      BY DEF NoScore, Scores
    <3>2. labels \cup decay \subseteq Labels /\ conf = NoScore
      BY <1>2, <1>6, <1>7, <2>3
    <3>3. QED
      BY <2>1, <3>1, <3>2
  <2>4. QED
    BY <2>2, <2>3
<1>10. Supported(result)
  BY <1>8, <1>9 DEF Supported
<1>11. QED
  BY <1>2, <1>7, <1>8, <1>10 DEF labels

----------------------------------------------------------------------------
(* Types.                                                                  *)

(* What every step assumes of the constants.                               *)
LEMMA ConstantsTyped ==
    /\ MemberCap \in Nat /\ MemberCap > 0 /\ MaxEvents \in Nat
    /\ TracedFailures \subseteq Failures /\ FetchedLogs \subseteq Logs
    /\ Cases \subseteq Ids /\ QueueCases \subseteq Ids /\ NoId \notin Ids
    /\ \A id \in Cases : id \notin QueueCases
BY CapAssumption, BoundAssumption, InputsAssumption, IdsAssumption DEF Ids

LEMMA UnparsedTyped == Unparsed \in Failures
BY DEF Unparsed, Failures

LEMMA LogsTyped ==
    /\ NoLogs("absent") \in Logs /\ NoLogs("skipped") \in Logs
    /\ \A l \in Logs : Corroborate(l) \in Verdicts
BY DEF NoLogs, Logs, Corroborate, Verdicts

LEMMA FindingsTyped ==
    /\ NoFinding \in Findings /\ FailedSynthesis \in Findings
    /\ \A class, verdict : Canned(class, verdict) \in Findings
<1>1. FailedSynthesis \in Findings
  BY DEF FailedSynthesis, Findings, Actions, Scores
<1>2. NoFinding \in Findings
  BY <1>1 DEF NoFinding, Findings
<1>3. ASSUME NEW class, NEW verdict PROVE Canned(class, verdict) \in Findings
  <2>1. CannedAction(class) \in Actions /\ Discrepant(verdict) \in BOOLEAN
    BY DEF CannedAction, Actions, Discrepant
  <2>2. QED
    BY <2>1 DEF Canned, Findings
<1>4. QED
  BY <1>1, <1>2, <1>3

LEMMA RecordsTyped ==
    /\ NewGroup \in Groups /\ Len(NewGroup.members) = 0
    /\ NoCasebook \in Casebooks /\ TimeoutCasebook \in Casebooks
    /\ \A id \in Ids \cup {NoId} : NoCall(id) \in CallRecords
<1>1. NewGroup \in Groups /\ Len(NewGroup.members) = 0
  BY FindingsTyped DEF NewGroup, Groups
<1>2. NoCasebook \in Casebooks /\ TimeoutCasebook \in Casebooks
  BY FindingsTyped DEF NoCasebook, TimeoutCasebook, Casebooks, Terminal, Verdicts, Sources,
                       Replays
<1>3. \A id \in Ids \cup {NoId} : NoCall(id) \in CallRecords
  BY FindingsTyped, LogsTyped DEF NoCall, CallRecords, Sources, Replays
<1>4. QED
  BY <1>1, <1>2, <1>3

(* Counting one case keeps a group a group, within the member cap.         *)
LEMMA CountTyped ==
    ASSUME NEW g \in Groups, Len(g.members) <= MemberCap, NEW id \in Ids,
           NEW verdict \in Verdicts
    PROVE  /\ Count(g, id, verdict) \in Groups
           /\ Len(Count(g, id, verdict).members) <= MemberCap
           /\ Count(g, id, verdict).onFile = g.onFile
           /\ Count(g, id, verdict).recommendation = g.recommendation
<1> DEFINE longer == IF Len(g.members) < MemberCap THEN Append(g.members, id)
                                                   ELSE Append(Tail(g.members), id)
<1>1. CASE \E i \in DOMAIN g.members : g.members[i] = id
  BY <1>1 DEF Count
<1>2. CASE ~ \E i \in DOMAIN g.members : g.members[i] = id
  <2>1. g.members \in Seq(Ids) /\ g.count \in Nat /\ g.history \in [Verdicts -> Nat]
    BY DEF Groups
  <2>2. longer \in Seq(Ids) /\ Len(longer) <= MemberCap
    <3>1. CASE Len(g.members) < MemberCap
      <4>1. longer = Append(g.members, id)
        BY <3>1
      <4>2. QED
        BY <2>1, <3>1, <4>1, ConstantsTyped
    <3>2. CASE ~(Len(g.members) < MemberCap)
      <4>1. longer = Append(Tail(g.members), id)
        BY <3>2
      <4>2. Len(g.members) > 0
        BY <2>1, <3>2, ConstantsTyped
      <4>3. Tail(g.members) \in Seq(Ids) /\ Len(Tail(g.members)) = Len(g.members) - 1
        BY <2>1, <4>2
      <4>4. QED
        BY <2>1, <4>1, <4>3, ConstantsTyped
    <3>3. QED
      BY <3>1, <3>2
  <2>3. [g.history EXCEPT ![verdict] = @ + 1] \in [Verdicts -> Nat]
    BY <2>1
  <2> DEFINE more == [g.history EXCEPT ![verdict] = @ + 1]
  <2>4. Count(g, id, verdict) = [g EXCEPT !.members = longer, !.count = g.count + 1,
                                         !.history = more]
    BY <1>2 DEF Count, Groups
  <2> HIDE DEF longer, more
  <2>5. more \in [Verdicts -> Nat]
    BY <2>3 DEF more
  <2>6. g.onFile \in BOOLEAN /\ g.recommendation \in Findings
    BY DEF Groups
  <2>7. Count(g, id, verdict) = [members |-> longer, count |-> g.count + 1, history |-> more,
                                 onFile |-> g.onFile, recommendation |-> g.recommendation]
    BY <2>4 DEF Groups
  <2>8. g.count + 1 \in Nat
    BY <2>1
  <2>9. QED
    BY <2>2, <2>5, <2>6, <2>7, <2>8 DEF Groups
<1>3. QED
  BY <1>1, <1>2

(* A call is fetching or analysing, not both.                              *)
LEMMA Phases ==
    /\ Analysing \subseteq Running /\ Fetching \subseteq Running /\ "idle" \notin Running
    /\ Analysing \cap Fetching = {} /\ Finished \cap Running = {}
    /\ {"answered", "failed"} = Finished
    /\ {"checking", "fetching", "reading", "publishing"} = Fetching
    /\ {"received", "recording", "investigating", "attaching", "replaying",
        "saving_casebook", "saving_status"} = Analysing
BY DEF Running, Analysing, Fetching, Finished

(* What a call in progress makes of its own evidence.                      *)
LEMMA CallEvidence ==
    ASSUME TypeOK, NEW k \in Calls, call[k].at \in Running, NEW finding \in Findings,
           NEW reused \in BOOLEAN
    PROVE  /\ Verdict(k) \in Verdicts /\ Fingerprint(k) \in Fingerprints
           /\ Final(k, finding, reused) \in Findings
BY LogsTyped, PolicySupported
DEF TypeOK, CallRecords, Verdict, Fingerprint, FingerprintOf, Fingerprints, Final

(* A call that is not idle, or has a client, serves a case; only dead      *)
(* letters have their logs fetched.                                        *)
Serves(c, waits) == /\ c.at # "idle" \/ waits # "none" => c.id \in Ids
                    /\ c.at \in Fetching => c.id \in Cases
Serving == \A k \in Calls : Serves(call[k], client[k])

Typed == TypeOK /\ Serving

(* Only one call changes, and stays a call that serves its case.           *)
LEMMA OneCall ==
    ASSUME Typed, NEW k \in Calls, NEW c \in CallRecords, call' = [call EXCEPT ![k] = c],
           Serves(c, client'[k]),
           \A j \in Calls \ {k} : client'[j] = client[j]
    PROVE  call' \in [Calls -> CallRecords] /\ Serving'
BY DEF Typed, TypeOK, Serving, Serves

(* The end of a call, by its handler, its client or a crash.               *)
LEMMA EndTyped ==
    ASSUME Typed, NEW k \in Calls, NEW how \in Finished
    PROVE  /\ Ended(k, how) \in CallRecords
           /\ Ended(k, how).at # "idle" => Ended(k, how).id = call[k].id /\ client[k] # "none"
           /\ client[k] # "none" => Ended(k, how).id = call[k].id
           /\ Ended(k, how).at \notin Fetching
<1>1. call[k].id \in Ids \cup {NoId}
  BY DEF Typed, TypeOK, CallRecords
<1>2. NoCall(call[k].id) \in CallRecords /\ NoCall(NoId) \in CallRecords
  BY <1>1, RecordsTyped
<1>3. [NoCall(call[k].id) EXCEPT !.at = how] \in CallRecords
  BY <1>2, Phases DEF CallRecords
<1>4. QED
  BY <1>2, <1>3 DEF Ended, NoCall, Finished, Fetching

LEMMA EndsTyped ==
    ASSUME Typed, NEW k \in Calls, NEW how \in Finished, Ends(k, how), UNCHANGED client
    PROVE  call' \in [Calls -> CallRecords] /\ Serving'
BY EndTyped, OneCall DEF Ends, Typed, Serving, Serves

LEMMA GoneTyped ==
    ASSUME Typed, NEW k \in Calls, ClientGone(k)
    PROVE  call' \in [Calls -> CallRecords] /\ Serving'
<1>1. CASE call[k].at \in Running
  BY <1>1 DEF ClientGone, Typed, TypeOK, Serving, Serves
<1>2. CASE call[k].at \notin Running
  <2>1. NoCall(NoId) \in CallRecords /\ NoCall(NoId).at = "idle"
    BY RecordsTyped DEF NoCall
  <2>2. client' = [client EXCEPT ![k] = "none"] /\ call' = [call EXCEPT ![k] = NoCall(NoId)]
    BY <1>2 DEF ClientGone
  <2>3. client'[k] = "none" /\ \A j \in Calls \ {k} : client'[j] = client[j]
    BY <2>2 DEF Typed, TypeOK
  <2>4. Serves(NoCall(NoId), client'[k])
    BY <2>1, <2>3 DEF Serves, Fetching
  <2>5. QED
    BY <2>1, <2>2, <2>3, <2>4, OneCall
<1>3. QED
  BY <1>1, <1>2

LEMMA GoesTyped ==
    ASSUME Typed, NEW k \in Calls, NEW at \in Running, call[k].at \in Running, Goes(k, at),
           at \in Fetching => call[k].at \in Fetching, UNCHANGED client
    PROVE  call' \in [Calls -> CallRecords] /\ Serving'
<1> DEFINE c == [call[k] EXCEPT !.at = at]
<1>1. c \in CallRecords /\ c.id = call[k].id /\ c.at = at
  <2>1. call[k] \in CallRecords
    BY DEF Typed, TypeOK
  <2>2. QED
    BY <2>1 DEF CallRecords
<1>2. call' = [call EXCEPT ![k] = c] /\ client' = client
  BY DEF Goes
<1> HIDE DEF c
<1>3. Serves(c, client'[k])
  BY <1>1, <1>2, Phases DEF Typed, Serving, Serves
<1>4. QED
  BY <1>1, <1>2, <1>3, OneCall

(* A handler of a call takes a step.                                       *)
LEMMA MoveTyped ==
    ASSUME Typed, NEW k \in Calls, call[k].at \in Running, NEW c \in CallRecords,
           c.id = call[k].id, c.at \in Fetching => call[k].at \in Fetching,
           call' = [call EXCEPT ![k] = c], UNCHANGED client
    PROVE  call' \in [Calls -> CallRecords] /\ Serving'
<1>1. Serves(c, client'[k])
  BY Phases DEF Typed, Serving, Serves
<1>2. QED
  BY <1>1, OneCall

LEMMA ArriveTyped ==
    ASSUME Typed, NEW k \in Calls, NEW id \in Ids, NEW at \in Running, Arrive(k, id, at),
           at \in Fetching => id \in Cases,
           \A j \in Calls \ {k} : client'[j] = client[j]
    PROVE  /\ call' \in [Calls -> CallRecords] /\ Serving'
           /\ overlapped' \subseteq Ids /\ UNCHANGED <<recorded, refetched>>
<1>1. NoCall(id) \in CallRecords /\ NoCall(id).id = id
  BY RecordsTyped DEF NoCall
<1>2. [NoCall(id) EXCEPT !.at = at] \in CallRecords
      /\ Serves([NoCall(id) EXCEPT !.at = at], client'[k])
  BY <1>1, Phases DEF CallRecords, NoCall, Serves
<1>3. call' = [call EXCEPT ![k] = [NoCall(id) EXCEPT !.at = at]]
  BY DEF Arrive
<1>4. call' \in [Calls -> CallRecords] /\ Serving'
  BY <1>2, <1>3, OneCall
<1>5. QED
  BY <1>4 DEF Arrive, Typed, TypeOK

LEMMA MishapTyped ==
    ASSUME TypeOK, NEW kind \in Mishaps, Mishap(kind)
    PROVE  mishaps' \subseteq Mishaps /\ events' \in 0 .. MaxEvents
BY ConstantsTyped DEF Mishap, Another, TypeOK

LEMMA TakeTyped ==
    ASSUME TypeOK, NEW id \in Ids, Take(id)
    PROVE  waiting' \in [Ids -> Nat]
BY DEF Take, TypeOK

(* The group a handler loads is a group within its cap.                    *)
LEMMA LoadsTyped ==
    ASSUME TypeOK, NEW p \in Fingerprints, NEW g \in {group[p], NewGroup}, Loads(p, g)
    PROVE  /\ g \in Groups /\ Len(g.members) <= MemberCap
           /\ mishaps' \subseteq Mishaps /\ events' \in 0 .. MaxEvents
<1>1. g \in Groups /\ Len(g.members) <= MemberCap
  BY RecordsTyped, ConstantsTyped DEF TypeOK
<1>2. mishaps' \subseteq Mishaps /\ events' \in 0 .. MaxEvents
  BY MishapTyped DEF Loads, boundVars, Mishaps, TypeOK
<1>3. QED
  BY <1>1, <1>2

(* publish_to_dlq: the record is in the topic, or it is lost.              *)
LEMMA PublishTyped ==
    ASSUME Typed, NEW id \in Ids, PublishToDlq(id)
    PROVE  /\ inDlq' \subseteq Ids /\ lostSends' \subseteq Ids
           /\ mishaps' \subseteq Mishaps /\ events' \in 0 .. MaxEvents
BY ConstantsTyped
   DEF PublishToDlq, Delivers, Loses, Another, boundVars, Typed, TypeOK

LEMMA ConsumerTyped ==
    ASSUME Typed, NEW k \in Calls, Consumer(k)
    PROVE  Typed'
<1> USE DEF dlqVars, kafkaVars, caseVars, historyVars, boundVars
<1>1. CASE GetAnswer(k)
  <2>1. ClientGone(k) /\ call[k].id \in Ids
    BY <1>1 DEF GetAnswer, Typed, Serving, Serves
  <2>2. client' = [client EXCEPT ![k] = "none"]
    BY <2>1 DEF ClientGone
  <2>3. /\ inDlq' \subseteq Ids /\ lostSends' \subseteq Ids
        /\ mishaps' \subseteq Mishaps /\ events' \in 0 .. MaxEvents
    BY <1>1, <2>1, PublishTyped DEF GetAnswer, Typed, TypeOK
  <2>4. QED
    BY <1>1, <2>1, <2>2, <2>3, GoneTyped DEF GetAnswer, Typed, TypeOK
<1>2. CASE ClientTimeout(k)
  BY <1>2, MishapTyped DEF ClientTimeout, Typed, TypeOK, Serving, Serves, Mishaps
<1>3. CASE ClientSaves(k)
  <2>1. call[k].id \in Ids
    BY <1>3 DEF ClientSaves, Typed, Serving, Serves
  <2>2. CASE /\ client[k] = "saving_casebook" /\ SaveCasebook(call[k].id, TimeoutCasebook)
             /\ client' = [client EXCEPT ![k] = "saving_status"]
             /\ UNCHANGED <<dlqVars, status, call, boundVars>>
    BY <1>3, <2>1, <2>2, RecordsTyped DEF ClientSaves, SaveCasebook, Typed, TypeOK, Serving, Serves
  <2>3. CASE /\ client[k] = "saving_status" /\ SaveStatus(call[k].id, "FAILED_TIMEOUT")
             /\ client' = [client EXCEPT ![k] = "publishing"]
             /\ UNCHANGED <<dlqVars, casebook, call, boundVars>>
    BY <1>3, <2>1, <2>3 DEF ClientSaves, SaveStatus, Terminal, Typed, TypeOK, Serving, Serves
  <2>4. CASE /\ client[k] \in {"saving_casebook", "saving_status"} /\ Fault
             /\ client' = [client EXCEPT ![k] = "publishing"]
             /\ UNCHANGED <<dlqVars, casebook, status, call>>
    BY <1>3, <2>1, <2>4, MishapTyped DEF ClientSaves, Fault, Mishaps, Typed, TypeOK, Serving, Serves
  <2>5. CASE /\ client[k] = "publishing" /\ PublishToDlq(call[k].id)
             /\ ClientGone(k)
             /\ UNCHANGED <<casebook, status>>
    <3>1. client' = [client EXCEPT ![k] = "none"]
      BY <2>5 DEF ClientGone
    <3>2. QED
      BY <1>3, <2>1, <2>5, <3>1, GoneTyped, PublishTyped DEF ClientSaves, Typed, TypeOK
  <2>6. QED
    BY <1>3, <2>2, <2>3, <2>4, <2>5 DEF ClientSaves
<1>4. CASE Redeliver(k)
  <2>1. call[k].id \in Ids
    BY <1>4 DEF Redeliver, Typed, Serving, Serves
  <2>2. waiting' \in [Ids -> Nat] /\ refetched' \subseteq Ids
    BY <1>4, <2>1 DEF Redeliver, Typed, TypeOK
  <2>3. mishaps' \subseteq Mishaps /\ events' \in 0 .. MaxEvents
    BY <1>4, MishapTyped DEF Redeliver, Typed, Mishaps
  <2>4. CASE UNCHANGED <<call, client>>
    BY <1>4, <2>2, <2>3, <2>4 DEF Redeliver, Typed, TypeOK, Serving, Serves
  <2>5. CASE ClientGone(k)
    <3>1. client' = [client EXCEPT ![k] = "none"]
      BY <2>5 DEF ClientGone
    <3>2. QED
      BY <1>4, <2>2, <2>3, <2>5, <3>1, GoneTyped DEF Redeliver, Typed, TypeOK
  <2>6. QED
    BY <1>4, <2>4, <2>5 DEF Redeliver
<1>5. QED
  BY <1>1, <1>2, <1>3, <1>4 DEF Consumer

LEMMA DeliveryTyped ==
    ASSUME Typed, NEW id \in Ids, NEW k \in Calls,
           Skip(id) \/ Refused(id) \/ Forward(id, k) \/ Post(id, k)
    PROVE  Typed'
<1> USE DEF dlqVars, kafkaVars, caseVars, historyVars, boundVars
<1>1. CASE Skip(id)
  BY <1>1, TakeTyped DEF Skip, Typed, TypeOK, Serving, Serves
<1>2. CASE Refused(id)
  BY <1>2, TakeTyped, MishapTyped DEF Refused, Fault, Delivers, Loses,
     Mishaps, Typed, TypeOK, Serving, Serves
<1>3. CASE Forward(id, k)
  <2> DEFINE at == IF id \in Cases THEN "checking" ELSE "received"
  <2>1. at \in Running /\ (at \in Fetching => id \in Cases)
    BY DEF Running, Fetching, Analysing
  <2>2. client' = [client EXCEPT ![k] = "waiting"] /\ waiting' \in [Ids -> Nat]
    BY <1>3, TakeTyped DEF Forward, Typed
  <2>3. /\ call' \in [Calls -> CallRecords] /\ Serving'
        /\ overlapped' \subseteq Ids /\ UNCHANGED <<recorded, refetched>>
    BY <1>3, <2>1, <2>2, ArriveTyped DEF Forward
  <2>4. QED
    BY <1>3, <2>2, <2>3 DEF Forward, Typed, TypeOK
<1>4. CASE Post(id, k)
  <2>1. "received" \in Running /\ "received" \notin Fetching /\ UNCHANGED client
    BY <1>4 DEF Post, Running, Analysing, Fetching
  <2>2. /\ call' \in [Calls -> CallRecords] /\ Serving'
        /\ overlapped' \subseteq Ids /\ UNCHANGED <<recorded, refetched>>
    BY <1>4, <2>1, ArriveTyped DEF Post
  <2>3. events' \in 0 .. MaxEvents
    BY <1>4, ConstantsTyped DEF Post, Another, Typed, TypeOK
  <2>4. QED
    BY <1>4, <2>2, <2>3 DEF Post, Typed, TypeOK
<1>5. QED
  BY <1>1, <1>2, <1>3, <1>4

LEMMA FetchTyped ==
    ASSUME Typed, NEW k \in Calls,
           FetchCheck(k) \/ FetchLogs(k) \/ FetchRead(k) \/ FetchPublish(k)
    PROVE  Typed'
<1> USE DEF dlqVars, kafkaVars, caseVars, historyVars, boundVars
<1> DEFINE id == call[k].id
<1>1. /\ id \in Ids /\ id \in Cases /\ call[k] \in CallRecords
      /\ call[k].at \in Running /\ call[k].at \in Fetching
  BY DEF FetchCheck, FetchLogs, FetchRead, FetchPublish, Typed, TypeOK, Serving, Serves, Running, Fetching
<1>2. CASE FetchCheck(k)
  <2>1. "answered" \in Finished /\ {"fetching", "reading"} \subseteq Running
    BY DEF Finished, Running, Fetching
  <2>2. call' \in [Calls -> CallRecords] /\ Serving'
    BY <1>1, <1>2, <2>1, EndsTyped, GoesTyped DEF FetchCheck
  <2>3. QED
    BY <1>2, <2>2 DEF FetchCheck, Typed, TypeOK
<1>3. CASE FetchLogs(k)
  <2>1. call' \in [Calls -> CallRecords] /\ Serving'
    BY <1>1, <1>3, GoesTyped DEF FetchLogs, Running, Fetching
  <2>2. PICK l \in {NoLogs("skipped")} \cup FetchedLogs : logs' = [logs EXCEPT ![id] = l]
    BY <1>3 DEF FetchLogs
  <2>3. logs' \in [Ids -> Logs]
    BY <2>2, LogsTyped, ConstantsTyped DEF Typed, TypeOK
  <2>4. QED
    BY <1>3, <2>1, <2>3 DEF FetchLogs, Typed, TypeOK
<1>4. CASE FetchRead(k)
  <2> DEFINE c == [call[k] EXCEPT !.at = "publishing", !.read = status[id]]
  <2>1. status[id] \in Terminal \cup {"none", "LOGS_FETCHED"}
    BY <1>1 DEF Typed, TypeOK
  <2>2. c \in CallRecords /\ c.id = id /\ c.at = "publishing"
    BY <1>1, <2>1, Phases DEF CallRecords
  <2>3. call' = [call EXCEPT ![k] = c] /\ UNCHANGED client
    BY <1>4 DEF FetchRead
  <2>4. call' \in [Calls -> CallRecords] /\ Serving'
    BY <1>1, <2>2, <2>3, MoveTyped
  <2>5. QED
    BY <1>4, <2>4 DEF FetchRead, Typed, TypeOK
<1>5. CASE FetchPublish(k)
  <2>1. status' \in [Ids -> Terminal \cup {"none", "LOGS_FETCHED"}]
    BY <1>1, <1>5 DEF FetchPublish, SaveStatus, Typed, TypeOK
  <2>2. {"answered", "failed"} \subseteq Finished
    BY DEF Finished
  <2>3. call' \in [Calls -> CallRecords] /\ Serving'
    BY <1>5, <2>2, EndsTyped DEF FetchPublish
  <2>4. mishaps' \subseteq Mishaps /\ events' \in 0 .. MaxEvents
    <3>1. ASSUME Another, UNCHANGED mishaps
          PROVE  mishaps' \subseteq Mishaps /\ events' \in 0 .. MaxEvents
      BY <3>1, ConstantsTyped DEF Another, Typed, TypeOK
    <3>2. ASSUME Fault PROVE mishaps' \subseteq Mishaps /\ events' \in 0 .. MaxEvents
      BY <3>2, MishapTyped DEF Fault, Mishaps, Typed
    <3>3. QED
      BY <1>5, <3>1, <3>2 DEF FetchPublish, Typed, TypeOK
  <2>5. lostSends' \subseteq Ids
    BY <1>1, <1>5 DEF FetchPublish, Typed, TypeOK
  <2>6. CASE \E q \in {q \in QueueCases : carries[q] = {}} :
                /\ carries' = [carries EXCEPT ![q] = {call[k].id}]
                /\ waiting' = [waiting EXCEPT ![q] = 1]
    <3>1. waiting' \in [Ids -> Nat] /\ carries' \in [QueueCases -> SUBSET Cases]
      BY <1>1, <2>6, ConstantsTyped DEF Typed, TypeOK
    <3>2. QED
      BY <1>5, <2>1, <2>3, <2>4, <2>5, <3>1 DEF FetchPublish, Typed, TypeOK
  <2>7. CASE UNCHANGED <<carries, waiting>>
    BY <1>5, <2>1, <2>3, <2>4, <2>7, <2>5 DEF FetchPublish, Typed, TypeOK
  <2>8. QED
    BY <1>5, <2>6, <2>7 DEF FetchPublish
<1>6. QED
  BY <1>2, <1>3, <1>4, <1>5

(* An investigation ends in some finding, the policy applied to it.        *)
LEMMA InvestigatesOnce ==
    ASSUME NEW k \in Calls, Investigate(k)
    PROVE  \E at \in {"attaching", "replaying"}, src \in Sources, f \in Findings :
              call' = [call EXCEPT ![k].at = at, ![k].source = src,
                                   ![k].finding = Final(k, f, FALSE)]
<1> DEFINE Agents(f) == [action |-> f.action, confidence |-> f.confidence,
                         discrepancy |-> Discrepant(Verdict(k)), ceilings |-> {}]
<1>1. CASE \E f \in AgentFindings :
             call' = [call EXCEPT ![k].at = "attaching", ![k].source = "agent",
                                  ![k].finding = Final(k, Agents(f), FALSE)]
  <2> PICK f \in AgentFindings :
             call' = [call EXCEPT ![k].at = "attaching", ![k].source = "agent",
                                  ![k].finding = Final(k, Agents(f), FALSE)]
    BY <1>1
  <2>1. f.action \in Actions /\ f.confidence \in Scores \cup {NoScore}
    BY InputsAssumption
  <2>2. Agents(f) \in Findings /\ "agent" \in Sources
    BY <2>1 DEF Findings, Discrepant, Sources
  <2> HIDE DEF Agents
  <2>3. QED
    BY <2>2
<1>2. CASE call' = [call EXCEPT ![k].at = "replaying", ![k].source = "failed_synthesis",
                                ![k].finding = Final(k, FailedSynthesis, FALSE)]
  BY <1>2, FindingsTyped DEF Sources
<1>3. QED
  BY <1>1, <1>2 DEF Investigate

LEMMA AnalysisTyped ==
    ASSUME Typed, NEW k \in Calls,
           AnalyzeCheck(k) \/ Record(k) \/ Investigate(k) \/ Attach(k) \/ Replay(k)
           \/ AnalyzeSaves(k) \/ HandlerFails(k)
    PROVE  Typed'
<1> USE DEF dlqVars, kafkaVars, caseVars, historyVars, boundVars
<1> DEFINE id == call[k].id
           p  == Fingerprint(k)
<1>1. id \in Ids /\ call[k] \in CallRecords /\ call[k].at \in Running
  <2>1. call[k].at \in Running
    BY Phases DEF AnalyzeCheck, Record, Investigate, Attach, Replay, AnalyzeSaves, HandlerFails
  <2>2. QED
    BY <2>1, Phases DEF Typed, TypeOK, Serving, Serves
<1>2. p \in Fingerprints /\ Verdict(k) \in Verdicts
  BY <1>1, CallEvidence, FindingsTyped DEF Typed
<1>3. \A f \in Findings, reused \in BOOLEAN : Final(k, f, reused) \in Findings
  BY <1>1, CallEvidence DEF Typed
<1>4. CASE AnalyzeCheck(k)
  <2> DEFINE c == [call[k] EXCEPT !.at = "recording", !.logs = logs[id]]
  <2>1. c \in CallRecords /\ c.id = id /\ c.at \in Analysing
    BY <1>1, Phases DEF CallRecords, Typed, TypeOK
  <2>2. CASE Settled(id)
    <3>1. Ends(k, "answered") /\ "answered" \in Finished
      BY <1>4, <2>2 DEF AnalyzeCheck, Finished
    <3>2. QED
      BY <1>4, <3>1, EndsTyped DEF AnalyzeCheck, Typed, TypeOK
  <2>3. CASE ~Settled(id)
    <3>1. call' = [call EXCEPT ![k] = c] /\ UNCHANGED client
      BY <1>4, <2>3 DEF AnalyzeCheck
    <3>2. call' \in [Calls -> CallRecords] /\ Serving'
      BY <1>1, <2>1, <3>1, MoveTyped, Phases
    <3>3. QED
      BY <1>4, <3>2 DEF AnalyzeCheck, Typed, TypeOK
  <2>4. QED
    BY <2>2, <2>3
<1>5. CASE Record(k)
  <2> PICK loaded \in {group[p], NewGroup} :
         LET g == Count(loaded, id, Verdict(k))
             choice == Decide(Class(k), Verdict(k), g.onFile)
         IN /\ Loads(p, loaded)
            /\ group' = [group EXCEPT ![p] = g]
            /\ call' = [call EXCEPT
                 ![k].at = Onward(choice),
                 ![k].source = CASE choice = "CANNED" -> "canned"
                                 [] choice = "REUSE_GROUP" -> "group_reuse"
                                 [] OTHER -> "none",
                 ![k].finding = CASE choice = "CANNED" ->
                                       Final(k, Canned(Class(k), Verdict(k)), FALSE)
                                  [] choice = "REUSE_GROUP" -> Final(k, g.recommendation, TRUE)
                                  [] OTHER -> NoFinding]
    BY <1>5 DEF Record
  <2> DEFINE g == Count(loaded, id, Verdict(k))
             choice == Decide(Class(k), Verdict(k), g.onFile)
             src == CASE choice = "CANNED" -> "canned"
                      [] choice = "REUSE_GROUP" -> "group_reuse"
                      [] OTHER -> "none"
             finding == CASE choice = "CANNED" -> Final(k, Canned(Class(k), Verdict(k)), FALSE)
                          [] choice = "REUSE_GROUP" -> Final(k, g.recommendation, TRUE)
                          [] OTHER -> NoFinding
             c == [call[k] EXCEPT !.at = Onward(choice), !.source = src, !.finding = finding]
  <2>1. /\ loaded \in Groups /\ Len(loaded.members) <= MemberCap
        /\ mishaps' \subseteq Mishaps /\ events' \in 0 .. MaxEvents
    BY <1>2, LoadsTyped DEF Typed
  <2>2. g \in Groups /\ Len(g.members) <= MemberCap
    BY <1>1, <1>2, <2>1, CountTyped
  <2>3. g.recommendation \in Findings
    BY <2>2 DEF Groups
  <2>4. finding \in Findings
    <3>1. NoFinding \in Findings /\ Canned(Class(k), Verdict(k)) \in Findings
      BY FindingsTyped
    <3> HIDE DEF g, choice
    <3>2. QED
      BY <1>3, <2>3, <3>1 DEF finding
  <2>5. src \in Sources /\ Onward(choice) \in Analysing
    BY DEF Sources, Onward, Analysing
  <2> HIDE DEF g, choice, src, finding
  <2>6. c \in CallRecords /\ c.id = id /\ c.at \in Analysing
    BY <1>1, <2>4, <2>5, Phases DEF CallRecords
  <2>7. call' = [call EXCEPT ![k] = c]
    BY DEF g, choice, src, finding
  <2>8. call' \in [Calls -> CallRecords] /\ Serving'
    <3>1. call[k].at \in Running /\ client' = client
      BY <1>5, Phases DEF Record
    <3>2. c.at \notin Fetching
      BY <2>6, Phases
    <3> HIDE DEF c, id
    <3>3. QED
      BY <2>6, <2>7, <3>1, <3>2, MoveTyped DEF id
  <2>9. /\ group' \in [Fingerprints -> Groups]
        /\ \A q \in Fingerprints : Len(group'[q].members) <= MemberCap
    BY <1>2, <2>2 DEF g, Typed, TypeOK
  <2>10. recorded' \in [Fingerprints -> SUBSET Ids]
    BY <1>1, <1>2, <1>5 DEF Record, Typed, TypeOK
  <2>11. QED
    BY <1>5, <2>1, <2>8, <2>9, <2>10 DEF Record, Typed, TypeOK
<1>6. CASE Investigate(k)
  <2>1. PICK at \in {"attaching", "replaying"}, src \in Sources, f \in Findings :
           call' = [call EXCEPT ![k].at = at, ![k].source = src, ![k].finding = Final(k, f, FALSE)]
    BY <1>6, InvestigatesOnce
  <2> DEFINE finding == Final(k, f, FALSE)
             c == [call[k] EXCEPT !.at = at, !.source = src, !.finding = finding]
  <2>2. finding \in Findings
    BY <1>3
  <2> HIDE DEF finding
  <2>3. c \in CallRecords /\ c.id = id /\ c.at \in Analysing
    BY <1>1, <2>2, Phases DEF CallRecords
  <2>4. call' = [call EXCEPT ![k] = c]
    BY <2>1 DEF finding
  <2>5. call' \in [Calls -> CallRecords] /\ Serving'
    BY <1>1, <1>6, <2>3, <2>4, MoveTyped, Phases DEF Investigate
  <2>6. QED
    BY <1>6, <2>5 DEF Investigate, Typed, TypeOK
<1>7. CASE Attach(k)
  <2> PICK loaded \in {group[p], NewGroup} :
          /\ Loads(p, loaded)
          /\ group' = [group EXCEPT ![p] =
                [loaded EXCEPT !.onFile = TRUE, !.recommendation = call[k].finding]]
    BY <1>7 DEF Attach
  <2> DEFINE g == [loaded EXCEPT !.onFile = TRUE, !.recommendation = call[k].finding]
  <2>1. /\ loaded \in Groups /\ Len(loaded.members) <= MemberCap
        /\ mishaps' \subseteq Mishaps /\ events' \in 0 .. MaxEvents
    BY <1>2, LoadsTyped DEF Typed
  <2>2. call[k].finding \in Findings
    BY <1>1 DEF CallRecords
  <2>3. g \in Groups /\ g.members = loaded.members
    BY <2>1, <2>2 DEF Groups
  <2>4. group' = [group EXCEPT ![p] = g]
    OBVIOUS
  <2> HIDE DEF g
  <2>5. /\ group' \in [Fingerprints -> Groups]
        /\ \A q \in Fingerprints : Len(group'[q].members) <= MemberCap
    BY <1>2, <2>1, <2>3, <2>4 DEF Typed, TypeOK
  <2>6. call' \in [Calls -> CallRecords] /\ Serving'
    BY <1>1, <1>7, GoesTyped, Phases DEF Attach
  <2>7. QED
    BY <1>7, <2>1, <2>5, <2>6 DEF Attach, Typed, TypeOK
<1>8. CASE Replay(k)
  <2>1. mishaps' \subseteq Mishaps /\ events' \in 0 .. MaxEvents
    BY <1>8, MishapTyped DEF Replay, Fault, Mishaps, Typed, TypeOK
  <2>2. replayed' \in [Ids -> Nat]
    BY <1>1, <1>8 DEF Replay, Typed, TypeOK
  <2>3. call' \in [Calls -> CallRecords] /\ Serving'
    <3>1. CASE Goes(k, "saving_casebook")
      BY <1>1, <1>8, <3>1, GoesTyped, Phases DEF Replay
    <3>2. CASE \E r \in {"queued", "failed"} :
                  call' = [call EXCEPT ![k].at = "saving_casebook", ![k].replay = r]
      <4> PICK r \in {"queued", "failed"} :
                  call' = [call EXCEPT ![k].at = "saving_casebook", ![k].replay = r]
        BY <3>2
      <4> DEFINE c == [call[k] EXCEPT !.at = "saving_casebook", !.replay = r]
      <4>1. c \in CallRecords /\ c.id = id /\ c.at \in Analysing
        BY <1>1, Phases DEF CallRecords, Replays
      <4>2. call' = [call EXCEPT ![k] = c]
        OBVIOUS
      <4>3. QED
        BY <1>1, <1>8, <4>1, <4>2, MoveTyped, Phases DEF Replay
    <3>3. QED
      BY <1>8, <3>1, <3>2 DEF Replay
  <2>4. QED
    BY <1>8, <2>1, <2>2, <2>3 DEF Replay, Typed, TypeOK
<1>9. CASE AnalyzeSaves(k)
  <2>1. CaseStatus(call[k].finding) \in Terminal
    BY DEF CaseStatus, Terminal
  <2>2. CASE /\ SaveCasebook(call[k].id,
                [status |-> CaseStatus(call[k].finding), verdict |-> Verdict(k),
                 finding |-> call[k].finding, source |-> call[k].source,
                 replay |-> call[k].replay])
             /\ Goes(k, "saving_status") /\ UNCHANGED status
    <3> DEFINE book == [status |-> CaseStatus(call[k].finding), verdict |-> Verdict(k),
                        finding |-> call[k].finding, source |-> call[k].source,
                        replay |-> call[k].replay]
    <3>1. book \in Casebooks
      BY <1>1, <1>2, <2>1 DEF CallRecords, Casebooks
    <3>2. casebook' = [casebook EXCEPT ![id] = book]
      BY <2>2 DEF SaveCasebook
    <3> HIDE DEF book
    <3>3. casebook' \in [Ids -> Casebooks]
      BY <3>1, <3>2 DEF Typed, TypeOK
    <3>4. call' \in [Calls -> CallRecords] /\ Serving'
      BY <1>1, <1>9, <2>2, GoesTyped, Phases DEF AnalyzeSaves
    <3>5. QED
      BY <1>9, <2>2, <3>3, <3>4 DEF AnalyzeSaves, Typed, TypeOK
  <2>3. CASE /\ SaveStatus(call[k].id, CaseStatus(call[k].finding))
             /\ Ends(k, "answered") /\ UNCHANGED casebook
    <3>1. status' \in [Ids -> Terminal \cup {"none", "LOGS_FETCHED"}]
      BY <1>1, <2>1, <2>3 DEF SaveStatus, Typed, TypeOK
    <3>2. call' \in [Calls -> CallRecords] /\ Serving'
      BY <1>9, <2>3, EndsTyped DEF AnalyzeSaves, Finished
    <3>3. QED
      BY <1>9, <2>3, <3>1, <3>2 DEF AnalyzeSaves, Typed, TypeOK
  <2>4. QED
    BY <1>9, <2>2, <2>3 DEF AnalyzeSaves
<1>10. CASE HandlerFails(k)
  <2>1. call' \in [Calls -> CallRecords] /\ Serving'
    BY <1>10, EndsTyped DEF HandlerFails, Finished
  <2>2. QED
    BY <1>10, <2>1, MishapTyped DEF HandlerFails, Fault, Mishaps, Typed, TypeOK
<1>11. QED
  BY <1>4, <1>5, <1>6, <1>7, <1>8, <1>9, <1>10

(* The crash of the API.                                                   *)
LEMMA CrashTyped ==
    ASSUME Typed, Crash
    PROVE  Typed'
<1> USE DEF dlqVars, kafkaVars, caseVars, historyVars, boundVars
<1>1. ASSUME NEW k \in Calls PROVE call'[k] \in CallRecords /\ Serves(call'[k], client[k])
  <2>1. call'[k] = IF call[k].at \in Running THEN Ended(k, "failed") ELSE call[k]
    BY DEF Crash
  <2>2. QED
    BY <2>1, EndTyped, Phases DEF Typed, TypeOK, Serving, Serves
<1>2. call' \in [Calls -> CallRecords] /\ Serving'
  <2>1. call' = [k \in Calls |-> call'[k]] /\ UNCHANGED client
    BY DEF Crash
  <2>2. QED
    BY <1>1, <2>1 DEF Serving
<1>3. QED
  BY <1>2, MishapTyped DEF Crash, Mishaps, Typed, TypeOK

(* Every step keeps the types, and every call its case.                    *)
LEMMA StepTyped ==
    ASSUME Typed, [Next]_vars
    PROVE  Typed'
<1>1. CASE UNCHANGED vars
  BY <1>1 DEF vars, dlqVars, kafkaVars, caseVars, historyVars, boundVars, Typed, TypeOK, Serving
<1>2. CASE \E id \in Ids : Skip(id) \/ Refused(id)
  <2> PICK id \in Ids : Skip(id) \/ Refused(id)
    BY <1>2
  <2>1. CASE Calls = {}
    BY <2>1, TakeTyped, MishapTyped
    DEF Skip, Refused, Fault, Delivers, Loses, Mishaps, dlqVars, kafkaVars, caseVars, historyVars,
        boundVars, Typed,
        TypeOK, Serving
  <2>2. CASE Calls # {}
    BY <2>2, DeliveryTyped
  <2>3. QED
    BY <2>1, <2>2
<1>3. CASE \E id \in Ids, k \in Calls : Forward(id, k) \/ Post(id, k)
  BY <1>3, DeliveryTyped
<1>4. CASE \E k \in Calls : Consumer(k) \/ Handler(k)
  BY <1>4, ConsumerTyped, FetchTyped, AnalysisTyped DEF Handler
<1>5. CASE Crash
  BY <1>5, CrashTyped
<1>6. QED
  BY <1>1, <1>2, <1>3, <1>4, <1>5 DEF Next

LEMMA InitTyped == Init => Typed
<1> SUFFICES ASSUME Init PROVE Typed
  OBVIOUS
<1>1. /\ call \in [Calls -> CallRecords] /\ group \in [Fingerprints -> Groups]
      /\ \A p \in Fingerprints : Len(group[p].members) <= MemberCap
      /\ casebook \in [Ids -> Casebooks] /\ logs \in [Ids -> Logs]
  BY RecordsTyped, LogsTyped, ConstantsTyped DEF Init
<1>2. Serving
  BY DEF Init, Serving, Serves, NoCall, Fetching
<1>3. QED
  BY <1>1, <1>2, ConstantsTyped DEF Init, Typed, TypeOK

(* Type correctness: group records within their member cap, scores within  *)
(* 0 .. 1, and every call at a place of its handler.                       *)
THEOREM TypeCorrect == Spec => []TypeOK
<1>1. Typed => TypeOK
  BY DEF Typed
<1>2. QED
  BY <1>1, InitTyped, StepTyped, PTL DEF Spec

----------------------------------------------------------------------------
(* What a finding rests on.                                                *)

Concluding == {"investigating", "attaching", "replaying", "saving_casebook"}

(* Only class A is investigated or scored.  A finding on its way to the    *)
(* casebook is within its ceilings and names all that apply; one on its    *)
(* way to the group carries no decay.                                      *)
FindingSound(k) ==
    /\ call[k].at = "investigating" \/ call[k].finding.confidence # NoScore =>
          ClassOf(FailureOf(call[k].id)) = "A"
    /\ Supported(call[k].finding)
    /\ call[k].at # "investigating" =>
          Applied(FailureOf(call[k].id), Verdict(k), call[k].logs)
             \subseteq call[k].finding.ceilings
    /\ call[k].at = "attaching" => "reuse_decay" \notin call[k].finding.ceilings

FindingsSound == \A k \in Calls : call[k].at \in Concluding => FindingSound(k)

Evidenced == FindingsSound /\ ConfidenceBounded /\ CachedUndecayed

(* A step that brings no new finding.                                      *)
NoNewFinding ==
    /\ UNCHANGED <<failure, group>>
    /\ \A k \in Calls : call'[k].at \in Concluding => call'[k] = call[k]
    /\ \A id \in Ids : casebook'[id] = casebook[id] \/ casebook'[id].source = "none"

LEMMA NoNewFindingKeeps ==
    ASSUME Evidenced, NoNewFinding
    PROVE  Evidenced'
<1>1. FindingsSound'
  BY DEF Evidenced, NoNewFinding, FindingsSound, FindingSound, Supported, Verdict, FailureOf
<1>2. ConfidenceBounded'
  BY DEF Evidenced, NoNewFinding, ConfidenceBounded, Supported, FailureOf
<1>3. CachedUndecayed'
  BY DEF Evidenced, NoNewFinding, CachedUndecayed
<1>4. QED
  BY <1>1, <1>2, <1>3 DEF Evidenced

(* A call ends, or gets a place where it has no finding yet.               *)
LEMMA NoFindingYet ==
    ASSUME Typed, NEW k \in Calls, NEW c, c.at \notin Concluding, call' = [call EXCEPT ![k] = c]
    PROVE  \A j \in Calls : call'[j].at \in Concluding => call'[j] = call[j]
BY DEF Typed, TypeOK

LEMMA EndedFindsNothing ==
    ASSUME NEW k \in Calls, NEW how \in Finished
    PROVE  Ended(k, how).at \notin Concluding
BY DEF Ended, NoCall, Finished, Concluding

LEMMA GoneFindsNothing ==
    ASSUME Typed, NEW k \in Calls, ClientGone(k)
    PROVE  \A j \in Calls : call'[j].at \in Concluding => call'[j] = call[j]
<1>1. NoCall(NoId).at \notin Concluding
  BY DEF NoCall, Concluding
<1>2. QED
  BY <1>1, NoFindingYet DEF ClientGone

(* The calls' own steps short of a finding.                                *)
LEMMA QuietHandler ==
    ASSUME Typed, NEW k \in Calls,
           \/ FetchCheck(k) \/ FetchLogs(k) \/ FetchRead(k) \/ FetchPublish(k)
           \/ AnalyzeCheck(k) \/ HandlerFails(k)
    PROVE  NoNewFinding
<1> USE DEF dlqVars, kafkaVars, caseVars, historyVars, boundVars
<1>1. UNCHANGED <<failure, group, casebook>>
  BY DEF FetchCheck, FetchLogs, FetchRead, FetchPublish, AnalyzeCheck, HandlerFails
<1>2. call[k] \in CallRecords
  BY DEF Typed, TypeOK
<1>3. PICK c : call' = [call EXCEPT ![k] = c] /\ c.at \notin Concluding
  <2>1. CASE \E how \in Finished : Ends(k, how)
    BY <2>1, EndedFindsNothing DEF Ends
  <2>2. CASE \E at \in Fetching : Goes(k, at)
    <3> PICK at \in Fetching : Goes(k, at)
      BY <2>2
    <3>1. [call[k] EXCEPT !.at = at].at = at
      BY <1>2 DEF CallRecords
    <3>2. QED
      BY <3>1 DEF Goes, Fetching, Concluding
  <2>3. CASE FetchRead(k)
    <3> DEFINE c == [call[k] EXCEPT !.at = "publishing", !.read = status[call[k].id]]
    <3>1. c.at = "publishing"
      BY <1>2 DEF CallRecords
    <3>2. QED
      BY <2>3, <3>1 DEF FetchRead, Concluding
  <2>4. CASE call' = [call EXCEPT ![k].at = "recording", ![k].logs = logs[call[k].id]]
    <3> DEFINE c == [call[k] EXCEPT !.at = "recording", !.logs = logs[call[k].id]]
    <3>1. c.at = "recording"
      BY <1>2 DEF CallRecords
    <3>2. QED
      BY <2>4, <3>1 DEF Concluding
  <2>5. {"fetching", "reading"} \subseteq Fetching /\ {"answered", "failed"} \subseteq Finished
    BY DEF Fetching, Finished
  <2>6. CASE FetchCheck(k)
    BY <2>1, <2>2, <2>5, <2>6 DEF FetchCheck
  <2>7. CASE FetchLogs(k)
    BY <2>2, <2>5, <2>7 DEF FetchLogs
  <2>8. CASE FetchPublish(k)
    BY <2>1, <2>5, <2>8 DEF FetchPublish
  <2>9. CASE AnalyzeCheck(k)
    BY <2>1, <2>4, <2>5, <2>9 DEF AnalyzeCheck
  <2>10. CASE HandlerFails(k)
    BY <2>1, <2>5, <2>10 DEF HandlerFails
  <2>11. QED
    BY <2>3, <2>6, <2>7, <2>8, <2>9, <2>10
<1>4. QED
  BY <1>1, <1>3, NoFindingYet DEF NoNewFinding

(* The consumers, the API's clients and a crash.                           *)
LEMMA QuietRest ==
    ASSUME Typed,
           \/ \E id \in Ids : Skip(id) \/ Refused(id)
           \/ \E id \in Ids, k \in Calls : Forward(id, k) \/ Post(id, k)
           \/ \E k \in Calls : Consumer(k)
           \/ Crash \/ UNCHANGED vars
    PROVE  NoNewFinding
<1> USE DEF dlqVars, kafkaVars, caseVars, historyVars, boundVars
<1>1. CASE UNCHANGED vars \/ \E id \in Ids : Skip(id) \/ Refused(id)
  BY <1>1 DEF vars, Skip, Refused, NoNewFinding
<1>2. CASE \E id \in Ids, k \in Calls : Forward(id, k) \/ Post(id, k)
  <2> PICK id \in Ids, k \in Calls : Forward(id, k) \/ Post(id, k)
    BY <1>2
  <2>1. PICK at \in {"checking", "received"} : Arrive(k, id, at)
    BY DEF Forward, Post
  <2>2. [NoCall(id) EXCEPT !.at = at].at = at
    BY DEF NoCall
  <2>3. \A j \in Calls : call'[j].at \in Concluding => call'[j] = call[j]
    BY <2>1, <2>2, NoFindingYet DEF Arrive, Concluding
  <2>4. QED
    BY <2>3 DEF Forward, Post, NoNewFinding
<1>3. CASE \E k \in Calls : Consumer(k)
  <2> PICK k \in Calls : Consumer(k)
    BY <1>3
  <2>1. \A j \in Calls : call'[j].at \in Concluding => call'[j] = call[j]
    BY GoneFindsNothing DEF Consumer, GetAnswer, ClientTimeout, ClientSaves, Redeliver
  <2>2. UNCHANGED <<failure, group>>
    BY DEF Consumer, GetAnswer, ClientTimeout, ClientSaves, Redeliver
  <2>3. \A id \in Ids : casebook'[id] = casebook[id] \/ casebook'[id].source = "none"
    <3>1. TimeoutCasebook.source = "none"
      BY DEF TimeoutCasebook, NoCasebook
    <3>2. CASE ClientSaves(k)
      BY <3>1, <3>2 DEF ClientSaves, SaveCasebook, Typed, TypeOK
    <3>3. CASE GetAnswer(k) \/ ClientTimeout(k) \/ Redeliver(k)
      BY <3>3 DEF GetAnswer, ClientTimeout, Redeliver
    <3>4. QED
      BY <3>2, <3>3 DEF Consumer
  <2>4. QED
    BY <2>1, <2>2, <2>3 DEF NoNewFinding
<1>4. CASE Crash
  BY <1>4, EndedFindsNothing, Phases DEF Crash, NoNewFinding
<1>5. QED
  BY <1>1, <1>2, <1>3, <1>4

(* A finding the policy has been applied to is sound, whoever made it.     *)
LEMMA FinalSound ==
    ASSUME Typed, NEW k \in Calls, NEW f \in Findings, NEW reused \in BOOLEAN,
           f.confidence = NoScore \/ ClassOf(FailureOf(call[k].id)) = "A"
    PROVE  LET final == Final(k, f, reused) IN
           /\ final \in Findings /\ Supported(final)
           /\ Applied(FailureOf(call[k].id), Verdict(k), call[k].logs) \subseteq final.ceilings
           /\ ~reused => "reuse_decay" \notin final.ceilings
           /\ final.confidence # NoScore => ClassOf(FailureOf(call[k].id)) = "A"
BY PolicySupported DEF Final

(* Only class A is scored: the rest is canned.                             *)
LEMMA DecidesByClass ==
    ASSUME NEW class, NEW verdict, NEW onFile
    PROVE  /\ Decide(class, verdict, onFile) = "CANNED" <=> class # "A"
           /\ Decide(class, verdict, onFile) = "LLM_REQUIRED"
                 <=> Onward(Decide(class, verdict, onFile)) = "investigating"
           /\ Onward(Decide(class, verdict, onFile)) \in {"investigating", "replaying"}
           /\ Canned(class, verdict).confidence = NoScore
BY DEF Decide, Onward, Canned

LEMMA RecordEvidenced ==
    ASSUME Typed, Evidenced, NEW k \in Calls, Record(k)
    PROVE  Evidenced'
<1> USE DEF dlqVars, kafkaVars, caseVars, historyVars, boundVars
<1> DEFINE id == call[k].id
           p  == Fingerprint(k)
<1>1. /\ id \in Ids /\ call[k] \in CallRecords /\ call[k].at \in Running
      /\ p \in Fingerprints /\ Verdict(k) \in Verdicts
  <2>1. call[k].at \in Running
    BY Phases DEF Record
  <2>2. QED
    BY <2>1, Phases, CallEvidence, FindingsTyped DEF Typed, TypeOK, Serving, Serves
<1> PICK loaded \in {group[p], NewGroup} :
         LET g == Count(loaded, id, Verdict(k))
             choice == Decide(Class(k), Verdict(k), g.onFile)
         IN /\ Loads(p, loaded)
            /\ group' = [group EXCEPT ![p] = g]
            /\ call' = [call EXCEPT
                 ![k].at = Onward(choice),
                 ![k].source = CASE choice = "CANNED" -> "canned"
                                 [] choice = "REUSE_GROUP" -> "group_reuse"
                                 [] OTHER -> "none",
                 ![k].finding = CASE choice = "CANNED" ->
                                       Final(k, Canned(Class(k), Verdict(k)), FALSE)
                                  [] choice = "REUSE_GROUP" -> Final(k, g.recommendation, TRUE)
                                  [] OTHER -> NoFinding]
  BY DEF Record
<1> DEFINE g == Count(loaded, id, Verdict(k))
           choice == Decide(Class(k), Verdict(k), g.onFile)
           src == CASE choice = "CANNED" -> "canned"
                    [] choice = "REUSE_GROUP" -> "group_reuse"
                    [] OTHER -> "none"
           finding == CASE choice = "CANNED" -> Final(k, Canned(Class(k), Verdict(k)), FALSE)
                        [] choice = "REUSE_GROUP" -> Final(k, g.recommendation, TRUE)
                        [] OTHER -> NoFinding
           c == [call[k] EXCEPT !.at = Onward(choice), !.source = src, !.finding = finding]
<1>2. loaded \in Groups /\ Len(loaded.members) <= MemberCap
  BY <1>1, LoadsTyped DEF Typed
<1>3. g \in Groups /\ g.recommendation = loaded.recommendation
  BY <1>1, <1>2, CountTyped
<1>4. CachedUndecayed'
  <2>1. "reuse_decay" \notin loaded.recommendation.ceilings
    BY <1>1 DEF Evidenced, CachedUndecayed, NewGroup, NoFinding, FailedSynthesis
  <2>2. \A q \in Fingerprints : group'[q] = IF q = p THEN g ELSE group[q]
    BY DEF Typed, TypeOK
  <2> HIDE DEF g, p
  <2>3. QED
    BY <1>3, <2>1, <2>2 DEF Evidenced, CachedUndecayed
<1>5. ConfidenceBounded'
  BY DEF Record, Evidenced, ConfidenceBounded, FailureOf
<1>6. g.recommendation \in Findings /\ Canned(Class(k), Verdict(k)) \in Findings
  BY <1>3, FindingsTyped DEF Groups
<1>7. choice = "CANNED" <=> Class(k) # "A"
  BY DecidesByClass
<1>8. /\ choice = "LLM_REQUIRED" <=> Onward(choice) = "investigating"
      /\ Onward(choice) \in {"investigating", "replaying"}
      /\ Canned(Class(k), Verdict(k)).confidence = NoScore
  BY DecidesByClass
<1>9. choice \in {"CANNED", "REUSE_GROUP", "LLM_REQUIRED"}
  BY DEF Decide
<1>10. /\ Supported(finding)
       /\ Onward(choice) = "replaying" =>
             Applied(FailureOf(id), Verdict(k), call[k].logs) \subseteq finding.ceilings
       /\ Onward(choice) = "investigating" \/ finding.confidence # NoScore =>
             ClassOf(FailureOf(id)) = "A"
  <2> HIDE DEF g, choice
  <2>1. CASE choice = "CANNED"
    BY <1>6, <1>8, <2>1, FinalSound
  <2>2. CASE choice = "REUSE_GROUP"
    BY <1>6, <1>7, <2>2, FinalSound DEF Class
  <2>3. CASE choice = "LLM_REQUIRED"
    <3>1. finding = NoFinding
      BY <2>3
    <3>2. Supported(NoFinding) /\ NoFinding.confidence = NoScore
      BY DEF Supported, NoFinding, FailedSynthesis
    <3>3. QED
      BY <1>7, <1>8, <2>3, <3>1, <3>2 DEF Class
  <2>4. QED
    BY <1>9, <2>1, <2>2, <2>3
<1> HIDE DEF g, choice, src, finding
<1>11. /\ c.at = Onward(choice) /\ c.finding = finding /\ c.id = id
       /\ c.logs = call[k].logs
  BY <1>1 DEF CallRecords
<1>12. call' = [call EXCEPT ![k] = c]
  BY DEF g, choice, src, finding
<1>13. call'[k] = c /\ \A j \in Calls \ {k} : call'[j] = call[j]
  BY <1>12 DEF Typed, TypeOK
<1> HIDE DEF c
<1>14. UNCHANGED failure
  BY DEF Record
<1>15. call'[k].at \in Concluding => FindingSound(k)'
  BY <1>8, <1>10, <1>11, <1>13, <1>14 DEF Concluding, FindingSound, Supported, Verdict, FailureOf
<1>16. \A j \in Calls \ {k} : call'[j].at \in Concluding => FindingSound(j)'
  BY <1>13, <1>14 DEF Evidenced, FindingsSound, FindingSound, Supported, Verdict, FailureOf
<1>17. QED
  BY <1>4, <1>5, <1>15, <1>16 DEF Evidenced, FindingsSound

LEMMA InvestigateEvidenced ==
    ASSUME Typed, Evidenced, NEW k \in Calls, Investigate(k)
    PROVE  Evidenced'
<1> USE DEF dlqVars, kafkaVars, caseVars, historyVars, boundVars
<1>1. call[k] \in CallRecords
  BY DEF Typed, TypeOK
<1>2. PICK at \in {"attaching", "replaying"}, src \in Sources, f \in Findings :
         call' = [call EXCEPT ![k].at = at, ![k].source = src, ![k].finding = Final(k, f, FALSE)]
  BY InvestigatesOnce
<1>3. call[k].at = "investigating" /\ ClassOf(FailureOf(call[k].id)) = "A"
  BY DEF Investigate, Evidenced, FindingsSound, FindingSound, Concluding
<1> DEFINE finding == Final(k, f, FALSE)
           c == [call[k] EXCEPT !.at = at, !.source = src, !.finding = finding]
<1>4. /\ Supported(finding)
      /\ Applied(FailureOf(call[k].id), Verdict(k), call[k].logs) \subseteq finding.ceilings
      /\ "reuse_decay" \notin finding.ceilings
      /\ finding.confidence # NoScore => ClassOf(FailureOf(call[k].id)) = "A"
  BY <1>3, FinalSound
<1>5. call' = [call EXCEPT ![k] = c]
  BY <1>2
<1> HIDE DEF finding
<1>6. c.finding = finding /\ c.id = call[k].id /\ c.logs = call[k].logs /\ c.at = at
  BY <1>1 DEF CallRecords
<1> HIDE DEF c
<1>7. call'[k] = c /\ \A j \in Calls \ {k} : call'[j] = call[j]
  BY <1>5 DEF Typed, TypeOK
<1>8. UNCHANGED <<failure, group, casebook>>
  BY DEF Investigate
<1>9. FindingSound(k)'
  BY <1>4, <1>6, <1>7, <1>8 DEF FindingSound, Supported, Verdict, FailureOf
<1>10. \A j \in Calls \ {k} : call'[j].at \in Concluding => FindingSound(j)'
  BY <1>7, <1>8 DEF Evidenced, FindingsSound, FindingSound, Supported, Verdict, FailureOf
<1>11. ConfidenceBounded' /\ CachedUndecayed'
  BY <1>8 DEF Evidenced, ConfidenceBounded, CachedUndecayed, FailureOf
<1>12. QED
  BY <1>9, <1>10, <1>11 DEF Evidenced, FindingsSound

(* A call goes on with the finding it has.                                 *)
LEMMA GoesOnSound ==
    ASSUME Typed, FindingsSound, NEW k \in Calls, call[k].at \in Concluding \ {"investigating"},
           NEW c, call' = [call EXCEPT ![k] = c], c.id = call[k].id, c.logs = call[k].logs,
           c.finding = call[k].finding, c.at \notin {"investigating", "attaching"},
           UNCHANGED failure
    PROVE  FindingsSound'
<1>1. call'[k] = c /\ \A j \in Calls \ {k} : call'[j] = call[j]
  BY DEF Typed, TypeOK
<1>2. FindingSound(k)'
  BY <1>1 DEF FindingsSound, FindingSound, Supported, Verdict, FailureOf
<1>3. \A j \in Calls \ {k} : call'[j].at \in Concluding => FindingSound(j)'
  BY <1>1 DEF FindingsSound, FindingSound, Supported, Verdict, FailureOf
<1>4. QED
  BY <1>2, <1>3 DEF FindingsSound

LEMMA AttachEvidenced ==
    ASSUME Typed, Evidenced, NEW k \in Calls, Attach(k)
    PROVE  Evidenced'
<1> USE DEF dlqVars, kafkaVars, caseVars, historyVars, boundVars
<1> DEFINE p == Fingerprint(k)
           c == [call[k] EXCEPT !.at = "replaying"]
<1>1. call[k] \in CallRecords /\ p \in Fingerprints
  BY DEF Typed, TypeOK, Fingerprint, FingerprintOf, Fingerprints
<1>2. PICK loaded \in {group[p], NewGroup} :
          /\ Loads(p, loaded)
          /\ group' = [group EXCEPT ![p] =
                [loaded EXCEPT !.onFile = TRUE, !.recommendation = call[k].finding]]
  BY DEF Attach
<1>3. loaded \in Groups
  BY <1>1, <1>2, LoadsTyped DEF Typed
<1>4. "reuse_decay" \notin call[k].finding.ceilings
  BY DEF Attach, Evidenced, FindingsSound, FindingSound, Concluding
<1>5. CachedUndecayed'
  <2> DEFINE g == [loaded EXCEPT !.onFile = TRUE, !.recommendation = call[k].finding]
  <2>1. g.recommendation = call[k].finding
    BY <1>3 DEF Groups
  <2>2. \A q \in Fingerprints : group'[q] = IF q = p THEN g ELSE group[q]
    BY <1>2 DEF Typed, TypeOK
  <2> HIDE DEF g, p
  <2>3. QED
    BY <1>4, <2>1, <2>2 DEF Evidenced, CachedUndecayed
<1>6. ConfidenceBounded'
  BY DEF Attach, Evidenced, ConfidenceBounded, FailureOf
<1>7. /\ c.id = call[k].id /\ c.logs = call[k].logs /\ c.finding = call[k].finding
      /\ c.at = "replaying"
  BY <1>1 DEF CallRecords
<1>8. call' = [call EXCEPT ![k] = c] /\ UNCHANGED failure
  BY DEF Attach, Goes
<1> HIDE DEF c
<1>9. FindingsSound'
  BY <1>7, <1>8, GoesOnSound DEF Attach, Evidenced, Concluding
<1>10. QED
  BY <1>5, <1>6, <1>9 DEF Evidenced

LEMMA ReplayEvidenced ==
    ASSUME Typed, Evidenced, NEW k \in Calls, Replay(k)
    PROVE  Evidenced'
<1> USE DEF dlqVars, kafkaVars, caseVars, historyVars, boundVars
<1>1. call[k] \in CallRecords
  BY DEF Typed, TypeOK
<1>2. PICK c : /\ call' = [call EXCEPT ![k] = c]
               /\ c.id = call[k].id /\ c.logs = call[k].logs /\ c.finding = call[k].finding
               /\ c.at = "saving_casebook"
  <2>1. CASE Goes(k, "saving_casebook")
    <3> DEFINE c == [call[k] EXCEPT !.at = "saving_casebook"]
    <3>1. /\ c.id = call[k].id /\ c.logs = call[k].logs /\ c.finding = call[k].finding
          /\ c.at = "saving_casebook"
      BY <1>1 DEF CallRecords
    <3>2. QED
      BY <2>1, <3>1 DEF Goes
  <2>2. CASE \E r \in Replays :
                call' = [call EXCEPT ![k].at = "saving_casebook", ![k].replay = r]
    <3> PICK r \in Replays : call' = [call EXCEPT ![k].at = "saving_casebook", ![k].replay = r]
      BY <2>2
    <3> DEFINE c == [call[k] EXCEPT !.at = "saving_casebook", !.replay = r]
    <3>1. /\ c.id = call[k].id /\ c.logs = call[k].logs /\ c.finding = call[k].finding
          /\ c.at = "saving_casebook"
      BY <1>1 DEF CallRecords
    <3>2. call' = [call EXCEPT ![k] = c]
      OBVIOUS
    <3>3. QED
      BY <3>1, <3>2
  <2>3. {"queued", "failed"} \subseteq Replays
    BY DEF Replays
  <2>4. QED
    BY <2>1, <2>2, <2>3 DEF Replay
<1>3. FindingsSound'
  BY <1>2, GoesOnSound DEF Replay, Evidenced, Concluding
<1>4. ConfidenceBounded' /\ CachedUndecayed'
  BY DEF Replay, Evidenced, ConfidenceBounded, CachedUndecayed, FailureOf
<1>5. QED
  BY <1>3, <1>4 DEF Evidenced

LEMMA SavesEvidenced ==
    ASSUME Typed, Evidenced, NEW k \in Calls, AnalyzeSaves(k)
    PROVE  Evidenced'
<1> USE DEF dlqVars, kafkaVars, caseVars, historyVars, boundVars
<1> DEFINE id == call[k].id
           f  == call[k].finding
           book == [status |-> CaseStatus(f), verdict |-> Verdict(k), finding |-> f,
                    source |-> call[k].source, replay |-> call[k].replay]
<1>1. call[k] \in CallRecords /\ UNCHANGED <<failure, group>>
  BY DEF AnalyzeSaves, Typed, TypeOK
<1>2. CASE call[k].at = "saving_casebook" /\ SaveCasebook(id, book) /\ Goes(k, "saving_status")
  <2> DEFINE c == [call[k] EXCEPT !.at = "saving_status"]
  <2>1. c.at = "saving_status"
    BY <1>1 DEF CallRecords
  <2>2. call' = [call EXCEPT ![k] = c]
    BY <1>2 DEF Goes
  <2>3. \A j \in Calls : call'[j].at \in Concluding => call'[j] = call[j]
    BY <2>1, <2>2, NoFindingYet DEF Concluding
  <2>4. FindingsSound'
    BY <1>1, <2>3 DEF Evidenced, FindingsSound, FindingSound, Supported, Verdict, FailureOf
  <2>5. CachedUndecayed'
    BY <1>1 DEF Evidenced, CachedUndecayed
  <2>6. /\ Supported(f)
        /\ Applied(FailureOf(id), Verdict(k), call[k].logs) \subseteq f.ceilings
    BY <1>2 DEF Evidenced, FindingsSound, FindingSound, Concluding
  <2>7. Applied(FailureOf(id), Verdict(k), NoLogs("lines")) \subseteq f.ceilings
    BY <2>6 DEF Applied, NoLogs
  <2>8. \A i \in Ids : casebook'[i] = IF i = id THEN book ELSE casebook[i]
    BY <1>2 DEF SaveCasebook, Typed, TypeOK
  <2>9. ConfidenceBounded'
    <3>1. book.finding = f /\ book.verdict = Verdict(k)
      OBVIOUS
    <3> HIDE DEF book, id, f
    <3>2. QED
      BY <1>1, <2>6, <2>7, <2>8, <3>1 DEF Evidenced, ConfidenceBounded, Supported, FailureOf
  <2>10. QED
    BY <2>4, <2>5, <2>9 DEF Evidenced
<1>3. CASE Ends(k, "answered") /\ UNCHANGED casebook
  <2>1. Ended(k, "answered").at \notin Concluding
    BY EndedFindsNothing DEF Finished
  <2>2. NoNewFinding
    BY <1>1, <1>3, <2>1, NoFindingYet DEF Ends, NoNewFinding
  <2>3. QED
    BY <2>2, NoNewFindingKeeps
<1>4. QED
  BY <1>2, <1>3 DEF AnalyzeSaves

LEMMA StepEvidenced ==
    ASSUME Typed, Evidenced, [Next]_vars
    PROVE  Evidenced'
<1>1. CASE NoNewFinding
  BY <1>1, NoNewFindingKeeps
<1>2. ASSUME NEW k \in Calls, Handler(k) PROVE Evidenced'
  BY <1>1, <1>2, QuietHandler, RecordEvidenced, InvestigateEvidenced, AttachEvidenced,
     ReplayEvidenced, SavesEvidenced DEF Handler
<1>3. QED
  BY <1>1, <1>2, QuietRest DEF Next

LEMMA InitEvidenced == Init => Evidenced
<1> SUFFICES ASSUME Init PROVE Evidenced
  OBVIOUS
<1>1. FindingsSound
  BY DEF Init, FindingsSound, NoCall, Concluding
<1>2. ConfidenceBounded
  BY DEF Init, ConfidenceBounded, NoCasebook
<1>3. CachedUndecayed
  <2>1. "reuse_decay" \notin NewGroup.recommendation.ceilings
    BY DEF NewGroup, NoFinding, FailedSynthesis
  <2>2. QED
    BY <2>1 DEF Init, CachedUndecayed
<1>4. QED
  BY <1>1, <1>2, <1>3 DEF Evidenced

(* Whoever made it, the score of a finding in a casebook is within every   *)
(* ceiling that its failure and its verdict call for.                      *)
THEOREM ScoresSupported == Spec => []ConfidenceBounded
<1>1. Evidenced => ConfidenceBounded
  BY DEF Evidenced
<1>2. QED
  BY <1>1, InitTyped, StepTyped, InitEvidenced, StepEvidenced, PTL DEF Spec

(* What a group serves its later cases has never been decayed.             *)
THEOREM CacheUndecayed == Spec => []CachedUndecayed
<1>1. Evidenced => CachedUndecayed
  BY DEF Evidenced
<1>2. QED
  BY <1>1, InitTyped, StepTyped, InitEvidenced, StepEvidenced, PTL DEF Spec

----------------------------------------------------------------------------
(* What each kind of step leaves alone.                                    *)

LEMMA HandlerFrame ==
    ASSUME NEW k \in Calls, Handler(k)
    PROVE  /\ UNCHANGED <<client, failure, inDlq, refetched, overlapped>>
           /\ lostSends \subseteq lostSends'
           /\ FetchLogs(k) \/ logs' = logs
           /\ FetchPublish(k) \/ UNCHANGED <<waiting, carries>>
           /\ Replay(k) \/ replayed' = replayed
           /\ AnalyzeSaves(k) \/ casebook' = casebook
           /\ FetchPublish(k) \/ AnalyzeSaves(k) \/ status' = status
           /\ Record(k) \/ recorded' = recorded
           /\ Record(k) \/ Attach(k) \/ group' = group
<1> USE DEF dlqVars, kafkaVars, caseVars, historyVars, boundVars
<1>1. CASE FetchCheck(k) \/ FetchLogs(k) \/ FetchRead(k)
  BY <1>1 DEF FetchCheck, FetchLogs, FetchRead
<1>2. CASE FetchPublish(k)
  BY <1>2 DEF FetchPublish
<1>3. CASE AnalyzeCheck(k) \/ Record(k)
  BY <1>3 DEF AnalyzeCheck, Record
<1>4. CASE Investigate(k) \/ Attach(k)
  BY <1>4 DEF Investigate, Attach
<1>5. CASE Replay(k)
  BY <1>5 DEF Replay
<1>6. CASE AnalyzeSaves(k) \/ HandlerFails(k)
  BY <1>6 DEF AnalyzeSaves, HandlerFails
<1>7. QED
  BY <1>1, <1>2, <1>3, <1>4, <1>5, <1>6 DEF Handler

LEMMA ConsumerFrame ==
    ASSUME NEW k \in Calls, Consumer(k)
    PROVE  /\ UNCHANGED <<carries, logs, group, replayed, failure, recorded, overlapped>>
           /\ inDlq \subseteq inDlq' /\ lostSends \subseteq lostSends'
           /\ refetched \subseteq refetched'
           /\ ClientSaves(k) \/ UNCHANGED <<casebook, status>>
           /\ Redeliver(k) \/ UNCHANGED <<waiting, refetched>>
<1> USE DEF dlqVars, kafkaVars, caseVars, historyVars, boundVars
<1>1. CASE GetAnswer(k) \/ ClientTimeout(k)
  BY <1>1 DEF GetAnswer, ClientTimeout, PublishToDlq, Delivers, Loses
<1>2. CASE ClientSaves(k)
  BY <1>2 DEF ClientSaves, PublishToDlq, Delivers, Loses
<1>3. CASE Redeliver(k)
  BY <1>3 DEF Redeliver
<1>4. QED
  BY <1>1, <1>2, <1>3 DEF Consumer

LEMMA DeliveryFrame ==
    ASSUME \/ \E id \in Ids : Skip(id) \/ Refused(id)
           \/ \E id \in Ids, k \in Calls : Forward(id, k) \/ Post(id, k)
           \/ Crash \/ UNCHANGED vars
    PROVE  /\ UNCHANGED <<carries, logs, casebook, status, group, replayed, failure,
                          recorded, refetched>>
           /\ inDlq \subseteq inDlq' /\ lostSends \subseteq lostSends'
           /\ overlapped \subseteq overlapped'
<1> USE DEF dlqVars, kafkaVars, caseVars, historyVars, boundVars
<1>1. CASE \E id \in Ids : Skip(id) \/ Refused(id)
  BY <1>1 DEF Skip, Refused, Delivers, Loses
<1>2. CASE \E id \in Ids, k \in Calls : Forward(id, k) \/ Post(id, k)
  BY <1>2 DEF Forward, Post, Arrive
<1>3. CASE Crash \/ UNCHANGED vars
  BY <1>3 DEF Crash, vars
<1>4. QED
  BY <1>1, <1>2, <1>3

(* What a step may change, and by whom.                                    *)
LEMMA StepFrame ==
    ASSUME [Next]_vars
    PROVE  /\ failure' = failure /\ refetched \subseteq refetched'
           /\ overlapped \subseteq overlapped' /\ inDlq \subseteq inDlq'
           /\ lostSends \subseteq lostSends'
           /\ (\E k \in Calls : FetchLogs(k)) \/ logs' = logs
           /\ (\E k \in Calls : Replay(k)) \/ replayed' = replayed
           /\ (\E k \in Calls : FetchPublish(k)) \/ carries' = carries
           /\ (\E k \in Calls : AnalyzeSaves(k) \/ ClientSaves(k)) \/ casebook' = casebook
<1>1. CASE \E k \in Calls : Handler(k)
  BY <1>1, HandlerFrame
<1>2. CASE \E k \in Calls : Consumer(k)
  BY <1>2, ConsumerFrame
<1>3. CASE ~ \E k \in Calls : Handler(k) \/ Consumer(k)
  BY <1>3, DeliveryFrame DEF Next
<1>4. QED
  BY <1>1, <1>2, <1>3

----------------------------------------------------------------------------
(* What a replay rests on.                                                 *)

FetchesNext == {"checking", "fetching"}

(* Until its logs are saved, a case delivered once has one fetch to come   *)
(* and is neither analysed nor replayed; then its logs stay, and those who *)
(* analyse it have read them.                                              *)
FetchOnce(id) ==
    /\ waiting[id] <= 1
    /\ waiting[id] = 1 => /\ logs[id].kind = "absent"
                          /\ \A k \in Calls : call[k].id = id => call[k].at \notin FetchesNext
    /\ \A k \in Calls : call[k].id = id /\ call[k].at \in FetchesNext =>
          /\ logs[id].kind = "absent"
          /\ \A j \in Calls \ {k} : call[j].id = id => call[j].at \notin FetchesNext
    /\ logs[id].kind = "absent" =>
          /\ replayed[id] = 0
          /\ \A k \in Calls : call[k].id = id => call[k].at \notin Analysing
    /\ \A k \in Calls : call[k].id = id /\ call[k].at \in Analysing \ {"received"} =>
          call[k].logs = logs[id]

FetchedOnce == \A id \in Cases \ refetched : FetchOnce(id)

----------------------------------------------------------------------------
(* How a handler moves its call.                                           *)

ToReplay == {"recording", "investigating", "attaching", "replaying"}

Onwards(k, c) ==
    /\ call' = [call EXCEPT ![k] = c]
    /\ c.at \in Running => c.id = call[k].id /\ call[k].at \in Running
    /\ c.at \in FetchesNext => call[k].at = "checking"
    /\ c.at \in Analysing =>
          /\ call[k].at \in Analysing /\ c.at # "received"
          /\ c.logs = IF call[k].at = "received" THEN logs[call[k].id] ELSE call[k].logs
    /\ c.at \in ToReplay =>
          \/ call[k].at \in ToReplay
          \/ call[k].at = "received" /\ ~Settled(call[k].id)
    /\ c.at = "saving_casebook" => call[k].at = "replaying"
    /\ c.at = "saving_status" => call[k].at = "saving_casebook"
    /\ client[k] # "none" => c.id = call[k].id

LEMMA EndsOnwards ==
    ASSUME Typed, NEW k \in Calls, NEW how \in Finished, Ends(k, how)
    PROVE  Onwards(k, Ended(k, how))
<1>1. Ended(k, how).at \in Finished \cup {"idle"}
  BY DEF Ended, NoCall
<1>2. Ended(k, how).at \notin Running
  BY <1>1, Phases
<1>3. QED
  BY <1>2, EndTyped, Phases DEF Ends, Onwards, FetchesNext, ToReplay

LEMMA GoesOnwards ==
    ASSUME Typed, NEW k \in Calls, NEW at \in Running, Goes(k, at),
           \/ call[k].at = "checking" /\ at \in Fetching
           \/ call[k].at = "fetching" /\ at = "reading"
           \/ call[k].at = "attaching" /\ at = "replaying"
           \/ call[k].at = "replaying" /\ at = "saving_casebook"
           \/ call[k].at = "saving_casebook" /\ at = "saving_status"
    PROVE  Onwards(k, [call[k] EXCEPT !.at = at])
<1> DEFINE c == [call[k] EXCEPT !.at = at]
<1>1. c.at = at /\ c.id = call[k].id /\ c.logs = call[k].logs
  BY DEF Typed, TypeOK, CallRecords
<1>2. call' = [call EXCEPT ![k] = c]
  BY DEF Goes
<1> SUFFICES Onwards(k, c)
  OBVIOUS
<1> HIDE DEF c
<1>3. CASE call[k].at = "checking" /\ at \in Fetching
  BY <1>1, <1>2, <1>3 DEF Onwards, FetchesNext, ToReplay, Running, Fetching, Analysing
<1>4. CASE call[k].at = "fetching" /\ at = "reading"
  BY <1>1, <1>2, <1>4 DEF Onwards, FetchesNext, ToReplay, Running, Fetching, Analysing
<1>5. CASE call[k].at = "attaching" /\ at = "replaying"
  BY <1>1, <1>2, <1>5 DEF Onwards, FetchesNext, ToReplay, Running, Fetching, Analysing
<1>6. CASE call[k].at = "replaying" /\ at = "saving_casebook"
  BY <1>1, <1>2, <1>6 DEF Onwards, FetchesNext, ToReplay, Running, Fetching, Analysing
<1>7. CASE call[k].at = "saving_casebook" /\ at = "saving_status"
  BY <1>1, <1>2, <1>7 DEF Onwards, FetchesNext, ToReplay, Running, Fetching, Analysing
<1>8. QED
  BY <1>3, <1>4, <1>5, <1>6, <1>7

LEMMA HandlerOnwards ==
    ASSUME Typed, NEW k \in Calls, Handler(k)
    PROVE  \E c : Onwards(k, c)
<1>1. call[k] \in CallRecords
  BY DEF Typed, TypeOK
<1>2. CASE \E how \in Finished : Ends(k, how)
  BY <1>2, EndsOnwards
<1>3. CASE FetchCheck(k)
  BY <1>2, <1>3, GoesOnwards, Phases DEF FetchCheck
<1>4. CASE FetchLogs(k)
  BY <1>4, GoesOnwards, Phases DEF FetchLogs
<1>5. CASE FetchRead(k)
  <2> DEFINE c == [call[k] EXCEPT !.at = "publishing", !.read = status[call[k].id]]
  <2>1. c.at = "publishing" /\ c.id = call[k].id /\ call' = [call EXCEPT ![k] = c]
    BY <1>1, <1>5 DEF FetchRead, CallRecords
  <2> HIDE DEF c
  <2>2. Onwards(k, c)
    BY <1>5, <2>1, Phases DEF FetchRead, Onwards, FetchesNext, ToReplay
  <2>3. QED
    BY <2>2
<1>6. CASE FetchPublish(k)
  BY <1>2, <1>6, Phases DEF FetchPublish
<1>7. CASE AnalyzeCheck(k)
  <2>1. CASE Settled(call[k].id)
    BY <1>2, <1>7, <2>1, Phases DEF AnalyzeCheck
  <2>2. CASE ~Settled(call[k].id)
    <3> DEFINE c == [call[k] EXCEPT !.at = "recording", !.logs = logs[call[k].id]]
    <3>1. /\ c.at = "recording" /\ c.id = call[k].id /\ c.logs = logs[call[k].id]
          /\ call' = [call EXCEPT ![k] = c]
      BY <1>1, <1>7, <2>2 DEF AnalyzeCheck, CallRecords
    <3> HIDE DEF c
    <3>2. Onwards(k, c)
      BY <1>7, <2>2, <3>1, Phases DEF AnalyzeCheck, Onwards, FetchesNext, ToReplay
    <3>3. QED
      BY <3>2
  <2>3. QED
    BY <2>1, <2>2
<1>8. CASE Record(k)
  <2>1. PICK at, src, f :
           /\ call' = [call EXCEPT ![k].at = at, ![k].source = src, ![k].finding = f]
           /\ at \in {"investigating", "replaying"}
    BY <1>8 DEF Record, Onward
  <2> DEFINE c == [call[k] EXCEPT !.at = at, !.source = src, !.finding = f]
  <2>2. /\ c.at = at /\ c.id = call[k].id /\ c.logs = call[k].logs
        /\ call' = [call EXCEPT ![k] = c]
    BY <1>1, <2>1 DEF CallRecords
  <2> HIDE DEF c
  <2>3. Onwards(k, c)
    <3>1. call[k].at = "recording"
      BY <1>8 DEF Record
    <3>2. CASE at = "investigating"
      BY <2>2, <3>1, <3>2 DEF Onwards, FetchesNext, ToReplay, Running, Fetching, Analysing
    <3>3. CASE at = "replaying"
      BY <2>2, <3>1, <3>3 DEF Onwards, FetchesNext, ToReplay, Running, Fetching, Analysing
    <3>4. QED
      BY <2>1, <3>2, <3>3
  <2>4. QED
    BY <2>3
<1>9. CASE Investigate(k)
  <2>1. PICK at, src, f :
           /\ call' = [call EXCEPT ![k].at = at, ![k].source = src, ![k].finding = f]
           /\ at \in {"attaching", "replaying"}
    BY <1>9, InvestigatesOnce
  <2> DEFINE c == [call[k] EXCEPT !.at = at, !.source = src, !.finding = f]
  <2>2. /\ c.at = at /\ c.id = call[k].id /\ c.logs = call[k].logs
        /\ call' = [call EXCEPT ![k] = c]
    BY <1>1, <2>1 DEF CallRecords
  <2> HIDE DEF c
  <2>3. Onwards(k, c)
    <3>1. call[k].at = "investigating"
      BY <1>9 DEF Investigate
    <3>2. CASE at = "attaching"
      BY <2>2, <3>1, <3>2 DEF Onwards, FetchesNext, ToReplay, Running, Fetching, Analysing
    <3>3. CASE at = "replaying"
      BY <2>2, <3>1, <3>3 DEF Onwards, FetchesNext, ToReplay, Running, Fetching, Analysing
    <3>4. QED
      BY <2>1, <3>2, <3>3
  <2>4. QED
    BY <2>3
<1>10. CASE Attach(k)
  BY <1>10, GoesOnwards, Phases DEF Attach
<1>11. CASE Replay(k)
  <2>1. CASE Goes(k, "saving_casebook")
    BY <1>11, <2>1, GoesOnwards, Phases DEF Replay
  <2>2. CASE \E r : call' = [call EXCEPT ![k].at = "saving_casebook", ![k].replay = r]
    <3> PICK r : call' = [call EXCEPT ![k].at = "saving_casebook", ![k].replay = r]
      BY <2>2
    <3> DEFINE c == [call[k] EXCEPT !.at = "saving_casebook", !.replay = r]
    <3>1. /\ c.at = "saving_casebook" /\ c.id = call[k].id /\ c.logs = call[k].logs
          /\ call' = [call EXCEPT ![k] = c]
      BY <1>1 DEF CallRecords
    <3> HIDE DEF c
    <3>2. Onwards(k, c)
      BY <1>11, <3>1, Phases DEF Replay, Onwards, FetchesNext, ToReplay
    <3>3. QED
      BY <3>2
  <2>3. QED
    BY <1>11, <2>1, <2>2 DEF Replay
<1>12. CASE AnalyzeSaves(k)
  BY <1>2, <1>12, GoesOnwards, Phases DEF AnalyzeSaves
<1>13. CASE HandlerFails(k)
  BY <1>2, <1>13, Phases DEF HandlerFails
<1>14. QED
  BY <1>3, <1>4, <1>5, <1>6, <1>7, <1>8, <1>9, <1>10, <1>11, <1>12, <1>13 DEF Handler

(* What a handler does to its own call keeps to one fetch per case.        *)
LEMMA OnwardsFetchOnce ==
    ASSUME Typed, NEW k \in Calls, NEW c, Onwards(k, c), NEW id \in Cases, FetchOnce(id),
           waiting'[id] = waiting[id], logs'[id] = logs[id],
           replayed'[id] # replayed[id] => call[k].id = id /\ call[k].at \in Analysing
    PROVE  FetchOnce(id)'
<1>1. \A j \in Calls : call'[j] = IF j = k THEN c ELSE call[j]
  BY DEF Onwards, Typed, TypeOK
<1>2. \A j \in Calls : call'[j].id = id /\ call'[j].at \in FetchesNext =>
         call[j].id = id /\ call[j].at \in FetchesNext
  BY <1>1 DEF Onwards, FetchesNext, Running, Fetching
<1>3. \A j \in Calls : call'[j].id = id /\ call'[j].at \in Analysing =>
         call[j].id = id /\ call[j].at \in Analysing
  BY <1>1 DEF Onwards, Running
<1>4. \A j \in Calls : call'[j].id = id /\ call'[j].at \in Analysing \ {"received"} =>
         call'[j].logs = logs[id]
  <2> SUFFICES ASSUME NEW j \in Calls, call'[j].id = id,
                      call'[j].at \in Analysing \ {"received"}
               PROVE  call'[j].logs = logs[id]
    OBVIOUS
  <2>1. CASE j = k
    BY <1>1, <1>3, <2>1 DEF Onwards, FetchOnce
  <2>2. CASE j # k
    BY <1>1, <2>2 DEF FetchOnce
  <2>3. QED
    BY <2>1, <2>2
<1>5. QED
  BY <1>2, <1>3, <1>4 DEF FetchOnce

(* So does what ends calls, delivers a record or takes it.                 *)
LEMMA LessFetchOnce ==
    ASSUME NEW id \in Cases, FetchOnce(id), waiting[id] \in Nat,
           waiting'[id] \in {waiting[id], waiting[id] - 1},
           logs'[id] = logs[id], replayed'[id] = replayed[id],
           \A j \in Calls : call'[j] = call[j] \/ call'[j].at \notin Running
    PROVE  FetchOnce(id)'
<1>1. \A j \in Calls : call'[j].at \in FetchesNext \cup Analysing => call'[j] = call[j]
  BY DEF FetchesNext, Running, Fetching
<1>2. QED
  BY <1>1 DEF FetchOnce

LEMMA ArriveFetchOnce ==
    ASSUME Typed, NEW k \in Calls, NEW on \in Ids, NEW id \in Cases, FetchOnce(id),
           Forward(on, k) \/ Post(on, k)
    PROVE  FetchOnce(id)'
<1> USE DEF dlqVars, kafkaVars, caseVars, historyVars, boundVars
<1>1. waiting[id] \in Nat /\ logs' = logs /\ replayed' = replayed
  BY DEF Typed, TypeOK, Forward, Post, Ids
<1>2. PICK at \in {"checking", "received"} :
           /\ Arrive(k, on, at)
           /\ on \in Cases /\ at = "checking" => waiting[on] > 0 /\ waiting'[on] = waiting[on] - 1
           /\ on \in Cases /\ at = "received" => waiting' = waiting /\ logs[on].kind # "absent"
           /\ \A i \in Ids \ {on} : waiting'[i] = waiting[i]
  BY DEF Forward, Take, Post, Typed, TypeOK, Ids
<1> DEFINE c == [NoCall(on) EXCEPT !.at = at]
<1>3. c.id = on /\ c.at = at
  BY DEF NoCall
<1>4. \A j \in Calls : call'[j] = IF j = k THEN c ELSE call[j]
  BY <1>2 DEF Arrive, Typed, TypeOK
<1> HIDE DEF c
<1>5. CASE on # id
  BY <1>1, <1>2, <1>3, <1>4, <1>5 DEF FetchOnce, Ids
<1>6. CASE on = id /\ at = "checking"
  BY <1>1, <1>2, <1>3, <1>4, <1>6 DEF FetchOnce, Analysing
<1>7. CASE on = id /\ at = "received"
  BY <1>1, <1>2, <1>3, <1>4, <1>7 DEF FetchOnce, FetchesNext
<1>8. QED
  BY <1>2, <1>5, <1>6, <1>7

(* The one fetch of a case finds it neither analysed nor replayed.         *)
LEMMA FetchLogsFetchOnce ==
    ASSUME Typed, NEW k \in Calls, FetchLogs(k), NEW id \in Cases, FetchOnce(id)
    PROVE  FetchOnce(id)'
<1> USE DEF dlqVars, kafkaVars, caseVars, historyVars, boundVars
<1>1. UNCHANGED <<waiting, replayed>>
  BY DEF FetchLogs
<1>2. \A i \in Ids \ {call[k].id} : logs'[i] = logs[i]
  BY DEF FetchLogs, Typed, TypeOK
<1>3. call[k].at = "fetching" /\ call[k] \in CallRecords
  BY DEF FetchLogs, Typed, TypeOK
<1> DEFINE c == [call[k] EXCEPT !.at = "reading"]
<1>4. c.at = "reading" /\ c.id = call[k].id
  BY <1>3 DEF CallRecords
<1>5. call' = [call EXCEPT ![k] = c]
  BY DEF FetchLogs, Goes
<1> HIDE DEF c
<1>6. \A j \in Calls : call'[j] = IF j = k THEN c ELSE call[j]
  BY <1>5 DEF Typed, TypeOK
<1>7. CASE call[k].id # id
  BY <1>1, <1>2, <1>4, <1>6, <1>7 DEF FetchOnce, Ids
<1>8. CASE call[k].id = id
  <2>1. /\ waiting[id] # 1 /\ logs[id].kind = "absent"
        /\ \A j \in Calls \ {k} : call[j].id = id => call[j].at \notin FetchesNext
    BY <1>3, <1>8 DEF FetchOnce, FetchesNext
  <2>2. \A j \in Calls : call'[j].id = id => call'[j].at \notin FetchesNext \cup Analysing
    BY <1>4, <1>6, <2>1 DEF FetchOnce, FetchesNext, Analysing
  <2>3. QED
    BY <1>1, <2>1, <2>2 DEF FetchOnce
<1>9. QED
  BY <1>7, <1>8

LEMMA ConsumerFetchOnce ==
    ASSUME Typed, NEW k \in Calls, Consumer(k), NEW id \in Cases \ refetched', FetchOnce(id)
    PROVE  FetchOnce(id)'
<1> USE DEF dlqVars, kafkaVars, caseVars, historyVars, boundVars
<1>1. waiting'[id] = waiting[id] /\ waiting[id] \in Nat
  <2>1. CASE Redeliver(k)
    BY <2>1 DEF Redeliver, Typed, TypeOK, Ids
  <2>2. CASE GetAnswer(k) \/ ClientTimeout(k) \/ ClientSaves(k)
    BY <2>2 DEF GetAnswer, ClientTimeout, ClientSaves, Typed, TypeOK, Ids
  <2>3. QED
    BY <2>1, <2>2 DEF Consumer
<1>2. logs' = logs /\ replayed' = replayed
  BY DEF Consumer, GetAnswer, ClientTimeout, ClientSaves, Redeliver
<1>3. \A j \in Calls : call'[j] = call[j] \/ call'[j].at \notin Running
  <2>1. CASE UNCHANGED call
    BY <2>1
  <2>2. CASE ClientGone(k)
    BY <2>2, Phases DEF ClientGone, NoCall, Typed, TypeOK
  <2>3. QED
    BY <2>1, <2>2 DEF Consumer, GetAnswer, ClientTimeout, ClientSaves, Redeliver
<1>4. QED
  BY <1>1, <1>2, <1>3, LessFetchOnce

LEMMA HandlerFetchOnce ==
    ASSUME Typed, NEW k \in Calls, Handler(k), NEW id \in Cases, FetchOnce(id)
    PROVE  FetchOnce(id)'
<1> USE DEF dlqVars, kafkaVars, caseVars, historyVars, boundVars
<1>1. CASE FetchLogs(k)
  BY <1>1, FetchLogsFetchOnce
<1>2. CASE ~FetchLogs(k)
  <2>1. waiting'[id] = waiting[id]
    <3>1. CASE FetchPublish(k)
      BY <3>1, IdsAssumption DEF FetchPublish, Typed, TypeOK, Ids
    <3>2. CASE ~FetchPublish(k)
      BY <3>2, HandlerFrame
    <3>3. QED
      BY <3>1, <3>2
  <2>2. logs' = logs
    BY <1>2, HandlerFrame
  <2>3. replayed'[id] # replayed[id] => call[k].id = id /\ call[k].at \in Analysing
    <3>1. CASE Replay(k)
      BY <3>1, Phases DEF Replay, Typed, TypeOK, Ids
    <3>2. CASE ~Replay(k)
      BY <3>2, HandlerFrame
    <3>3. QED
      BY <3>1, <3>2
  <2>4. QED
    BY <2>1, <2>2, <2>3, HandlerOnwards, OnwardsFetchOnce
<1>3. QED
  BY <1>1, <1>2

LEMMA StepFetchedOnce ==
    ASSUME Typed, FetchedOnce, [Next]_vars
    PROVE  FetchedOnce'
<1> USE DEF dlqVars, kafkaVars, caseVars, historyVars, boundVars
<1>1. refetched \subseteq refetched'
  BY StepFrame
<1> SUFFICES ASSUME NEW id \in Cases \ refetched', FetchOnce(id)
             PROVE  FetchOnce(id)'
  BY <1>1 DEF FetchedOnce
<1>2. waiting[id] \in Nat
  BY DEF Typed, TypeOK, Ids
<1>3. CASE UNCHANGED vars
  BY <1>2, <1>3, LessFetchOnce DEF vars
<1>4. CASE \E on \in Ids : Skip(on) \/ Refused(on)
  BY <1>2, <1>4, LessFetchOnce DEF Skip, Refused, Take, Typed, TypeOK, Ids
<1>5. CASE Crash
  <2>1. \A j \in Calls : call'[j] = call[j] \/ call'[j].at \notin Running
    BY <1>5, Phases DEF Crash, Ended, NoCall
  <2>2. QED
    BY <1>2, <1>5, <2>1, LessFetchOnce DEF Crash
<1>6. CASE \E on \in Ids, k \in Calls : Forward(on, k) \/ Post(on, k)
  BY <1>6, ArriveFetchOnce
<1>7. CASE \E k \in Calls : Consumer(k) \/ Handler(k)
  BY <1>7, ConsumerFetchOnce, HandlerFetchOnce
<1>8. QED
  BY <1>3, <1>4, <1>5, <1>6, <1>7 DEF Next

(* A replay was earned by a finding above the ceiling of unverifiable      *)
(* logs, and the logs compared then are those of the case.                 *)
LEMMA StepReplaysEarned ==
    ASSUME UnverifiedCeiling < ReplayThreshold, Typed, Evidenced, FetchedOnce,
           NeverReplayedBlind, [Next]_vars
    PROVE  NeverReplayedBlind'
<1> USE DEF dlqVars, kafkaVars, caseVars, historyVars, boundVars
<1>1. refetched \subseteq refetched' /\ failure' = failure
  BY StepFrame
<1>2. CASE UNCHANGED <<logs, replayed>>
  BY <1>1, <1>2 DEF NeverReplayedBlind, FailureOf
<1>3. ASSUME NEW k \in Calls, FetchLogs(k)
      PROVE  NeverReplayedBlind'
  <2>1. \A id \in Ids \ refetched : replayed[id] > 0 => logs'[id] = logs[id]
    <3> SUFFICES ASSUME NEW id \in Ids \ refetched, replayed[id] > 0, call[k].id = id
                 PROVE  FALSE
      BY <1>3 DEF FetchLogs, Typed, TypeOK
    <3>1. call[k].at = "fetching"
      BY <1>3 DEF FetchLogs
    <3>2. id \in Cases
      BY <3>1 DEF Typed, Serving, Serves, Fetching
    <3>3. QED
      BY <3>1, <3>2 DEF FetchedOnce, FetchOnce, FetchesNext
  <2>2. QED
    BY <1>1, <1>3, <2>1 DEF NeverReplayedBlind, FailureOf, FetchLogs
<1>4. ASSUME NEW k \in Calls, Replay(k), replayed' # replayed
      PROVE  NeverReplayedBlind'
  <2> DEFINE id == call[k].id
             f  == call[k].finding
  <2>1. call[k].at = "replaying" /\ ShouldReplay(f, id \in Identified) /\ UNCHANGED <<logs, refetched>>
    BY <1>4 DEF Replay
  <2>2. /\ f.confidence # NoScore /\ f.confidence >= ReplayThreshold /\ f.confidence \in Int
        /\ id \in Ids
    <3>1. f \in Findings
      BY DEF Typed, TypeOK, CallRecords
    <3>2. f.confidence \in Int
      <4>1. Scores \cup {NoScore} \subseteq Int
        BY DEF Scores, NoScore
      <4> HIDE DEF f
      <4>2. QED
        BY <3>1, <4>1 DEF Findings
    <3>3. id \in Ids
      <4>1. call[k].at # "idle"
        BY <2>1
      <4>2. QED
        BY <4>1 DEF Typed, Serving, Serves
    <3>4. QED
      BY <2>1, <3>2, <3>3 DEF ShouldReplay
  <2>3. /\ ClassOf(FailureOf(id)) = "A" /\ Supported(f)
        /\ Applied(FailureOf(id), Verdict(k), call[k].logs) \subseteq f.ceilings
    BY <2>1, <2>2 DEF Evidenced, FindingsSound, FindingSound, Concluding
  <2>4. Verdict(k) # "UNVERIFIABLE"
    <3>1. Limit["unverifiable"] = UnverifiedCeiling
      BY LimitValues
    <3>2. ASSUME Verdict(k) = "UNVERIFIABLE" PROVE FALSE
      <4>1. "unverifiable" \in f.ceilings
        BY <2>3, <3>2 DEF Applied, Labels
      <4>2. f.confidence <= UnverifiedCeiling
        BY <2>3, <3>1, <4>1 DEF Supported
      <4>3. QED
        <5>1. UnverifiedCeiling \in Int /\ ReplayThreshold \in Int
          <6>1. UnverifiedCeiling \in Scores
            BY CeilingsAssumption
          <6>2. QED
            BY <6>1, ReplayAssumption DEF Scores
        <5>2. \A c \in Int : c >= ReplayThreshold => ~(c <= UnverifiedCeiling)
          BY <5>1
        <5>3. QED
          BY <2>2, <4>2, <5>2
    <3>3. QED
      BY <3>2
  <2>5. id \in Cases
    <3>1. ClassOf(Unparsed) = "U"
      BY DEF ClassOf, Unparsed
    <3>2. QED
      BY <2>3, <3>1 DEF FailureOf
  <2>6. id \notin refetched => call[k].logs = logs[id]
    BY <2>1, <2>5, Phases DEF FetchedOnce, FetchOnce
  <2>7. \A i \in Ids : i # id => replayed'[i] = replayed[i]
    BY <1>4, <2>2 DEF Replay, Typed, TypeOK
  <2> HIDE DEF id, f
  <2>8. QED
    BY <1>1, <2>1, <2>3, <2>4, <2>6, <2>7 DEF NeverReplayedBlind, Verdict, FailureOf, id
<1>5. QED
  BY <1>2, <1>3, <1>4, StepFrame

LEMMA InitFetchedOnce == Init => FetchedOnce /\ NeverReplayedBlind
BY DEF Init, FetchedOnce, FetchOnce, NeverReplayedBlind, NoCall, NoLogs, FetchesNext, Analysing, Ids

(* With an unverifiable ceiling below the replay threshold, as by default, *)
(* no case fetched once is replayed blind, on a cached finding or its own. *)
THEOREM ReplaysEarned ==
    ASSUME UnverifiedCeiling < ReplayThreshold
    PROVE  Spec => []NeverReplayedBlind
<1>1. Typed /\ Evidenced /\ FetchedOnce /\ NeverReplayedBlind /\ [Next]_vars
         => (FetchedOnce /\ NeverReplayedBlind)'
  BY StepFetchedOnce, StepReplaysEarned
<1>2. QED
  BY <1>1, InitTyped, StepTyped, InitEvidenced, StepEvidenced, InitFetchedOnce, PTL DEF Spec

----------------------------------------------------------------------------
(* How often a case is replayed.                                           *)

Undisturbed(id) == mishaps \cap {"crash", "fault"} = {} /\ id \notin overlapped
RunsFor(k, id) == call[k].id = id /\ call[k].at \in Running

(* A case that was replayed has its casebook, or is about to; a call that  *)
(* may still replay it found it neither replayed nor about to be.          *)
Once(id) ==
    /\ \A j, k \in Calls : RunsFor(j, id) /\ RunsFor(k, id) => j = k
    /\ replayed[id] \in {0, 1}
    /\ replayed[id] = 1 =>
          \/ casebook[id].status \in Terminal
          \/ \E k \in Calls : call[k].id = id /\ call[k].at = "saving_casebook"
    /\ \A k \in Calls : call[k].id = id /\ call[k].at \in ToReplay => replayed[id] = 0

OnceOnly == \A id \in Ids : Undisturbed(id) => Once(id)

(* What happens outside the handlers, a crash aside.                       *)
LEMMA QuietOnce ==
    ASSUME Typed, NEW id \in Ids, Once(id), replayed'[id] = replayed[id],
           \A j \in Calls : call[j].at \in Running => call'[j] = call[j],
           \A j \in Calls : call[j].at \notin Running /\ RunsFor(j, id)' =>
              /\ call'[j].at \notin ToReplay
              /\ \A i \in Calls \ {j} : ~RunsFor(i, id)',
           casebook[id].status \in Terminal => casebook'[id].status \in Terminal
    PROVE  Once(id)'
<1>1. \A j, k \in Calls : RunsFor(j, id)' /\ RunsFor(k, id)' => j = k
  BY DEF Once, RunsFor
<1>2. replayed'[id] = 1 =>
         \/ casebook'[id].status \in Terminal
         \/ \E k \in Calls : call'[k].id = id /\ call'[k].at = "saving_casebook"
  BY Phases DEF Once
<1>3. ToReplay \subseteq Running
  BY DEF ToReplay, Running, Analysing
<1>4. \A k \in Calls : call'[k].id = id /\ call'[k].at \in ToReplay => replayed'[id] = 0
  BY <1>3 DEF Once, RunsFor
<1>5. QED
  BY <1>1, <1>2, <1>4 DEF Once

(* A handler goes on without a replay, and without losing a casebook.      *)
LEMMA OnwardsOnce ==
    ASSUME Typed, NEW id \in Ids, Once(id), NEW k \in Calls, NEW c, Onwards(k, c),
           replayed'[id] = replayed[id],
           call[k].id = id /\ call[k].at = "saving_casebook" => casebook'[id].status \in Terminal,
           casebook[id].status \in Terminal => casebook'[id].status \in Terminal
    PROVE  Once(id)'
<1>1. \A j \in Calls : call'[j] = IF j = k THEN c ELSE call[j]
  BY DEF Onwards, Typed, TypeOK
<1>2. \A j \in Calls : RunsFor(j, id)' => RunsFor(j, id)
  BY <1>1 DEF Onwards, RunsFor
<1>3. replayed'[id] = 1 =>
         \/ casebook'[id].status \in Terminal
         \/ \E j \in Calls : call'[j].id = id /\ call'[j].at = "saving_casebook"
  BY <1>1 DEF Once
<1>4. ASSUME NEW j \in Calls, call'[j].id = id, call'[j].at \in ToReplay
      PROVE  replayed'[id] = 0
  <2>1. CASE j # k
    BY <1>1, <1>4, <2>1 DEF Once
  <2>2. CASE j = k
    <3>1. c.id = id /\ c.at \in ToReplay /\ c.at \in Running
      BY <1>1, <1>4, <2>2 DEF ToReplay, Running, Analysing
    <3>2. call[k].id = id /\ call[k].at \in Running
      BY <3>1 DEF Onwards
    <3>3. CASE call[k].at \in ToReplay
      BY <3>2, <3>3 DEF Once
    <3>4. CASE call[k].at = "received" /\ ~Settled(id)
      <4>1. \A i \in Calls : call[i].id = id => call[i].at # "saving_casebook"
        <5> SUFFICES ASSUME NEW i \in Calls, call[i].id = id, call[i].at = "saving_casebook"
                     PROVE  FALSE
          OBVIOUS
        <5>1. i = k
          BY <3>2, Phases DEF Once, RunsFor
        <5>2. QED
          BY <3>4, <5>1
      <4>2. QED
        BY <3>4, <4>1 DEF Once, Settled
    <3>5. QED
      BY <3>1, <3>2, <3>3, <3>4 DEF Onwards
  <2>3. QED
    BY <2>1, <2>2
<1>5. QED
  BY <1>2, <1>3, <1>4 DEF Once

LEMMA ReplayOnce ==
    ASSUME Typed, NEW k \in Calls, Replay(k), ~Fault, NEW id \in Ids, Once(id)
    PROVE  Once(id)'
<1> USE DEF dlqVars, kafkaVars, caseVars, historyVars, boundVars
<1>1. call[k].at = "replaying" /\ casebook' = casebook /\ call[k] \in CallRecords
  BY DEF Replay, Typed, TypeOK
<1>2. CASE replayed' = [replayed EXCEPT ![call[k].id] = @ + 1]
           /\ call' = [call EXCEPT ![k].at = "saving_casebook", ![k].replay = "queued"]
  <2> DEFINE c == [call[k] EXCEPT !.at = "saving_casebook", !.replay = "queued"]
  <2>1. c.at = "saving_casebook" /\ c.id = call[k].id /\ call' = [call EXCEPT ![k] = c]
    BY <1>1, <1>2 DEF CallRecords
  <2> HIDE DEF c
  <2>2. \A j \in Calls : call'[j] = IF j = k THEN c ELSE call[j]
    BY <2>1 DEF Typed, TypeOK
  <2>3. \A j \in Calls : RunsFor(j, id)' => RunsFor(j, id)
    BY <1>1, <2>1, <2>2, Phases DEF RunsFor
  <2>4. CASE call[k].id = id
    <3>1. replayed[id] = 0 /\ RunsFor(k, id)
      BY <1>1, <2>4, Phases DEF Once, ToReplay, RunsFor
    <3>2. replayed'[id] = 1
      BY <1>2, <2>4, <3>1 DEF Typed, TypeOK
    <3>3. \A j \in Calls : call'[j].id = id => call'[j].at \notin ToReplay
      <4> SUFFICES ASSUME NEW j \in Calls, call'[j].id = id, call'[j].at \in ToReplay
                   PROVE  FALSE
        OBVIOUS
      <4>1. RunsFor(j, id)'
        BY DEF RunsFor, ToReplay, Running, Analysing
      <4>2. j = k
        BY <2>3, <3>1, <4>1 DEF Once
      <4>3. QED
        BY <2>1, <2>2, <4>2 DEF ToReplay
    <3>4. call'[k].id = id /\ call'[k].at = "saving_casebook"
      BY <2>1, <2>2, <2>4
    <3>5. QED
      BY <2>3, <3>2, <3>3, <3>4 DEF Once
  <2>5. CASE call[k].id # id
    <3>1. replayed'[id] = replayed[id]
      BY <1>2, <2>5 DEF Typed, TypeOK
    <3>2. QED
      BY <1>1, <2>1, <2>2, <2>3, <2>5, <3>1 DEF Once
  <2>6. QED
    BY <2>4, <2>5
<1>3. CASE Goes(k, "saving_casebook") /\ UNCHANGED replayed
  BY <1>1, <1>3, GoesOnwards, OnwardsOnce, Phases
<1>4. QED
  BY <1>2, <1>3 DEF Replay

(* A casebook stays terminal, whoever writes it next.                      *)
LEMMA CasebookStays ==
    ASSUME Typed, [Next]_vars, NEW id \in Ids, casebook[id].status \in Terminal
    PROVE  casebook'[id].status \in Terminal
<1> USE DEF dlqVars, kafkaVars, caseVars, historyVars, boundVars
<1>1. CASE UNCHANGED casebook
  BY <1>1
<1>2. ASSUME NEW k \in Calls, NEW book, SaveCasebook(call[k].id, book),
             book.status \in Terminal
      PROVE  casebook'[id].status \in Terminal
  BY <1>2 DEF SaveCasebook, Typed, TypeOK
<1>3. ASSUME NEW k \in Calls, ClientSaves(k) PROVE casebook'[id].status \in Terminal
  <2>1. TimeoutCasebook.status \in Terminal
    BY DEF TimeoutCasebook, NoCasebook, Terminal
  <2>2. QED
    BY <1>1, <1>2, <1>3, <2>1 DEF ClientSaves
<1>4. ASSUME NEW k \in Calls, AnalyzeSaves(k) PROVE casebook'[id].status \in Terminal
  <2>1. CaseStatus(call[k].finding) \in Terminal
    BY DEF CaseStatus, Terminal
  <2>2. QED
    BY <1>1, <1>2, <1>4, <2>1 DEF AnalyzeSaves
<1>5. QED
  BY <1>1, <1>3, <1>4, StepFrame

LEMMA HandlerOnce ==
    ASSUME Typed, NEW k \in Calls, Handler(k), ~Fault, NEW id \in Ids, Once(id),
           casebook[id].status \in Terminal => casebook'[id].status \in Terminal
    PROVE  Once(id)'
<1> USE DEF dlqVars, kafkaVars, caseVars, historyVars, boundVars
<1>1. CASE Replay(k)
  BY <1>1, ReplayOnce
<1>2. CASE ~Replay(k)
  <2>1. replayed' = replayed
    BY <1>2, HandlerFrame
  <2>2. ASSUME call[k].id = id, call[k].at = "saving_casebook"
        PROVE  casebook'[id].status \in Terminal
    <3>1. AnalyzeSaves(k)
      BY <1>2, <2>2 DEF Handler, FetchCheck, FetchLogs, FetchRead, FetchPublish, AnalyzeCheck,
         Record, Investigate, Attach, HandlerFails
    <3>2. PICK book : SaveCasebook(id, book) /\ book.status = CaseStatus(call[k].finding)
      BY <2>2, <3>1 DEF AnalyzeSaves
    <3>3. QED
      BY <3>2 DEF SaveCasebook, CaseStatus, Terminal, Typed, TypeOK
  <2>3. QED
    BY <2>1, <2>2, HandlerOnwards, OnwardsOnce
<1>3. QED
  BY <1>1, <1>2

LEMMA ArriveOnce ==
    ASSUME Typed, NEW k \in Calls, NEW on \in Ids, NEW id \in Ids, Once(id),
           Forward(on, k) \/ Post(on, k), id \notin overlapped'
    PROVE  Once(id)'
<1> USE DEF dlqVars, kafkaVars, caseVars, historyVars, boundVars
<1>1. PICK at \in {"checking", "received"} : Arrive(k, on, at)
  BY DEF Forward, Post
<1> DEFINE c == [NoCall(on) EXCEPT !.at = at]
<1>2. c.id = on /\ c.at = at
  BY DEF NoCall
<1>3. \A j \in Calls : call'[j] = IF j = k THEN c ELSE call[j]
  BY <1>1 DEF Arrive, Typed, TypeOK
<1> HIDE DEF c
<1>4. call[k].at = "idle" /\ UNCHANGED <<replayed, casebook>>
  BY <1>1 DEF Arrive, Forward, Post
<1>5. \A j \in Calls : call[j].at \in Running => call'[j] = call[j]
  BY <1>3, <1>4, Phases
<1>6. ASSUME NEW j \in Calls, call[j].at \notin Running, RunsFor(j, id)'
      PROVE  /\ call'[j].at \notin ToReplay
             /\ \A i \in Calls \ {j} : ~RunsFor(i, id)'
  <2>1. j = k /\ on = id /\ call'[j].at = at
    BY <1>2, <1>3, <1>6 DEF RunsFor
  <2>2. \A i \in Calls : ~RunsFor(i, id)
    BY <1>1, <2>1 DEF Arrive, RunsFor
  <2>3. QED
    BY <1>3, <2>1, <2>2 DEF RunsFor, ToReplay
<1>7. QED
  BY <1>4, <1>5, <1>6, QuietOnce

LEMMA StepOnceOnly ==
    ASSUME Typed, OnceOnly, [Next]_vars
    PROVE  OnceOnly'
<1> USE DEF dlqVars, kafkaVars, caseVars, historyVars, boundVars
<1>1. overlapped \subseteq overlapped' /\ mishaps \subseteq mishaps'
  <2>1. overlapped \subseteq overlapped'
    BY StepFrame
  <2>2. ASSUME NEW kind, Mishap(kind) PROVE mishaps \subseteq mishaps'
    BY <2>2 DEF Mishap
  <2>3. ASSUME NEW k \in Calls, Handler(k) PROVE mishaps \subseteq mishaps'
    BY <2>2, <2>3 DEF Handler, FetchCheck, FetchLogs, FetchRead, FetchPublish, AnalyzeCheck,
       Record, Investigate, Attach, Replay, AnalyzeSaves, HandlerFails, Loads, Fault
  <2>4. ASSUME NEW k \in Calls, Consumer(k) PROVE mishaps \subseteq mishaps'
    BY <2>2, <2>4 DEF Consumer, GetAnswer, PublishToDlq, ClientTimeout, ClientSaves,
       Redeliver, Fault
  <2>5. QED
    BY <2>1, <2>2, <2>3, <2>4 DEF Next, vars, Skip, Refused, Forward, Post, Crash, Fault
<1> SUFFICES ASSUME NEW id \in Ids, Undisturbed(id)', Once(id)
             PROVE  Once(id)'
  BY <1>1 DEF OnceOnly, Undisturbed
<1>2. ~Crash /\ ~Fault
  BY DEF Crash, Fault, Mishap, Undisturbed
<1>3. casebook[id].status \in Terminal => casebook'[id].status \in Terminal
  BY CasebookStays
<1>4. CASE /\ UNCHANGED replayed
           /\ \A j \in Calls : /\ call[j].at \in Running => call'[j] = call[j]
                               /\ call'[j].at \in Running => call'[j] = call[j]
  BY <1>3, <1>4, QuietOnce DEF RunsFor
<1>5. CASE UNCHANGED <<replayed, call>>
  BY <1>4, <1>5
<1>6. CASE \E on \in Ids, k \in Calls : Forward(on, k) \/ Post(on, k)
  BY <1>6, ArriveOnce DEF Undisturbed
<1>7. ASSUME NEW k \in Calls, Consumer(k)
      PROVE  Once(id)'
  <2>1. replayed' = replayed
    BY <1>7 DEF Consumer, GetAnswer, ClientTimeout, ClientSaves, Redeliver
  <2>2. CASE ClientGone(k)
    BY <1>4, <2>1, <2>2, Phases DEF ClientGone, NoCall, Typed, TypeOK
  <2>3. QED
    BY <1>5, <1>7, <2>1, <2>2 DEF Consumer, GetAnswer, ClientTimeout, ClientSaves, Redeliver
<1>8. ASSUME NEW k \in Calls, Handler(k)
      PROVE  Once(id)'
  BY <1>2, <1>3, <1>8, HandlerOnce
<1>9. QED
  BY <1>2, <1>5, <1>6, <1>7, <1>8 DEF Next, vars, Skip, Refused

LEMMA InitOnceOnly == Init => OnceOnly
BY Phases DEF Init, OnceOnly, Once, RunsFor, ToReplay, NoCall

(* Posted or delivered however often, with no two calls at once and no     *)
(* crash or fault between the replay and the casebook, a case is replayed  *)
(* at most once.                                                           *)
THEOREM ReplaysOnce == Spec => []ReplayedOnce
<1>1. Typed /\ OnceOnly => ReplayedOnce
  BY DEF OnceOnly, Once, Undisturbed, ReplayedOnce
<1>2. QED
  BY <1>1, InitTyped, StepTyped, InitOnceOnly, StepOnceOnly, PTL DEF Spec

----------------------------------------------------------------------------
(* What the occurrence count counts.                                       *)

(* The members were all recorded, and nobody is left out while they fit.   *)
Tracks(g, ids) ==
    /\ \A i \in DOMAIN g.members : g.members[i] \in ids
    /\ g.count >= Cardinality(ids)
    /\ Cardinality(ids) <= MemberCap =>
          /\ g.count = Cardinality(ids) /\ Len(g.members) = Cardinality(ids)
          /\ \A id \in ids : \E i \in DOMAIN g.members : g.members[i] = id

Counted ==
    \A p \in Fingerprints :
       /\ group[p].count = Total(group[p].history)
       /\ "erasure" \notin mishaps => Tracks(group[p], recorded[p])

LEMMA CountTotals ==
    ASSUME NEW g \in Groups, NEW id, NEW verdict \in Verdicts, g.count = Total(g.history)
    PROVE  Count(g, id, verdict).count = Total(Count(g, id, verdict).history)
<1> DEFINE h == [g.history EXCEPT ![verdict] = @ + 1]
<1>1. g.history \in [Verdicts -> Nat] /\ g.count \in Nat
  BY DEF Groups
<1>2. Total(h) = Total(g.history) + 1
  BY <1>1 DEF Total, Verdicts
<1>3. CASE \E i \in DOMAIN g.members : g.members[i] = id
  BY <1>3 DEF Count
<1>4. CASE ~ \E i \in DOMAIN g.members : g.members[i] = id
  <2>1. Count(g, id, verdict).count = g.count + 1 /\ Count(g, id, verdict).history = h
    BY <1>4 DEF Count, Groups
  <2>2. QED
    BY <1>2, <2>1
<1>5. QED
  BY <1>3, <1>4

LEMMA CountTracks ==
    ASSUME NEW g \in Groups, Len(g.members) <= MemberCap, NEW ids \in SUBSET Ids,
           NEW id \in Ids, NEW verdict \in Verdicts, Tracks(g, ids)
    PROVE  Tracks(Count(g, id, verdict), ids \cup {id})
<1> DEFINE more == ids \cup {id}
           counted == Count(g, id, verdict)
<1>1. IsFiniteSet(ids)
  BY IdsAssumption, FS_Subset
<1>2. /\ Cardinality(ids) \in Nat
      /\ Cardinality(more) = IF id \in ids THEN Cardinality(ids) ELSE Cardinality(ids) + 1
  BY <1>1, FS_CardinalityType, FS_AddElement
<1>3. g.members \in Seq(Ids) /\ g.count \in Nat /\ Len(g.members) \in Nat
      /\ DOMAIN g.members = 1 .. Len(g.members)
  BY DEF Groups
<1>4. CASE \E i \in DOMAIN g.members : g.members[i] = id
  <2>1. id \in ids /\ counted = g
    BY <1>4 DEF Tracks, Count
  <2>2. more = ids
    BY <2>1
  <2>3. QED
    BY <2>1, <2>2
<1>5. CASE ~ \E i \in DOMAIN g.members : g.members[i] = id
  <2> DEFINE longer == IF Len(g.members) < MemberCap THEN Append(g.members, id)
                                                     ELSE Append(Tail(g.members), id)
  <2>1. counted.count = g.count + 1 /\ counted.members = longer
    BY <1>5 DEF Count, Groups
  <2>2. \A i \in DOMAIN longer : longer[i] \in more
    <3>1. CASE Len(g.members) < MemberCap
      <4>1. longer = Append(g.members, id)
        BY <3>1
      <4>2. \A i \in 1 .. Len(g.members) + 1 : Append(g.members, id)[i] \in more
        BY <1>3 DEF Tracks
      <4>3. QED
        BY <1>3, <4>1, <4>2
    <3>2. CASE ~(Len(g.members) < MemberCap)
      <4> DEFINE rest == Tail(g.members)
      <4>1. longer = Append(rest, id) /\ Len(g.members) > 0
        BY <1>3, <3>2, ConstantsTyped
      <4>2. /\ rest \in Seq(Ids) /\ Len(rest) = Len(g.members) - 1
            /\ \A i \in 1 .. Len(rest) : rest[i] = g.members[i + 1]
        BY <1>3, <4>1
      <4>3. \A i \in 1 .. Len(rest) : rest[i] \in ids
        BY <1>3, <4>2 DEF Tracks
      <4> HIDE DEF rest
      <4>4. \A i \in 1 .. Len(rest) + 1 : Append(rest, id)[i] \in more
        BY <4>2, <4>3
      <4>5. QED
        BY <4>1, <4>2, <4>4
    <3>3. QED
      BY <3>1, <3>2
  <2>3. g.count + 1 >= Cardinality(more)
    BY <1>2, <1>3 DEF Tracks
  <2>4. ASSUME Cardinality(more) <= MemberCap
        PROVE  /\ g.count + 1 = Cardinality(more) /\ Len(longer) = Cardinality(more)
               /\ \A n \in more : \E i \in DOMAIN longer : longer[i] = n
    <3>1. Cardinality(ids) <= MemberCap
      BY <1>2, <2>4, ConstantsTyped
    <3>2. /\ g.count = Cardinality(ids) /\ Len(g.members) = Cardinality(ids)
          /\ \A n \in ids : \E i \in DOMAIN g.members : g.members[i] = n
      BY <3>1 DEF Tracks
    <3>3. id \notin ids /\ Cardinality(more) = Cardinality(ids) + 1
      BY <1>2, <1>5, <3>2
    <3>4. longer = Append(g.members, id)
      BY <1>2, <2>4, <3>2, <3>3, ConstantsTyped
    <3>5. /\ Len(longer) = Len(g.members) + 1 /\ DOMAIN longer = 1 .. Len(g.members) + 1
          /\ longer[Len(g.members) + 1] = id
          /\ \A i \in 1 .. Len(g.members) : longer[i] = g.members[i]
      BY <1>3, <3>4
    <3> HIDE DEF longer
    <3>6. \A n \in more : \E i \in DOMAIN longer : longer[i] = n
      BY <1>3, <3>2, <3>5
    <3>7. QED
      BY <3>2, <3>3, <3>5, <3>6
  <2>5. QED
    BY <2>1, <2>2, <2>3, <2>4 DEF Tracks
<1>6. QED
  BY <1>4, <1>5

LEMMA NewGroupCounted == NewGroup.count = Total(NewGroup.history) /\ Tracks(NewGroup, {})
<1>1. /\ NewGroup.count = 0 /\ NewGroup.members = <<>>
      /\ NewGroup.history = [v \in Verdicts |-> 0]
  BY DEF NewGroup
<1>2. Total(NewGroup.history) = 0
  BY <1>1 DEF Total, Verdicts
<1>3. Cardinality({}) = 0
  BY FS_EmptySet
<1>4. QED
  BY <1>1, <1>2, <1>3 DEF Tracks

(* The group a handler loads is the group it left, or its loss is known.   *)
LEMMA LoadsCounted ==
    ASSUME Counted, NEW p \in Fingerprints, NEW g \in {group[p], NewGroup}, Loads(p, g)
    PROVE  /\ g.count = Total(g.history)
           /\ "erasure" \notin mishaps' => Tracks(g, recorded[p])
           /\ mishaps \subseteq mishaps'
BY NewGroupCounted DEF Loads, Mishap, boundVars, Counted

LEMMA RecordCounted ==
    ASSUME Typed, Counted, NEW k \in Calls, Record(k)
    PROVE  Counted'
<1> DEFINE id == call[k].id
           p  == Fingerprint(k)
<1>1. id \in Ids /\ p \in Fingerprints /\ Verdict(k) \in Verdicts
  <2>1. call[k].at \in Running
    BY Phases DEF Record
  <2>2. QED
    BY <2>1, Phases, CallEvidence, FindingsTyped DEF Typed, TypeOK, Serving, Serves
<1>2. PICK g \in {group[p], NewGroup} :
           /\ Loads(p, g)
           /\ group' = [group EXCEPT ![p] = Count(g, id, Verdict(k))]
  BY DEF Record
<1>3. g \in Groups /\ Len(g.members) <= MemberCap
  BY <1>1, <1>2, LoadsTyped DEF Typed
<1>4. recorded' = [recorded EXCEPT ![p] = @ \cup {id}]
  BY DEF Record
<1>5. \A q \in Fingerprints :
         /\ group'[q] = IF q = p THEN Count(g, id, Verdict(k)) ELSE group[q]
         /\ recorded'[q] = IF q = p THEN recorded[p] \cup {id} ELSE recorded[q]
  BY <1>2, <1>4 DEF Typed, TypeOK
<1>6. recorded[p] \in SUBSET Ids
  BY <1>1 DEF Typed, TypeOK
<1> HIDE DEF id, p
<1>7. /\ g.count = Total(g.history)
      /\ "erasure" \notin mishaps' => Tracks(g, recorded[p])
      /\ mishaps \subseteq mishaps'
  BY <1>1, <1>2, LoadsCounted
<1>8. /\ Count(g, id, Verdict(k)).count = Total(Count(g, id, Verdict(k)).history)
      /\ "erasure" \notin mishaps' =>
            Tracks(Count(g, id, Verdict(k)), recorded[p] \cup {id})
  BY <1>1, <1>3, <1>6, <1>7, CountTotals, CountTracks
<1> DEFINE counted == Count(g, id, Verdict(k))
<1>9. ASSUME NEW q \in Fingerprints
      PROVE  /\ group'[q].count = Total(group'[q].history)
             /\ "erasure" \notin mishaps' => Tracks(group'[q], recorded'[q])
  <2>1. CASE q = p
    BY <1>5, <1>8, <2>1
  <2>2. CASE q # p
    BY <1>5, <1>7, <2>2 DEF Counted
  <2>3. QED
    BY <2>1, <2>2
<1>10. QED
  BY <1>9 DEF Counted, Tracks

LEMMA AttachCounted ==
    ASSUME Typed, Counted, NEW k \in Calls, Attach(k)
    PROVE  Counted'
<1> DEFINE p == Fingerprint(k)
<1>1. p \in Fingerprints
  BY Phases DEF Fingerprint, FingerprintOf, Fingerprints
<1>2. PICK g \in {group[p], NewGroup} :
           /\ Loads(p, g)
           /\ group' = [group EXCEPT ![p] =
                 [g EXCEPT !.onFile = TRUE, !.recommendation = call[k].finding]]
  BY DEF Attach
<1>3. g \in Groups
  BY <1>1, <1>2, LoadsTyped DEF Typed
<1> DEFINE attached == [g EXCEPT !.onFile = TRUE, !.recommendation = call[k].finding]
<1>4. /\ attached.count = g.count /\ attached.history = g.history
      /\ attached.members = g.members
  BY <1>3 DEF Groups
<1>5. \A q \in Fingerprints : group'[q] = IF q = p THEN attached ELSE group[q]
  BY <1>2 DEF Typed, TypeOK
<1>6. recorded' = recorded
  BY DEF Attach, historyVars
<1> HIDE DEF p, attached
<1>7. /\ g.count = Total(g.history)
      /\ "erasure" \notin mishaps' => Tracks(g, recorded[p])
      /\ mishaps \subseteq mishaps'
  BY <1>1, <1>2, LoadsCounted
<1>8. ASSUME NEW q \in Fingerprints
      PROVE  /\ group'[q].count = Total(group'[q].history)
             /\ "erasure" \notin mishaps' => Tracks(group'[q], recorded'[q])
  <2>1. CASE q = p
    BY <1>4, <1>5, <1>6, <1>7, <2>1 DEF Tracks
  <2>2. CASE q # p
    BY <1>5, <1>6, <1>7, <2>2 DEF Counted
  <2>3. QED
    BY <2>1, <2>2
<1>9. QED
  BY <1>8 DEF Counted, Tracks

LEMMA StepCounted ==
    ASSUME Typed, Counted, [Next]_vars
    PROVE  Counted'
<1> USE DEF dlqVars, kafkaVars, caseVars, historyVars, boundVars
<1>1. CASE UNCHANGED <<group, recorded>> /\ mishaps \subseteq mishaps'
  BY <1>1 DEF Counted, Tracks
<1>2. ASSUME NEW kind, Mishap(kind) PROVE mishaps \subseteq mishaps'
  BY <1>2 DEF Mishap
<1>3. ASSUME NEW k \in Calls, Handler(k) PROVE Counted'
  <2>1. CASE Record(k) \/ Attach(k)
    BY <2>1, RecordCounted, AttachCounted
  <2>2. CASE ~Record(k) /\ ~Attach(k)
    <3>1. UNCHANGED <<group, recorded>>
      BY <1>3, <2>2 DEF Handler, FetchCheck, FetchLogs, FetchRead, FetchPublish, AnalyzeCheck,
         Investigate, Replay, AnalyzeSaves, HandlerFails
    <3>2. mishaps \subseteq mishaps'
      BY <1>2, <1>3, <2>2 DEF Handler, FetchCheck, FetchLogs, FetchRead, FetchPublish,
         AnalyzeCheck, Investigate, Replay, AnalyzeSaves, HandlerFails, Fault
    <3>3. QED
      BY <1>1, <3>1, <3>2
  <2>3. QED
    BY <2>1, <2>2
<1>4. ASSUME NEW k \in Calls, Consumer(k) PROVE Counted'
  <2>1. UNCHANGED <<group, recorded>>
    BY <1>4 DEF Consumer, GetAnswer, ClientTimeout, ClientSaves, Redeliver
  <2>2. mishaps \subseteq mishaps'
    BY <1>2, <1>4 DEF Consumer, GetAnswer, PublishToDlq, ClientTimeout, ClientSaves,
       Redeliver, Fault
  <2>3. QED
    BY <1>1, <2>1, <2>2
<1>5. QED
  BY <1>1, <1>2, <1>3, <1>4 DEF Next, vars, Skip, Refused, Forward, Post, Arrive, Crash, Fault

LEMMA InitCounted == Init => Counted
BY NewGroupCounted DEF Init, Counted

(* Whichever cases a fingerprint has had, in whatever order and however    *)
(* often they were recorded, its count is as high as their number, and     *)
(* equal to it while they fit the member list; the verdicts on record      *)
(* always add up to it.                                                    *)
THEOREM CasesCounted == Spec => []GroupCounts
<1>1. Counted => GroupCounts
  BY DEF Counted, Tracks, GroupCounts
<1>2. QED
  BY <1>1, InitTyped, StepTyped, InitCounted, StepCounted, PTL DEF Spec

----------------------------------------------------------------------------
(* What becomes of every record.                                           *)

(* A terminal status is only ever saved after a terminal casebook.         *)
Booked(id) == casebook[id].status \in Terminal
BookFirst ==
    /\ \A id \in Ids : status[id] \in Terminal => Booked(id)
    /\ \A k \in Calls : /\ client[k] = "saving_status" => Booked(call[k].id)
                        /\ call[k].at = "saving_status" => Booked(call[k].id)

(* On the analysis queue or in the DLQ, or a send of it there was lost.    *)
Sent(id) == \/ id \in Cases /\ \E q \in QueueCases : id \in carries[q]
            \/ id \in inDlq \/ id \in lostSends

(* A handler answers for a case that is settled or sent on.                *)
AnswersHold ==
    \A k \in Calls : client[k] = "waiting" /\ call[k].at = "answered" =>
       Booked(call[k].id) \/ Sent(call[k].id)

(* A client keeps its case; only its own handler, or its start, moves it.  *)
LEMMA IdStays ==
    ASSUME Typed, [Next]_vars, NEW k \in Calls, client[k] # "none", client'[k] # "none"
    PROVE  call'[k].id = call[k].id
<1> USE DEF dlqVars, kafkaVars, caseVars, historyVars, boundVars
<1>1. ASSUME NEW j \in Calls, Handler(j) PROVE call'[k].id = call[k].id
  <2>1. PICK c : Onwards(j, c)
    BY <1>1, HandlerOnwards
  <2>2. QED
    BY <2>1 DEF Onwards, Typed, TypeOK
<1>2. ASSUME NEW j \in Calls, Consumer(j) PROVE call'[k].id = call[k].id
  <2>1. CASE UNCHANGED call
    BY <2>1
  <2>2. CASE ClientGone(j)
    BY <2>2 DEF ClientGone, Typed, TypeOK
  <2>3. QED
    BY <1>2, <2>1, <2>2 DEF Consumer, GetAnswer, ClientTimeout, ClientSaves, Redeliver
<1>3. CASE \E on \in Ids, j \in Calls : Forward(on, j) \/ Post(on, j)
  BY <1>3 DEF Forward, Post, Arrive, Typed, TypeOK
<1>4. CASE Crash
  BY <1>4, EndTyped, Phases DEF Crash
<1>5. QED
  BY <1>1, <1>2, <1>3, <1>4 DEF Next, vars, Skip, Refused

LEMMA ClientSavesBooks ==
    ASSUME Typed, NEW k \in Calls, ClientSaves(k)
    PROVE  /\ client'[k] = "saving_status" => Booked(call[k].id)'
           /\ call'[k].id = call[k].id \/ client'[k] = "none"
<1>1. call[k].id \in Ids
  BY DEF ClientSaves, Typed, Serving, Serves
<1>2. TimeoutCasebook.status \in Terminal
  BY DEF TimeoutCasebook, NoCasebook, Terminal
<1>3. CASE /\ client[k] = "saving_casebook" /\ SaveCasebook(call[k].id, TimeoutCasebook)
           /\ client' = [client EXCEPT ![k] = "saving_status"]
           /\ UNCHANGED <<dlqVars, status, call, boundVars>>
  BY <1>1, <1>2, <1>3 DEF SaveCasebook, Booked, Typed, TypeOK
<1>4. CASE /\ client' = [client EXCEPT ![k] = "publishing"] /\ UNCHANGED call
  BY <1>4 DEF Typed, TypeOK
<1>5. CASE ClientGone(k)
  BY <1>5 DEF ClientGone, Typed, TypeOK
<1>6. QED
  BY <1>3, <1>4, <1>5 DEF ClientSaves

LEMMA HandlerBooks ==
    ASSUME Typed, BookFirst, NEW k \in Calls, Handler(k)
    PROVE  /\ \A id \in Ids : status'[id] \in Terminal => status[id] \in Terminal \/ Booked(id)'
           /\ call'[k].at = "saving_status" => Booked(call[k].id)'
<1> USE DEF dlqVars, kafkaVars, caseVars, historyVars, boundVars
<1>1. ASSUME NEW id \in Ids, status'[id] \in Terminal, status'[id] # status[id]
      PROVE  Booked(id)'
  <2>1. ~FetchPublish(k)
    BY <1>1 DEF FetchPublish, SaveStatus, Terminal, Typed, TypeOK
  <2>2. AnalyzeSaves(k)
    BY <1>1, <2>1, HandlerFrame
  <2>3. call[k].at = "saving_status" /\ id = call[k].id /\ casebook' = casebook
    BY <1>1, <2>2 DEF AnalyzeSaves, SaveStatus, Typed, TypeOK
  <2>4. QED
    BY <2>3 DEF BookFirst, Booked
<1>2. ASSUME call'[k].at = "saving_status"
      PROVE  Booked(call[k].id)'
  <2>1. call[k].at = "saving_casebook" /\ call'[k].id = call[k].id
    <3>1. PICK c : Onwards(k, c)
      BY HandlerOnwards
    <3>2. call'[k] = c
      BY <3>1 DEF Onwards, Typed, TypeOK
    <3>3. "saving_status" \in Running
      BY DEF Running, Analysing
    <3>4. QED
      BY <1>2, <3>1, <3>2, <3>3 DEF Onwards
  <2>2. call[k].id \in Ids
    BY <2>1 DEF Typed, Serving, Serves
  <2>3. ~HandlerFails(k)
    <3>1. Ended(k, "failed").at # "saving_status"
      BY DEF Ended, NoCall
    <3>2. QED
      BY <1>2, <3>1 DEF HandlerFails, Ends, Typed, TypeOK
  <2>4. AnalyzeSaves(k)
    BY <2>1, <2>3 DEF Handler, FetchCheck, FetchLogs, FetchRead, FetchPublish, AnalyzeCheck,
       Record, Investigate, Attach, Replay
  <2>5. PICK book : SaveCasebook(call[k].id, book) /\ book.status = CaseStatus(call[k].finding)
    BY <2>1, <2>4 DEF AnalyzeSaves
  <2>6. QED
    BY <2>1, <2>2, <2>5 DEF SaveCasebook, CaseStatus, Booked, Terminal, Typed, TypeOK
<1>3. QED
  BY <1>1, <1>2

LEMMA StepBookFirst ==
    ASSUME Typed, BookFirst, [Next]_vars
    PROVE  BookFirst'
<1> USE DEF dlqVars, kafkaVars, caseVars, historyVars, boundVars
<1>1. \A id \in Ids : Booked(id) => Booked(id)'
  BY CasebookStays DEF Booked
<1>2. ASSUME NEW id \in Ids, status'[id] \in Terminal
      PROVE  Booked(id)'
  <2>1. CASE status[id] \in Terminal
    BY <1>1, <2>1 DEF BookFirst
  <2>2. CASE status[id] \notin Terminal
    <3>1. ASSUME NEW k \in Calls, Handler(k) PROVE Booked(id)'
      BY <1>2, <2>2, <3>1, HandlerBooks
    <3>2. ASSUME NEW k \in Calls, ClientSaves(k), status' # status PROVE Booked(id)'
      <4>1. client[k] = "saving_status" /\ SaveStatus(call[k].id, "FAILED_TIMEOUT")
        BY <3>2 DEF ClientSaves
      <4>2. id = call[k].id
        BY <1>2, <2>2, <4>1 DEF SaveStatus, Typed, TypeOK
      <4>3. QED
        BY <1>1, <4>1, <4>2 DEF BookFirst
    <3>3. QED
      BY <1>2, <2>2, <3>1, <3>2 DEF Next, vars, Skip, Refused, Forward, Post, Consumer,
         GetAnswer, ClientTimeout, Redeliver, Crash
  <2>3. QED
    BY <2>1, <2>2
<1>3. ASSUME NEW k \in Calls, client'[k] = "saving_status"
      PROVE  Booked(call[k].id)'
  <2>1. CASE client[k] = "saving_status"
    <3>1. call'[k].id = call[k].id /\ call[k].id \in Ids
      BY <1>3, <2>1, IdStays DEF Typed, Serving, Serves
    <3>2. QED
      BY <1>1, <2>1, <3>1 DEF BookFirst
  <2>2. CASE client[k] # "saving_status"
    <3>1. ASSUME NEW j \in Calls, Consumer(j) PROVE ClientSaves(j) /\ j = k
      <4>1. \A i \in Calls : i # j => client'[i] = client[i]
        BY <3>1 DEF Consumer, GetAnswer, ClientTimeout, ClientSaves, Redeliver, ClientGone,
           Typed, TypeOK
      <4>2. ~(GetAnswer(j) \/ ClientTimeout(j) \/ Redeliver(j))
        BY <1>3, <2>2 DEF GetAnswer, ClientTimeout, Redeliver, ClientGone, Typed, TypeOK
      <4>3. QED
        BY <1>3, <2>2, <3>1, <4>1, <4>2 DEF Consumer
    <3>2. ClientSaves(k)
      <4>1. ~(\E j \in Calls : Handler(j)) /\ ~Crash
        BY <1>3, <2>2, HandlerFrame DEF Crash
      <4>2. ~(\E on \in Ids, j \in Calls : Forward(on, j) \/ Post(on, j))
        BY <1>3, <2>2 DEF Forward, Post, Typed, TypeOK
      <4>3. QED
        BY <1>3, <2>2, <3>1, <4>1, <4>2 DEF Next, vars, Skip, Refused
    <3>3. QED
      BY <1>3, <3>2, ClientSavesBooks DEF Booked
  <2>3. QED
    BY <2>1, <2>2
<1>4. ASSUME NEW k \in Calls, call'[k].at = "saving_status"
      PROVE  Booked(call[k].id)'
  <2>1. CASE Handler(k)
    BY <1>4, <2>1, HandlerBooks
  <2>2. CASE call'[k] = call[k]
    <3>1. call[k].id \in Ids
      BY <1>4, <2>2 DEF Typed, Serving, Serves
    <3>2. QED
      BY <1>1, <1>4, <2>2, <3>1 DEF BookFirst
  <2>3. Handler(k) \/ call'[k] = call[k]
    <3>1. \A j \in Calls : Handler(j) => Handler(k) \/ call'[k] = call[k]
      <4> SUFFICES ASSUME NEW j \in Calls, Handler(j), j # k PROVE call'[k] = call[k]
        OBVIOUS
      <4>1. PICK c : Onwards(j, c)
        BY HandlerOnwards
      <4>2. QED
        BY <4>1 DEF Onwards, Typed, TypeOK
    <3>2. \A j \in Calls : Consumer(j) => call'[k] = call[k]
      <4> SUFFICES ASSUME NEW j \in Calls, Consumer(j) PROVE call'[k] = call[k]
        OBVIOUS
      <4>1. CASE ClientGone(j)
        <5>1. NoCall(NoId).at # "saving_status"
          BY DEF NoCall
        <5>2. QED
          BY <1>4, <4>1, <5>1 DEF ClientGone, Typed, TypeOK
      <4>2. QED
        BY <4>1 DEF Consumer, GetAnswer, ClientTimeout, ClientSaves, Redeliver
    <3>3. ASSUME NEW on \in Ids, NEW j \in Calls, Forward(on, j) \/ Post(on, j)
          PROVE  call'[k] = call[k]
      <4>1. PICK at \in {"checking", "received"} : Arrive(j, on, at)
        BY <3>3 DEF Forward, Post
      <4>2. [NoCall(on) EXCEPT !.at = at].at # "saving_status"
        BY DEF NoCall
      <4>3. QED
        BY <1>4, <4>1, <4>2 DEF Arrive, Typed, TypeOK
    <3>4. CASE Crash
      <4>1. Ended(k, "failed").at # "saving_status"
        BY DEF Ended, NoCall
      <4>2. QED
        BY <1>4, <3>4, <4>1 DEF Crash
    <3>5. QED
      BY <3>1, <3>2, <3>3, <3>4 DEF Next, vars, Skip, Refused
  <2>4. QED
    BY <2>1, <2>2, <2>3
<1>5. QED
  BY <1>2, <1>3, <1>4 DEF BookFirst, Booked

LEMMA RecordsOnce ==
    ASSUME NEW k \in Calls, Record(k)
    PROVE  \E at, src, f :
              /\ call' = [call EXCEPT ![k].at = at, ![k].source = src, ![k].finding = f]
              /\ at \in {"investigating", "replaying"}
BY DEF Record, Onward

LEMMA HandlerAnswers ==
    ASSUME Typed, BookFirst, NEW k \in Calls, Handler(k), call'[k].at = "answered",
           NEW id \in Ids, call[k].id = id
    PROVE  Booked(id)' \/ Sent(id)'
<1> USE DEF dlqVars, kafkaVars, caseVars, historyVars, boundVars
<1>1. call[k] \in CallRecords
  BY DEF Typed, TypeOK
<1>2. \A at : Goes(k, at) => call'[k].at = at
  BY <1>1 DEF Goes, CallRecords, Typed, TypeOK
<1>3. ~Ends(k, "failed")
  BY DEF Ends, Ended, NoCall, Typed, TypeOK
<1>4. Settled(id) => Booked(id)
  BY DEF Settled, BookFirst, Booked
<1>5. CASE FetchCheck(k)
  <2>1. Settled(id)
    BY <1>2, <1>5 DEF FetchCheck
  <2>2. QED
    BY <1>4, <1>5, <2>1 DEF FetchCheck, Booked
<1>6. CASE FetchPublish(k)
  <2>1. id \in Cases
    BY <1>6 DEF FetchPublish, Typed, Serving, Serves, Fetching
  <2>2. CASE id \in lostSends'
    BY <2>2 DEF Sent
  <2>3. CASE \E q \in QueueCases : carries' = [carries EXCEPT ![q] = {id}]
    <3>1. PICK q \in QueueCases : carries' = [carries EXCEPT ![q] = {id}]
      BY <2>3
    <3>2. id \in carries'[q]
      BY <3>1 DEF Typed, TypeOK
    <3>3. QED
      BY <2>1, <3>2 DEF Sent
  <2>4. QED
    BY <1>3, <1>6, <2>2, <2>3 DEF FetchPublish
<1>7. CASE AnalyzeCheck(k)
  <2>1. CASE Settled(id)
    BY <1>4, <1>7, <2>1 DEF AnalyzeCheck, Booked
  <2>2. CASE ~Settled(id)
    <3>1. call'[k].at = "recording"
      BY <1>1, <1>7, <2>2 DEF AnalyzeCheck, CallRecords, Typed, TypeOK
    <3>2. QED
      BY <3>1
  <2>3. QED
    BY <2>1, <2>2
<1>8. CASE AnalyzeSaves(k)
  BY <1>2, <1>8 DEF AnalyzeSaves, BookFirst, Booked
<1>9. CASE FetchLogs(k) \/ Attach(k) \/ HandlerFails(k)
  BY <1>2, <1>3, <1>9 DEF FetchLogs, Attach, HandlerFails
<1>10. ASSUME NEW c, call' = [call EXCEPT ![k] = c], c.at # "answered"
       PROVE  FALSE
  BY <1>10 DEF Typed, TypeOK
<1>11. CASE FetchRead(k)
  <2> DEFINE c == [call[k] EXCEPT !.at = "publishing", !.read = status[call[k].id]]
  <2>1. c.at = "publishing"
    BY <1>1 DEF CallRecords
  <2>2. QED
    BY <1>10, <1>11, <2>1 DEF FetchRead
<1>12. ASSUME NEW at, NEW src, NEW f, at # "answered",
              call' = [call EXCEPT ![k].at = at, ![k].source = src, ![k].finding = f]
       PROVE  FALSE
  <2> DEFINE c == [call[k] EXCEPT !.at = at, !.source = src, !.finding = f]
  <2>1. c.at = at
    BY <1>1 DEF CallRecords
  <2>2. QED
    BY <1>10, <1>12, <2>1
<1>13. CASE Record(k)
  <2>1. PICK at, src, f :
           /\ call' = [call EXCEPT ![k].at = at, ![k].source = src, ![k].finding = f]
           /\ at \in {"investigating", "replaying"}
    BY <1>13, RecordsOnce
  <2>2. at # "answered"
    BY <2>1
  <2>3. QED
    BY <1>12, <2>1, <2>2
<1>14. CASE Investigate(k)
  <2>1. PICK at, src, f :
           /\ call' = [call EXCEPT ![k].at = at, ![k].source = src, ![k].finding = f]
           /\ at \in {"attaching", "replaying"}
    BY <1>14, InvestigatesOnce
  <2>2. at # "answered"
    BY <2>1
  <2>3. QED
    BY <1>12, <2>1, <2>2
<1>15. CASE Replay(k)
  <2>1. CASE Goes(k, "saving_casebook")
    BY <1>2, <2>1
  <2>2. CASE \E r : call' = [call EXCEPT ![k].at = "saving_casebook", ![k].replay = r]
    <3> PICK r : call' = [call EXCEPT ![k].at = "saving_casebook", ![k].replay = r]
      BY <2>2
    <3> DEFINE c == [call[k] EXCEPT !.at = "saving_casebook", !.replay = r]
    <3>1. c.at = "saving_casebook"
      BY <1>1 DEF CallRecords
    <3>2. QED
      BY <1>10, <3>1
  <2>3. QED
    BY <1>15, <2>1, <2>2 DEF Replay
<1>16. QED
  BY <1>5, <1>6, <1>7, <1>8, <1>9, <1>11, <1>13, <1>14, <1>15 DEF Handler

(* A place on the analysis queue that is taken stays taken, and one that   *)
(* is not has nothing to wait for.                                         *)
LEMMA CarriesStay ==
    ASSUME Typed, [Next]_vars, NEW q \in QueueCases
    PROVE  /\ carries[q] # {} => carries'[q] = carries[q]
           /\ carries'[q] = carries[q] \/ waiting'[q] = 1
<1> USE DEF dlqVars, kafkaVars, caseVars, historyVars, boundVars
<1>1. CASE carries' = carries
  BY <1>1
<1>2. ASSUME NEW k \in Calls, FetchPublish(k), carries' # carries
      PROVE  /\ carries[q] # {} => carries'[q] = carries[q]
             /\ carries'[q] = carries[q] \/ waiting'[q] = 1
  <2>1. PICK r \in QueueCases : /\ carries[r] = {}
                                /\ carries' = [carries EXCEPT ![r] = {call[k].id}]
                                /\ waiting' = [waiting EXCEPT ![r] = 1]
    BY <1>2 DEF FetchPublish
  <2>2. QED
    BY <2>1 DEF Typed, TypeOK, Ids
<1>3. QED
  BY <1>1, <1>2, StepFrame

LEMMA StaysKept ==
    ASSUME Typed, [Next]_vars, NEW id \in Ids
    PROVE  /\ Booked(id) => Booked(id)'
           /\ Sent(id) => Sent(id)'
<1>1. Booked(id) => Booked(id)'
  BY CasebookStays DEF Booked
<1>2. inDlq \subseteq inDlq' /\ lostSends \subseteq lostSends'
  BY StepFrame
<1>3. Sent(id) => Sent(id)'
  BY <1>2, CarriesStay DEF Sent
<1>4. QED
  BY <1>1, <1>3

LEMMA StepAnswersHold ==
    ASSUME Typed, BookFirst, AnswersHold, [Next]_vars
    PROVE  AnswersHold'
<1> USE DEF dlqVars, kafkaVars, caseVars, historyVars, boundVars
<1> SUFFICES ASSUME NEW k \in Calls, client'[k] = "waiting", call'[k].at = "answered"
             PROVE  Booked(call[k].id)' \/ Sent(call[k].id)'
  BY DEF AnswersHold, Booked, Sent
<1>1. CASE call'[k] = call[k] /\ client'[k] = client[k]
  <2>1. call[k].id \in Ids
    BY <1>1 DEF Typed, Serving, Serves
  <2>2. Booked(call[k].id) \/ Sent(call[k].id)
    BY <1>1 DEF AnswersHold
  <2>3. PICK id \in Ids : call[k].id = id
    BY <2>1
  <2>4. Booked(id)' \/ Sent(id)'
    BY <2>2, <2>3, StaysKept
  <2>5. QED
    BY <1>1, <2>3, <2>4 DEF Booked, Sent
<1>2. CASE Handler(k)
  <2>1. client[k] = "waiting"
    BY <1>2, HandlerFrame
  <2>2. call'[k].id = call[k].id /\ call[k].id \in Ids
    BY <2>1, IdStays DEF Typed, Serving, Serves
  <2>3. PICK id \in Ids : call[k].id = id
    BY <2>2
  <2>4. Booked(id)' \/ Sent(id)'
    BY <1>2, <2>3, HandlerAnswers
  <2>5. QED
    BY <2>2, <2>3, <2>4 DEF Booked, Sent
<1>3. Handler(k) \/ (call'[k] = call[k] /\ client'[k] = client[k])
  <2>1. \A j \in Calls :
           Handler(j) => Handler(k) \/ (call'[k] = call[k] /\ client'[k] = client[k])
    <3> SUFFICES ASSUME NEW j \in Calls, Handler(j), j # k
                 PROVE  call'[k] = call[k] /\ client' = client
      OBVIOUS
    <3>1. PICK c : Onwards(j, c)
      BY HandlerOnwards
    <3>2. client' = client
      BY HandlerFrame
    <3>3. QED
      BY <3>1, <3>2 DEF Onwards, Typed, TypeOK
  <2>2. ASSUME NEW j \in Calls, Consumer(j)
        PROVE  call'[k] = call[k] /\ client'[k] = client[k]
    <3>1. CASE ClientGone(j)
      <4>1. client' = [client EXCEPT ![j] = "none"]
        BY <3>1 DEF ClientGone
      <4>2. j # k
        BY <4>1 DEF Typed, TypeOK
      <4>3. QED
        BY <3>1, <4>1, <4>2 DEF ClientGone, Typed, TypeOK
    <3>2. CASE call' = call /\ client' = client
      BY <3>2
    <3>3. CASE /\ call' = call
               /\ \E to \in {"saving_casebook", "saving_status", "publishing"} :
                     client' = [client EXCEPT ![j] = to]
      BY <3>3 DEF Typed, TypeOK
    <3>4. QED
      BY <2>2, <3>1, <3>2, <3>3 DEF Consumer, GetAnswer, ClientTimeout, ClientSaves, Redeliver
  <2>3. ASSUME NEW on \in Ids, NEW j \in Calls, Forward(on, j) \/ Post(on, j)
        PROVE  call'[k] = call[k] /\ client'[k] = client[k]
    <3>1. PICK at \in {"checking", "received"} : Arrive(j, on, at)
      BY <2>3 DEF Forward, Post
    <3>2. [NoCall(on) EXCEPT !.at = at].at # "answered"
      BY DEF NoCall
    <3>3. j # k
      BY <3>1, <3>2 DEF Arrive, Typed, TypeOK
    <3>4. QED
      BY <2>3, <3>1, <3>3 DEF Forward, Post, Arrive, Typed, TypeOK
  <2>4. CASE Crash
    <3>1. Ended(k, "failed").at # "answered"
      BY DEF Ended, NoCall
    <3>2. QED
      BY <2>4, <3>1 DEF Crash
  <2>5. QED
    BY <2>1, <2>2, <2>3, <2>4 DEF Next, vars, Skip, Refused
<1>4. QED
  BY <1>1, <1>2, <1>3

(* A record that waits is only ever taken to be forwarded, skipped for its *)
(* casebook, or published to the DLQ.                                      *)
LEMMA WaitingKept ==
    ASSUME Typed, [Next]_vars, NEW id \in Ids, waiting[id] > 0
    PROVE  waiting'[id] > 0 \/ Held(id)' \/ Booked(id)' \/ Sent(id)'
<1> USE DEF dlqVars, kafkaVars, caseVars, historyVars, boundVars
<1>1. waiting[id] \in Nat
  BY DEF Typed, TypeOK
<1>2. CASE waiting'[id] = waiting[id]
  BY <1>2
<1>3. ASSUME NEW on \in Ids, Skip(on) \/ Refused(on)
      PROVE  waiting'[id] > 0 \/ Booked(id)' \/ Sent(id)'
  BY <1>1, <1>3 DEF Skip, Refused, Delivers, Loses, Take, Booked, Sent, Typed, TypeOK
<1>4. ASSUME NEW on \in Ids, NEW k \in Calls, Forward(on, k)
      PROVE  waiting'[id] > 0 \/ Held(id)'
  <2>1. CASE on # id
    BY <1>2, <1>4, <2>1 DEF Forward, Take, Typed, TypeOK
  <2>2. CASE on = id
    <3>1. PICK at \in {"checking", "received"} : Arrive(k, id, at)
      BY <1>4, <2>2 DEF Forward
    <3>2. [NoCall(id) EXCEPT !.at = at].id = id
      BY DEF NoCall
    <3>3. call'[k].id = id /\ client'[k] = "waiting"
      BY <1>4, <3>1, <3>2 DEF Arrive, Forward, Typed, TypeOK
    <3>4. QED
      BY <3>3 DEF Held
  <2>3. QED
    BY <2>1, <2>2
<1>5. ASSUME NEW k \in Calls, Redeliver(k) \/ FetchPublish(k)
      PROVE  waiting'[id] > 0
  <2>1. CASE Redeliver(k)
    BY <1>1, <2>1 DEF Redeliver, Typed, TypeOK
  <2>2. CASE FetchPublish(k)
    <3>1. CASE waiting' = waiting
      BY <3>1
    <3>2. CASE \E q \in QueueCases : waiting' = [waiting EXCEPT ![q] = 1]
      <4>1. waiting'[id] = waiting[id] \/ waiting'[id] = 1
        BY <3>2 DEF Typed, TypeOK
      <4>2. QED
        BY <4>1
    <3>3. QED
      BY <2>2, <3>1, <3>2 DEF FetchPublish
  <2>3. QED
    BY <1>5, <2>1, <2>2
<1>6. QED
  BY <1>2, <1>3, <1>4, <1>5, HandlerFrame, ConsumerFrame DEF Next, vars, Post, Crash

(* A client lets go of a case that is answered for, sent on or waiting.    *)
LEMMA HeldKept ==
    ASSUME Typed, BookFirst, AnswersHold, [Next]_vars, NEW id \in Ids, Held(id)
    PROVE  Held(id)' \/ waiting'[id] > 0 \/ Booked(id)' \/ Sent(id)'
<1> USE DEF dlqVars, kafkaVars, caseVars, historyVars, boundVars
<1>1. PICK k \in Calls : call[k].id = id /\ client[k] # "none"
  BY DEF Held
<1>2. CASE client'[k] # "none"
  BY <1>1, <1>2, IdStays DEF Held
<1>3. CASE client'[k] = "none"
  <2>1. CASE GetAnswer(k)
    <3>1. CASE call[k].at = "failed"
      BY <1>1, <2>1, <3>1 DEF GetAnswer, PublishToDlq, Delivers, Loses, Sent
    <3>2. CASE call[k].at = "answered"
      <4>1. Booked(id) \/ Sent(id)
        BY <1>1, <2>1, <3>2 DEF GetAnswer, AnswersHold
      <4>2. QED
        BY <4>1, StaysKept
    <3>3. QED
      BY <2>1, <3>1, <3>2 DEF GetAnswer, Finished
  <2>2. CASE ClientSaves(k)
    <3>1. client[k] = "publishing"
      <4>1. \A to \in {"saving_status", "publishing"} : client' # [client EXCEPT ![k] = to]
        BY <1>3 DEF Typed, TypeOK
      <4>2. QED
        BY <2>2, <4>1 DEF ClientSaves
    <3>2. QED
      BY <1>1, <2>2, <3>1 DEF ClientSaves, PublishToDlq, Delivers, Loses, Sent
  <2>3. CASE Redeliver(k)
    <3>1. waiting'[id] = waiting[id] + 1 /\ waiting[id] \in Nat
      BY <1>1, <2>3 DEF Redeliver, Typed, TypeOK
    <3>2. QED
      BY <3>1
  <2>4. GetAnswer(k) \/ ClientSaves(k) \/ Redeliver(k)
    <3>1. ASSUME NEW j \in Calls, Consumer(j), j # k PROVE FALSE
      BY <1>1, <1>3, <3>1 DEF Consumer, GetAnswer, ClientTimeout, ClientSaves, Redeliver,
         ClientGone, Typed, TypeOK
    <3>2. ~ClientTimeout(k)
      BY <1>3 DEF ClientTimeout, Typed, TypeOK
    <3>3. client' # client
      BY <1>1, <1>3
    <3>4. ASSUME NEW on \in Ids, NEW j \in Calls, Forward(on, j) PROVE FALSE
      BY <1>1, <1>3, <3>4 DEF Forward, Typed, TypeOK
    <3>5. ASSUME NEW j \in Calls, Handler(j) PROVE FALSE
      BY <3>3, <3>5, HandlerFrame
    <3>6. QED
      BY <3>1, <3>2, <3>3, <3>4, <3>5 DEF Next, vars, Skip, Refused, Post, Crash, Consumer
  <2>5. QED
    BY <2>1, <2>2, <2>3, <2>4
<1>4. QED
  BY <1>2, <1>3

LEMMA StepNothingForgotten ==
    ASSUME Typed, BookFirst, BookFirst', AnswersHold, NothingForgotten, [Next]_vars
    PROVE  NothingForgotten'
<1> SUFFICES ASSUME NEW id \in Ids
             PROVE  \/ Settled(id)' \/ waiting'[id] > 0 \/ Held(id)' \/ Sent(id)'
                    \/ (id \in QueueCases /\ carries'[id] = {})
  BY DEF NothingForgotten, Accounted, Sent
<1>1. \/ Settled(id) \/ waiting[id] > 0 \/ Held(id) \/ Sent(id)
      \/ (id \in QueueCases /\ carries[id] = {})
  BY DEF NothingForgotten, Accounted, Sent
<1>2. Settled(id) => Booked(id)
  BY DEF Settled, BookFirst, Booked
<1>3. Booked(id)' => Settled(id)'
  BY DEF Settled, Booked
<1>4. CASE id \in QueueCases /\ carries[id] = {}
  BY <1>4, CarriesStay
<1>5. QED
  BY <1>1, <1>2, <1>3, <1>4, StaysKept, WaitingKept, HeldKept

LEMMA InitKept == Init => BookFirst /\ AnswersHold /\ NothingForgotten
BY DEF Init, BookFirst, AnswersHold, NothingForgotten, Accounted, NoCall, Terminal, Ids

(* Whatever is delivered again, fails, times out or crashes, every record  *)
(* is where someone will find it, unless one of the sends whose outcome    *)
(* nobody looks at was lost.                                               *)
THEOREM NoneForgotten == Spec => []NothingForgotten
<1>1. Typed /\ BookFirst /\ AnswersHold /\ NothingForgotten /\ [Next]_vars
         => (BookFirst /\ AnswersHold)'
  BY StepBookFirst, StepAnswersHold
<1>2. Typed /\ BookFirst /\ BookFirst' /\ AnswersHold /\ NothingForgotten /\ [Next]_vars
         => NothingForgotten'
  BY StepNothingForgotten
<1>3. QED
  BY <1>1, <1>2, InitTyped, StepTyped, InitKept, PTL DEF Spec
=============================================================================
