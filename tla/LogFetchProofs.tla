--------------------------- MODULE LogFetchProofs ---------------------------
(***************************************************************************)
(* Theorems about LogFetch, for any fetchers, keys, chains of sources,     *)
(* clusters, pods and bounds.                                              *)
(***************************************************************************)
EXTENDS LogFetch, FiniteSetTheorems, SequenceTheorems, TLAPS

(* The inductive invariant.  A breaker that is not as new has been raised  *)
(* through.                                                                *)
BreakersCount ==
    \A f \in Fetchers : breaker[f].elastic # NewBreaker => f \in elasticRaised

(* Every loss that an answer does not leave silent has its gap.            *)
Announced(losses, gaps) == \A l \in losses \ Silent : Announcement(l) \cap gaps # {}

(* What discovery leaves out, it says.                                     *)
FoundSays == \A f \in Fetchers : Announced(found[f].losses, found[f].gaps)

(* So does a source that could look, and what is to be saved was.          *)
FetchSays(step, r) ==
    /\ r.ok /\ step \in {"saving", "savingMeta", "returned"} => Announced(r.lost, r.gaps)
    /\ step \in {"saving", "savingMeta"} => r.ok
    /\ r.raised => ~r.ok
ResultSays == \A f \in Fetchers : FetchSays(pc[f], result[f])

(* A snapshot that is whole has the gaps of its own capture; one whose     *)
(* metadata is being written is of the fetch that wrote its records.       *)
SnapshotSays ==
    /\ \A k \in Keys : capture[k].whole => Announced(capture[k].lost, meta[k])
    /\ \A f \in Fetchers :
          pc[f] = "savingMeta" /\ capture[key[f]].by = f => capture[key[f]].lost = result[f].lost

IInv == TypeOK /\ BreakersCount /\ FoundSays /\ ResultSays /\ SnapshotSays
-----------------------------------------------------------------------------
(* Discovery.                                                              *)
LEMMA Announcements ==
    /\ Announcement("service") = {"SERVICE_UNAVAILABLE"}
    /\ Announcement("pods") = {"TRUNCATED"} /\ Announcement("bytes") = {"TRUNCATED"}
    /\ Announcement("deadline") = {"TRUNCATED"} /\ Announcement("vanished") = {"POD_VANISHED"}
    /\ Announcement("source") = {"SOURCE_FALLBACK"}
    /\ Announcement("unlooked") = {"SOURCE_FALLBACK"}
BY DEF Announcement

(* The place of a pod among those of its service is at most their number.  *)
LEMMA PlaceBounded ==
    ASSUME NEW pods \in SUBSET Pods, NEW p
    PROVE  /\ Place(pods, p) \in Nat /\ Cardinality(pods) \in Nat
           /\ Place(pods, p) <= Cardinality(pods)
<1> DEFINE ahead == {q \in pods : AtOrBefore(ByRecency, q, p)}
<1>1. IsFiniteSet(pods)
  BY DiscoveryAssumption, FS_Subset
<1>2. IsFiniteSet(ahead) /\ Cardinality(ahead) <= Cardinality(pods)
  BY <1>1, FS_Subset
<1>3. QED
  BY <1>1, <1>2, FS_CardinalityType DEF Place

LEMMA DiscoveryTyped ==
    ASSUME NEW d \in Discoveries PROVE d \in DiscoveryResult
<1>1. PICK c \in Clusters : d = DiscoverTargets(c)
  BY DEF Discoveries
<1>2. DiscoveryGaps(c) \in SUBSET GapTypes /\ DiscoveryLosses(c) \in SUBSET Losses
  BY DEF DiscoveryGaps, DiscoveryLosses, When, GapTypes, Losses
<1>3. TargetsOf(MergeRoundRobin(c)) \in SUBSET Target
  BY DEF TargetsOf
<1>4. QED
  BY <1>1, <1>2, <1>3 DEF DiscoverTargets, DiscoveryResult

(* Services that are not searched and pods over either cap are announced.  *)
LEMMA DiscoverySays ==
    ASSUME NEW d \in Discoveries PROVE Announced(d.losses, d.gaps)
<1>1. PICK c \in Clusters : d = DiscoverTargets(c)
  BY DEF Discoveries
<1>2. d.losses = DiscoveryLosses(c) /\ d.gaps = DiscoveryGaps(c)
  BY <1>1 DEF DiscoverTargets
<1>3. Searched(c) # Services => "SERVICE_UNAVAILABLE" \in DiscoveryGaps(c)
  BY DEF DiscoveryGaps, When
<1>4. ASSUME LeftOut(c) # {} PROVE "TRUNCATED" \in DiscoveryGaps(c)
  <2>1. PICK s \in Searched(c) : \E q \in Eligible(c, s) : q \notin MergeRoundRobin(c)
    BY <1>4 DEF LeftOut
  <2> PICK p \in Eligible(c, s) : p \notin MergeRoundRobin(c)
    BY <2>1
  <2>2. CASE p \in Taken(c, s)
    <3>1. p \in Listed(c)
      BY <2>2 DEF Listed
    <3>2. QED
      BY <2>1, <3>1 DEF DiscoveryGaps, When
  <2>3. CASE p \notin Taken(c, s)
    <3>1. Eligible(c, s) \in SUBSET Pods
      BY FetchAssumption DEF Eligible, AllClusters
    <3>2. Cardinality(Eligible(c, s)) > MaxPods
      BY <2>1, <2>3, <3>1, PlaceBounded, DiscoveryAssumption DEF Taken, Capped
    <3>3. s \in Overfull(c)
      BY <3>2 DEF Overfull
    <3>4. QED
      BY <3>3 DEF DiscoveryGaps, When
  <2>4. QED
    BY <2>2, <2>3
<1>5. QED
  BY <1>2, <1>3, <1>4, Announcements DEF Announced, DiscoveryLosses, When

-----------------------------------------------------------------------------
(* Outcomes of the fan-out.                                                *)
LEMMA OutcomeTyped ==
    ASSUME TypeOK, NEW f \in Fetchers
    PROVE  /\ Lines(f) \in SUBSET Origins
           /\ FetchGaps(f) \in SUBSET GapTypes /\ FetchLosses(f) \in SUBSET Losses
<1>1. Targets(f) \in SUBSET Target /\ found[f].gaps \in SUBSET GapTypes
      /\ found[f].losses \in SUBSET Losses
  BY DEF TypeOK, Targets, DiscoveryResult
<1>2. Lines(f) \in SUBSET Origins
  BY <1>1 DEF Lines, Collected, Origins
<1>3. FetchGaps(f) \in SUBSET GapTypes
  <2> DEFINE readGaps == UNION {ReadGaps(read[f][t]) : t \in Collected(f)}
  <2>1. \A t : ReadGaps(read[f][t]) \in SUBSET GapTypes
    BY DEF ReadGaps, When, GapTypes
  <2>2. readGaps \in SUBSET GapTypes
    BY <2>1
  <2>3. \A x : /\ When(x, "LOG_ROTATION") \in SUBSET GapTypes
               /\ When(x, "POD_REPLACED") \in SUBSET GapTypes
               /\ When(x, "TRUNCATED") \in SUBSET GapTypes
    BY DEF When, GapTypes
  <2> HIDE DEF readGaps
  <2>4. FetchGaps(f) =
           found[f].gaps \cup readGaps \cup When(IsRotated(f), "LOG_ROTATION")
           \cup When(\E t \in Targets(f) : ~IsOld(t), "POD_REPLACED")
           \cup When(~(Targets(f) \subseteq Collected(f)), "TRUNCATED")
    BY DEF FetchGaps, readGaps
  <2>5. QED
    BY <1>1, <2>2, <2>3, <2>4
<1>4. FetchLosses(f) \in SUBSET Losses
  BY <1>1 DEF FetchLosses, When, Losses
<1>5. QED
  BY <1>2, <1>3, <1>4

LEMMA FetchGapsHold ==
    ASSUME NEW f \in Fetchers
    PROVE  /\ found[f].gaps \subseteq FetchGaps(f)
           /\ \A t \in Collected(f) : ReadGaps(read[f][t]) \subseteq FetchGaps(f)
           /\ ~(Targets(f) \subseteq Collected(f)) => "TRUNCATED" \in FetchGaps(f)
<1> DEFINE readGaps == UNION {ReadGaps(read[f][t]) : t \in Collected(f)}
<1>1. \A t \in Collected(f) : ReadGaps(read[f][t]) \subseteq readGaps
  OBVIOUS
<1>2. ~(Targets(f) \subseteq Collected(f)) =>
         "TRUNCATED" \in When(~(Targets(f) \subseteq Collected(f)), "TRUNCATED")
  BY DEF When
<1> HIDE DEF readGaps
<1>3. FetchGaps(f) =
         found[f].gaps \cup readGaps \cup When(IsRotated(f), "LOG_ROTATION")
         \cup When(\E t \in Targets(f) : ~IsOld(t), "POD_REPLACED")
         \cup When(~(Targets(f) \subseteq Collected(f)), "TRUNCATED")
  BY DEF FetchGaps, readGaps
<1>4. QED
  BY <1>1, <1>2, <1>3

(* A fan-out that could look announces what it lacks.                      *)
LEMMA OutcomeSays ==
    ASSUME TypeOK, FoundSays, NEW f \in Fetchers
    PROVE  /\ Outcome(f).ok => Announced(Outcome(f).lost, Outcome(f).gaps)
           /\ Lines(f) # {} => Outcome(f).ok
           /\ ~Outcome(f).raised /\ Outcome(f).source = "kubernetes"
           /\ Outcome(f).lines \subseteq Lines(f)
           /\ Outcome(f).gaps = FetchGaps(f) /\ Outcome(f).lost = FetchLosses(f)
<1>1. /\ Lines(f) # {} => Outcome(f).ok
      /\ ~Outcome(f).raised /\ Outcome(f).source = "kubernetes"
      /\ Outcome(f).lines \subseteq Lines(f)
      /\ Outcome(f).gaps = FetchGaps(f) /\ Outcome(f).lost = FetchLosses(f)
      /\ Outcome(f).ok => ~(AllFailed(f) /\ Lines(f) = {})
  BY DEF Outcome, Failure, FetchResult
<1>2. ASSUME Outcome(f).ok, NEW l \in FetchLosses(f) \ Silent
      PROVE  Announcement(l) \cap FetchGaps(f) # {}
  <2> USE Announcements
  <2>1. CASE l \in found[f].losses
    BY <1>2, <2>1, FetchGapsHold DEF FoundSays, Announced
  <2>2. CASE l = "bytes" /\ \E t \in Collected(f) : read[f][t].truncated
    <3>1. PICK t \in Collected(f) : read[f][t].truncated
      BY <2>2
    <3>2. "TRUNCATED" \in ReadGaps(read[f][t])
      BY <3>1 DEF ReadGaps, When
    <3>3. QED
      BY <2>2, <3>1, <3>2, FetchGapsHold
  <2>3. CASE l = "deadline" /\ ~(Targets(f) \subseteq Collected(f))
    BY <2>3, FetchGapsHold
  <2>4. CASE l = "vanished" /\ \E t \in Failed(f) : read[f][t].vanished
    <3>1. PICK t \in Failed(f) : read[f][t].vanished
      BY <2>4
    <3>2. "POD_VANISHED" \in ReadGaps(read[f][t]) /\ t \in Collected(f)
      BY <3>1 DEF ReadGaps, When, Failed
    <3>3. QED
      BY <2>4, <3>2, FetchGapsHold
  <2>5. l = "everything" => l \in found[f].losses
    BY <1>1, <1>2 DEF FetchLosses, When
  <2>6. QED
    BY <1>2, <2>1, <2>2, <2>3, <2>4, <2>5 DEF FetchLosses, When, Silent
<1>3. QED
  BY <1>1, <1>2 DEF Announced

-----------------------------------------------------------------------------
(* Types.                                                                  *)
LEMMA BreakersTyped ==
    /\ NewBreaker \in Breakers
    /\ \A b \in Breakers : /\ AfterReturn(b) \in Breakers /\ AfterRaise(b) \in Breakers
                           /\ Refuses(b) => AfterTimeout(b) \in Breakers
<1>1. NewBreaker \in Breakers
  BY ResilienceAssumption DEF NewBreaker, Breakers, BreakerStates
<1>2. ASSUME NEW b \in Breakers PROVE AfterRaise(b) \in Breakers
  <2>1. b.state \in BreakerStates /\ b.fails \in 0..FailMax
    BY DEF Breakers
  <2>2. ASSUME ~(b.fails + 1 >= FailMax) PROVE [b EXCEPT !.fails = b.fails + 1] \in Breakers
    BY <2>1, <2>2, ResilienceAssumption DEF Breakers
  <2>3. [state |-> "open", fails |-> FailMax] \in Breakers
    BY ResilienceAssumption DEF Breakers, BreakerStates
  <2>4. QED
    BY <2>2, <2>3 DEF AfterRaise
<1>3. ASSUME NEW b \in Breakers PROVE AfterTimeout(b) \in Breakers
  BY DEF AfterTimeout, Breakers, BreakerStates
<1>4. QED
  BY <1>1, <1>2, <1>3 DEF AfterReturn

LEMMA ResultsTyped ==
    /\ NoResult \in Results
    /\ \A src \in Sources : Raised(src) \in Results /\ NotLooked(src) \in Results
    /\ \A src \in Sources, gaps \in SUBSET GapTypes, lost \in SUBSET Losses :
           Failure(src, gaps, lost) \in Results
    /\ \A src \in Sources, lines \in SUBSET Origins, gaps \in SUBSET GapTypes,
          lost \in SUBSET Losses :
           FetchResult(src, TRUE, lines, gaps, lost) \in Results
BY DEF NoResult, Raised, NotLooked, Failure, FetchResult, Results, Sources, Losses

LEMMA ReadsTyped ==
    /\ NewRead \in Reads /\ NoReads \in Readings
    /\ [NewRead EXCEPT !.step = "raised"] \in Reads
    /\ \A t \in Target, first, noticed \in BOOLEAN : \A reply :
           ReadPodLogs(t, first, noticed, reply) \in Reads
<1>1. ASSUME NEW t \in Target, NEW first \in BOOLEAN, NEW noticed \in BOOLEAN, NEW reply
      PROVE  ReadPodLogs(t, first, noticed, reply) \in Reads
  <2> DEFINE ok        == reply = Success
             seen      == ok \/ (t \in Restarted /\ first)
             truncated == ok /\ noticed /\ t \in Oversized
             lines     == seen /\ t \in Mentions
             cut       == seen /\ t \in Oversized /\ ~truncated
             vanished  == reply = 404
  <2>1. /\ ok \in BOOLEAN /\ seen \in BOOLEAN /\ truncated \in BOOLEAN
        /\ lines \in BOOLEAN /\ cut \in BOOLEAN /\ vanished \in BOOLEAN
    OBVIOUS
  <2>2. ReadPodLogs(t, first, noticed, reply) =
           [step |-> "done", ok |-> ok, seen |-> seen, lines |-> lines,
            truncated |-> truncated, cut |-> cut, vanished |-> vanished]
    BY Zenon DEF ReadPodLogs
  <2> HIDE DEF ok, seen, truncated, lines, cut, vanished
  <2>3. QED
    BY <2>1, <2>2 DEF Reads, Steps
<1>2. QED
  BY <1>1 DEF NewRead, NoReads, Readings, Reads, Steps

LEMMA NothingTyped == NothingFound \in DiscoveryResult /\ NewBreakers \in [Sources -> Breakers]
BY BreakersTyped DEF NothingFound, DiscoveryResult, NewBreakers

LEMMA TailTyped ==
    ASSUME NEW S, NEW s \in Seq(S), s # <<>>, Len(s) # 1
    PROVE  Head(s) \in S /\ Tail(s) \in Seq(S) /\ Tail(s) # <<>>
<1>1. Head(s) \in S /\ Tail(s) \in Seq(S) /\ Len(Tail(s)) = Len(s) - 1
  BY HeadTailProperties
<1>2. Len(s) \in Nat /\ Len(s) # 0
  BY EmptySeq, LenProperties
<1>3. Len(Tail(s)) # 0
  BY <1>1, <1>2
<1>4. QED
  BY <1>1, <1>3, EmptySeq

(* What the chain makes of the last result.                                 *)
Reported(f) ==
    [result[f] EXCEPT
        !.gaps = result[f].gaps \cup
            When(~result[f].raised /\ (abandoned[f] # {} \/ ~result[f].ok), "SOURCE_FALLBACK"),
        !.lost = result[f].lost \cup When(abandoned[f] # {}, "source")
                                \cup When(\E a \in abandoned[f] : ~a.looked, "unlooked")]

LEMMA AnswerReports ==
    ASSUME TypeOK, NEW f \in Fetchers, Answer(f)
    PROVE  result' = [result EXCEPT ![f] = Reported(f)]
BY DEF TypeOK, Answer, Reported, Results

LEMMA ReportedTyped ==
    ASSUME TypeOK, NEW f \in Fetchers PROVE Reported(f) \in Results
<1>1. \A x : /\ When(x, "SOURCE_FALLBACK") \in SUBSET GapTypes
             /\ When(x, "source") \in SUBSET Losses /\ When(x, "unlooked") \in SUBSET Losses
  BY DEF When, GapTypes, Losses
<1>2. result[f] \in Results
  BY DEF TypeOK
<1>3. QED
  BY <1>1, <1>2 DEF Reported, Results

ControlTyped ==
    /\ pc \in [Fetchers -> {"idle", "source", "reading", "saving", "savingMeta", "returned",
                            "answered"}]
    /\ key \in [Fetchers -> Keys \cup {NoKey}]
    /\ chain \in [Fetchers -> Seq(Sources)]
    /\ \A f \in Fetchers : /\ key[f] = NoKey <=> pc[f] = "idle"
                           /\ chain[f] = <<>> <=> pc[f] = "idle"
    /\ abandoned \in [Fetchers -> SUBSET Attempts]
FanoutTyped  == found \in [Fetchers -> DiscoveryResult] /\ read \in [Fetchers -> Readings]
ResultTyped  == result \in [Fetchers -> Results]
BreakerTyped == breaker \in [Fetchers -> [Sources -> Breakers]]
StorageTyped ==
    /\ records \in [Keys -> SUBSET Origins]
    /\ meta \in [Keys -> SUBSET GapTypes]
    /\ capture \in [Keys -> [lost : SUBSET Losses, by : Fetchers \cup {NoFetcher},
                            whole : BOOLEAN]]
BoundsTyped ==
    /\ elasticRaised \subseteq Fetchers
    /\ fetches \in 0..MaxFetches /\ faults \in 0..MaxFaults

LEMMA TypesSplit ==
    /\ TypeOK <=> /\ ControlTyped /\ FanoutTyped /\ ResultTyped
                  /\ BreakerTyped /\ StorageTyped /\ BoundsTyped
    /\ TypeOK' <=> /\ ControlTyped' /\ FanoutTyped' /\ ResultTyped'
                   /\ BreakerTyped' /\ StorageTyped' /\ BoundsTyped'
BY DEF TypeOK, ControlTyped, FanoutTyped, ResultTyped, BreakerTyped, StorageTyped, BoundsTyped

(* What stays, stays typed.                                                *)
LEMMA TypesStay ==
    ASSUME TypeOK
    PROVE  /\ UNCHANGED <<pc, fetchVars>> => ControlTyped'
           /\ UNCHANGED fanoutVars => FanoutTyped'
           /\ UNCHANGED result => ResultTyped'
           /\ UNCHANGED breaker => BreakerTyped'
           /\ UNCHANGED storageVars => StorageTyped'
           /\ UNCHANGED <<elasticRaised, boundVars>> => BoundsTyped'
           /\ UNCHANGED elasticRaised /\ Fault => BoundsTyped'
<1> USE TypesSplit DEF fetchVars, fanoutVars, storageVars, boundVars
<1>1. UNCHANGED <<pc, fetchVars>> => ControlTyped'
  BY DEF ControlTyped
<1>2. UNCHANGED fanoutVars => FanoutTyped'
  BY DEF FanoutTyped
<1>3. UNCHANGED result => ResultTyped'
  BY DEF ResultTyped
<1>4. UNCHANGED breaker => BreakerTyped'
  BY DEF BreakerTyped
<1>5. UNCHANGED storageVars => StorageTyped'
  BY DEF StorageTyped
<1>6. UNCHANGED <<elasticRaised, boundVars>> => BoundsTyped'
  BY DEF BoundsTyped
<1>7. UNCHANGED elasticRaised /\ Fault => BoundsTyped'
  BY FetchAssumption DEF BoundsTyped, Fault
<1>8. QED
  BY <1>1, <1>2, <1>3, <1>4, <1>5, <1>6, <1>7

LEMMA GotoTyped ==
    ASSUME TypeOK, NEW f \in Fetchers, pc[f] # "idle", UNCHANGED fetchVars,
           NEW step \in {"source", "reading", "saving", "savingMeta", "returned", "answered"},
           Goto(f, step)
    PROVE  ControlTyped'
BY TypesSplit DEF ControlTyped, Goto, fetchVars

LEMMA ResultSet ==
    ASSUME TypeOK, NEW f \in Fetchers, NEW r \in Results, result' = [result EXCEPT ![f] = r]
    PROVE  ResultTyped'
BY TypesSplit DEF ResultTyped

LEMMA BreakerSet ==
    ASSUME TypeOK, NEW f \in Fetchers, NEW source \in Sources, NEW b \in Breakers,
           breaker' = [breaker EXCEPT ![f][source] = b]
    PROVE  BreakerTyped'
<1>1. breaker \in [Fetchers -> [Sources -> Breakers]] /\ breaker[f] \in [Sources -> Breakers]
  BY TypesSplit DEF BreakerTyped
<1>2. [breaker[f] EXCEPT ![source] = b] \in [Sources -> Breakers]
  BY <1>1
<1>3. QED
  BY <1>1, <1>2 DEF BreakerTyped

LEMMA BreakerCounted ==
    ASSUME TypeOK, NEW f \in Fetchers, NEW source \in Sources,
           Pass(f, source) \/ Count(f, source)
    PROVE  BreakerTyped'
<1>1. breaker[f][source] \in Breakers
  BY DEF TypeOK
<1>2. QED
  BY <1>1, BreakersTyped, BreakerSet DEF Pass, Count

LEMMA ReadSet ==
    ASSUME TypeOK, NEW f \in Fetchers, NEW t \in Target, NEW r \in Reads,
           read' = [read EXCEPT ![f][t] = r], UNCHANGED found
    PROVE  FanoutTyped'
<1>1. read[f] \in [Target -> Reads]
  BY DEF TypeOK, Readings
<1>2. [read[f] EXCEPT ![t] = r] \in Readings
  BY <1>1 DEF Readings
<1>3. QED
  BY <1>2, TypesSplit DEF FanoutTyped

LEMMA ForgetTyped ==
    ASSUME TypeOK, NEW f \in Fetchers, Forget(f)
    PROVE  ControlTyped' /\ FanoutTyped' /\ ResultTyped' /\ StorageTyped'
<1>1. ControlTyped'
  BY TypesSplit DEF ControlTyped, Forget, Goto
<1>2. FanoutTyped' /\ ResultTyped'
  BY TypesSplit, NothingTyped, ReadsTyped, ResultsTyped DEF FanoutTyped, ResultTyped, Forget
<1>3. StorageTyped'
  BY TypesStay DEF Forget, storageVars
<1>4. QED
  BY <1>1, <1>2, <1>3

LEMMA TypesKept == ASSUME TypeOK, [Next]_vars PROVE TypeOK'
<1> USE TypesSplit, TypesStay
<1>1. ASSUME NEW f \in Fetchers, NEW k \in Keys, StartFetch(f, k) PROVE TypeOK'
  <2>1. ControlTyped'
    BY <1>1, FetchAssumption DEF StartFetch, ControlTyped, Goto
  <2>2. BoundsTyped'
    BY <1>1, FetchAssumption DEF StartFetch, BoundsTyped
  <2>3. QED
    BY <2>1, <2>2, <1>1 DEF StartFetch
<1>2. ASSUME NEW f \in Fetchers, FailFast(f) PROVE TypeOK'
  <2> DEFINE r == NotLooked("kubernetes")
  <2>1. r \in Results
    BY ResultsTyped DEF Sources
  <2>2. ControlTyped' /\ ResultTyped'
    BY <2>1, <1>2, GotoTyped, ResultSet DEF FailFast, At, Return
  <2>3. QED
    BY <2>2, <1>2 DEF FailFast
<1>3. ASSUME NEW f \in Fetchers, ReuseSnapshot(f) PROVE TypeOK'
  <2> DEFINE c == capture[key[f]]
             r == FetchResult("kubernetes", TRUE, records[key[f]], meta[key[f]],
                              IF c.whole THEN c.lost ELSE {"metadata"})
  <2>1. key[f] \in Keys /\ pc[f] = "source"
    BY <1>3 DEF ReuseSnapshot, Admitted, At, ControlTyped
  <2>2. (IF c.whole THEN c.lost ELSE {"metadata"}) \in SUBSET Losses
    BY <2>1 DEF StorageTyped, Losses
  <2>3. records[key[f]] \in SUBSET Origins /\ meta[key[f]] \in SUBSET GapTypes
    BY <2>1 DEF StorageTyped
  <2>4. r \in Results
    BY <2>2, <2>3, ResultsTyped DEF Sources
  <2>5. Return(f, r) /\ Pass(f, "kubernetes")
        /\ UNCHANGED <<fetchVars, fanoutVars, storageVars, elasticRaised, boundVars>>
    BY <1>3 DEF ReuseSnapshot
  <2> HIDE DEF r
  <2>6. ControlTyped' /\ ResultTyped' /\ BreakerTyped'
    BY <2>1, <2>4, <2>5, GotoTyped, ResultSet, BreakerCounted DEF Return, Sources
  <2>7. QED
    BY <2>5, <2>6
<1>4. ASSUME NEW f \in Fetchers, NEW d \in Discoveries, Discover(f, d) PROVE TypeOK'
  <2>1. pc[f] = "source" /\ d \in DiscoveryResult
        /\ UNCHANGED <<fetchVars, storageVars, elasticRaised>>
    BY <1>4, DiscoveryTyped DEF Discover, Admitted, At
  <2>2. BoundsTyped'
    BY <1>4 DEF Discover
  <2>3. ASSUME NEW r \in Results, Return(f, r), Pass(f, "kubernetes"), UNCHANGED fanoutVars
        PROVE  TypeOK'
    <3>1. ControlTyped' /\ ResultTyped' /\ BreakerTyped'
      BY <2>1, <2>3, GotoTyped, ResultSet, BreakerCounted DEF Return, Sources
    <3>2. QED
      BY <2>1, <2>2, <2>3, <3>1
  <2>4. CASE ~d.ok
    <3>1. NotLooked("kubernetes") \in Results
      BY ResultsTyped DEF Sources
    <3>2. QED
      BY <2>3, <2>4, <3>1, <1>4 DEF Discover
  <2>5. CASE d.ok /\ d.targets = {}
    <3>1. FetchResult("kubernetes", TRUE, {}, d.gaps, d.losses) \in Results
      BY <2>1, ResultsTyped DEF Sources, DiscoveryResult
    <3>2. QED
      BY <2>3, <2>5, <3>1, <1>4 DEF Discover
  <2>6. CASE d.ok /\ d.targets # {}
    <3>1. Goto(f, "reading") /\ found' = [found EXCEPT ![f] = d]
          /\ UNCHANGED <<read, result, breaker>>
      BY <2>6, <1>4 DEF Discover
    <3>2. ControlTyped' /\ FanoutTyped'
      BY <2>1, <3>1, GotoTyped DEF FanoutTyped
    <3>3. QED
      BY <2>1, <2>2, <3>1, <3>2
  <2>7. QED
    BY <2>4, <2>5, <2>6
<1>5. ASSUME NEW f \in Fetchers, Conclude(f) PROVE TypeOK'
  <2>1. Outcome(f) \in Results
    BY OutcomeTyped, ResultsTyped DEF Outcome, Sources
  <2>2. ControlTyped'
    BY <1>5, GotoTyped DEF Conclude
  <2>3. FanoutTyped'
    BY <1>5, NothingTyped, ReadsTyped DEF Conclude, FanoutTyped
  <2>4. ResultTyped'
    BY <2>1, <1>5, ResultSet DEF Conclude
  <2>5. BreakerTyped'
    BY <1>5, BreakerCounted DEF Conclude, Sources
  <2>6. QED
    BY <2>2, <2>3, <2>4, <2>5, <1>5 DEF Conclude
<1>6. ASSUME NEW f \in Fetchers, SaveRecords(f) PROVE TypeOK'
  <2>1. key[f] \in Keys /\ result[f].lines \in SUBSET Origins /\ result[f].lost \in SUBSET Losses
    BY <1>6 DEF SaveRecords, ControlTyped, ResultTyped, Results
  <2>2. StorageTyped'
    BY <2>1, <1>6 DEF SaveRecords, StorageTyped
  <2>3. ControlTyped'
    BY <1>6, GotoTyped DEF SaveRecords
  <2>4. QED
    BY <2>2, <2>3, <1>6 DEF SaveRecords
<1>7. ASSUME NEW f \in Fetchers, SaveMeta(f) PROVE TypeOK'
  <2>1. key[f] \in Keys /\ result[f].gaps \in SUBSET GapTypes
    BY <1>7 DEF SaveMeta, ControlTyped, ResultTyped, Results
  <2>2. StorageTyped'
    <3>1. [capture[key[f]] EXCEPT !.whole = (capture[key[f]].by = f)]
             \in [lost : SUBSET Losses, by : Fetchers \cup {NoFetcher}, whole : BOOLEAN]
      BY <2>1 DEF StorageTyped
    <3>2. QED
      BY <2>1, <3>1, <1>7 DEF SaveMeta, StorageTyped
  <2>3. ControlTyped' /\ BreakerTyped'
    BY <1>7, GotoTyped, BreakerCounted DEF SaveMeta, Sources
  <2>4. QED
    BY <2>2, <2>3, <1>7 DEF SaveMeta
<1>8. ASSUME NEW f \in Fetchers, Search(f) PROVE TypeOK'
  <2>1. PICK hits \in {0, 1, MaxDocuments, MaxDocuments + 1} :
           Return(f, FetchResult("elastic", TRUE, IF hits = 0 THEN {} ELSE {"elastic"}, {},
                                 When(hits > MaxDocuments, "documents")))
    BY <1>8 DEF Search
  <2> DEFINE r == FetchResult("elastic", TRUE, IF hits = 0 THEN {} ELSE {"elastic"}, {},
                              When(hits > MaxDocuments, "documents"))
  <2>2. When(hits > MaxDocuments, "documents") \in SUBSET Losses
    BY DEF When, Losses
  <2>3. r \in Results
    BY <2>2, ResultsTyped DEF Sources, Origins
  <2> HIDE DEF r
  <2>4. ControlTyped' /\ ResultTyped' /\ BreakerTyped'
    BY <2>1, <2>3, <1>8, GotoTyped, ResultSet, BreakerCounted
    DEF Search, Admitted, At, Return, Sources, r
  <2>5. QED
    BY <2>4, <1>8 DEF Search
<1>9. ASSUME NEW f \in Fetchers, SearchRefused(f) PROVE TypeOK'
  <2>1. Raised("elastic") \in Results
    BY ResultsTyped DEF Sources
  <2>2. ControlTyped' /\ ResultTyped'
    BY <2>1, <1>9, GotoTyped, ResultSet DEF SearchRefused, At, Return
  <2>3. QED
    BY <2>2, <1>9 DEF SearchRefused
<1>10. ASSUME NEW f \in Fetchers, NextSource(f) PROVE TypeOK'
  <2>1. chain[f] \in Seq(Sources) /\ Len(chain[f]) # 0 /\ Len(chain[f]) # 1
    BY <1>10 DEF NextSource, IsLast, ControlTyped
  <2>2. Head(chain[f]) \in Sources /\ Tail(chain[f]) \in Seq(Sources) /\ Tail(chain[f]) # <<>>
    <3>1. chain[f] # <<>>
      BY <1>10 DEF NextSource, ControlTyped
    <3>2. QED
      BY <2>1, <3>1, TailTyped
  <2>3. abandoned' \in [Fetchers -> SUBSET Attempts]
    <3>1. Attempt(f) \in Attempts
      BY <2>2 DEF Attempt, Attempts
    <3>2. QED
      BY <3>1, <1>10 DEF NextSource, ControlTyped
  <2>4. ControlTyped'
    BY <2>2, <2>3, <1>10 DEF NextSource, ControlTyped, Goto
  <2>5. QED
    BY <2>4, <1>10 DEF NextSource
<1>11. ASSUME NEW f \in Fetchers, Answer(f) PROVE TypeOK'
  <2>1. Reported(f) \in Results
    BY ReportedTyped
  <2>2. ResultTyped'
    BY <2>1, <1>11, AnswerReports, ResultSet
  <2>3. ControlTyped'
    BY <1>11, GotoTyped DEF Answer
  <2>4. QED
    BY <2>2, <2>3, <1>11 DEF Answer
<1>12. ASSUME NEW f \in Fetchers, Deliver(f) PROVE TypeOK'
  BY <1>12, ForgetTyped DEF Deliver, Forget
<1>13. ASSUME NEW f \in Fetchers, NEW t \in Target, EndRead(f, t) PROVE TypeOK'
  <2>1. PICK r \in Reads : ReadEnds(f, t, r)
    BY <1>13, ReadsTyped DEF EndRead
  <2>2. FanoutTyped'
    BY <2>1, ReadSet DEF ReadEnds
  <2>3. UNCHANGED boundVars
    BY <1>13 DEF EndRead
  <2>4. QED
    BY <2>1, <2>2, <2>3 DEF ReadEnds
<1>14. ASSUME NEW f \in Fetchers, NEW t \in Target, ReadRaises(f, t) PROVE TypeOK'
  <2>1. PICK r \in Reads : ReadEnds(f, t, r)
    BY <1>14, ReadsTyped DEF ReadRaises
  <2>2. FanoutTyped'
    BY <2>1, ReadSet DEF ReadEnds
  <2>3. Fault
    BY <1>14 DEF ReadRaises
  <2>4. QED
    BY <2>1, <2>2, <2>3 DEF ReadEnds
<1>15. ASSUME NEW f \in Fetchers, NEW s \in Sources, BreakerResets(f, s) PROVE TypeOK'
  <2>1. breaker[f][s] \in Breakers
    BY DEF BreakerTyped
  <2>2. BreakerTyped'
    BY <2>1, <1>15, BreakersTyped, BreakerSet DEF BreakerResets
  <2>3. QED
    BY <2>2, <1>15 DEF BreakerResets
<1>16. ASSUME NEW f \in Fetchers, FetchRaises(f) PROVE TypeOK'
  <2>1. PICK r \in {NotLooked("kubernetes"), Raised("kubernetes")} : Return(f, r)
    BY <1>16 DEF FetchRaises
  <2> r \in Results
    BY ResultsTyped DEF Sources
  <2>2. ControlTyped' /\ ResultTyped' /\ BreakerTyped'
    BY <2>1, <1>16, GotoTyped, ResultSet, BreakerCounted
    DEF FetchRaises, Admitted, At, Return, Sources
  <2>3. QED
    BY <2>2, <1>16 DEF FetchRaises
<1>17. ASSUME NEW f \in Fetchers, SaveFails(f) PROVE TypeOK'
  <2>1. ControlTyped' /\ BreakerTyped'
    BY <1>17, GotoTyped, BreakerCounted DEF SaveFails, Sources
  <2>2. QED
    BY <2>1, <1>17 DEF SaveFails
<1>18. ASSUME NEW f \in Fetchers, SearchRaises(f) PROVE TypeOK'
  <2>1. Raised("elastic") \in Results
    BY ResultsTyped DEF Sources
  <2>2. ControlTyped' /\ ResultTyped' /\ BreakerTyped'
    BY <2>1, <1>18, GotoTyped, ResultSet, BreakerCounted
    DEF SearchRaises, Admitted, At, Return, Sources
  <2>3. BoundsTyped'
    BY <1>18, FetchAssumption DEF SearchRaises, BoundsTyped, Fault
  <2>4. QED
    BY <2>2, <2>3, <1>18 DEF SearchRaises
<1>19. ASSUME NEW f \in Fetchers, Crash(f) PROVE TypeOK'
  <2>1. BreakerTyped'
    BY <1>19, NothingTyped DEF Crash, BreakerTyped
  <2>2. QED
    BY <2>1, <1>19, ForgetTyped DEF Crash, Forget
<1>20. CASE UNCHANGED vars
  BY <1>20 DEF vars, fetchVars, fanoutVars, storageVars, boundVars
<1>21. QED
  BY <1>1, <1>2, <1>3, <1>4, <1>5, <1>6, <1>7, <1>8, <1>9, <1>10, <1>11, <1>12, <1>13, <1>14,
     <1>15, <1>16, <1>17, <1>18, <1>19, <1>20 DEF Next, FetcherStep
-----------------------------------------------------------------------------
(* The breakers.                                                           *)
LEMMA OtherBreaker ==
    ASSUME TypeOK, NEW f \in Fetchers, Pass(f, "kubernetes") \/ Count(f, "kubernetes")
    PROVE  \A g \in Fetchers : breaker'[g].elastic = breaker[g].elastic
<1>1. PICK b : breaker' = [breaker EXCEPT ![f]["kubernetes"] = b]
  BY DEF Pass, Count
<1>2. breaker \in [Fetchers -> [Sources -> Breakers]] /\ "elastic" \in Sources
  BY DEF TypeOK, Sources
<1>3. ASSUME NEW g \in Fetchers PROVE breaker'[g].elastic = breaker[g].elastic
  <2>1. breaker'[g] = breaker[g] \/ breaker'[g] = [breaker[g] EXCEPT !["kubernetes"] = b]
    BY <1>1, <1>2
  <2>2. breaker[g] \in [Sources -> Breakers]
    BY <1>2
  <2>3. QED
    BY <1>2, <2>1, <2>2
<1>4. QED
  BY <1>3

LEMMA BreakersCountKept == ASSUME TypeOK, BreakersCount, [Next]_vars PROVE BreakersCount'
<1> USE OtherBreaker DEF BreakersCount
<1>1. ASSUME NEW f \in Fetchers, NEW k \in Keys, StartFetch(f, k) PROVE BreakersCount'
  BY <1>1 DEF StartFetch, Goto, Return, Fault, Forget
<1>2. ASSUME NEW f \in Fetchers, FailFast(f) PROVE BreakersCount'
  BY <1>2 DEF FailFast, Goto, Return, Fault, Forget
<1>3. ASSUME NEW f \in Fetchers, ReuseSnapshot(f) PROVE BreakersCount'
  BY <1>3 DEF ReuseSnapshot, Goto, Return, Fault, Forget
<1>4. ASSUME NEW f \in Fetchers, NEW d \in Discoveries, Discover(f, d) PROVE BreakersCount'
  BY <1>4 DEF Discover, Goto, Return, Fault, Forget
<1>5. ASSUME NEW f \in Fetchers, Conclude(f) PROVE BreakersCount'
  BY <1>5 DEF Conclude, Goto, Return, Fault, Forget
<1>6. ASSUME NEW f \in Fetchers, SaveRecords(f) PROVE BreakersCount'
  BY <1>6 DEF SaveRecords, Goto, Return, Fault, Forget
<1>7. ASSUME NEW f \in Fetchers, SaveMeta(f) PROVE BreakersCount'
  BY <1>7 DEF SaveMeta, Goto, Return, Fault, Forget
<1>8. ASSUME NEW f \in Fetchers, Search(f) PROVE BreakersCount'
  <2>1. \A g \in Fetchers :
           breaker'[g].elastic = breaker[g].elastic \/ breaker'[g].elastic = NewBreaker
    BY <1>8 DEF Search, Pass, AfterReturn, TypeOK, Sources
  <2>2. QED
    BY <2>1, <1>8 DEF Search
<1>9. ASSUME NEW f \in Fetchers, SearchRefused(f) PROVE BreakersCount'
  BY <1>9 DEF SearchRefused, Goto, Return, Fault, Forget
<1>10. ASSUME NEW f \in Fetchers, NextSource(f) PROVE BreakersCount'
  BY <1>10 DEF NextSource, Goto, Return, Fault, Forget
<1>11. ASSUME NEW f \in Fetchers, Answer(f) PROVE BreakersCount'
  BY <1>11 DEF Answer, Goto, Return, Fault, Forget
<1>12. ASSUME NEW f \in Fetchers, Deliver(f) PROVE BreakersCount'
  BY <1>12 DEF Deliver, Goto, Return, Fault, Forget
<1>13. ASSUME NEW f \in Fetchers, NEW t \in Target, EndRead(f, t) PROVE BreakersCount'
  BY <1>13 DEF EndRead, ReadEnds
<1>14. ASSUME NEW f \in Fetchers, NEW t \in Target, ReadRaises(f, t) PROVE BreakersCount'
  BY <1>14 DEF ReadRaises, ReadEnds
<1>15. ASSUME NEW f \in Fetchers, NEW s \in Sources, BreakerResets(f, s) PROVE BreakersCount'
  <2>1. \A g \in Fetchers : breaker'[g].elastic = breaker[g].elastic \/ (g = f /\ s = "elastic")
    BY <1>15 DEF BreakerResets, TypeOK, Sources
  <2>2. s = "elastic" => breaker[f].elastic # NewBreaker
    BY <1>15 DEF BreakerResets, Refuses, NewBreaker
  <2>3. QED
    BY <2>1, <2>2, <1>15 DEF BreakerResets
<1>16. ASSUME NEW f \in Fetchers, FetchRaises(f) PROVE BreakersCount'
  BY <1>16 DEF FetchRaises, Goto, Return, Fault, Forget
<1>17. ASSUME NEW f \in Fetchers, SaveFails(f) PROVE BreakersCount'
  BY <1>17 DEF SaveFails, Goto, Return, Fault, Forget
<1>18. ASSUME NEW f \in Fetchers, SearchRaises(f) PROVE BreakersCount'
  <2>1. \A g \in Fetchers : breaker'[g].elastic = breaker[g].elastic \/ g = f
    BY <1>18 DEF SearchRaises, Count, TypeOK, Sources
  <2>2. QED
    BY <2>1, <1>18 DEF SearchRaises
<1>19. ASSUME NEW f \in Fetchers, Crash(f) PROVE BreakersCount'
  <2>1. \A g \in Fetchers :
           breaker'[g].elastic = breaker[g].elastic \/ breaker'[g].elastic = NewBreaker
    BY <1>19 DEF Crash, NewBreakers, TypeOK, Sources
  <2>2. QED
    BY <2>1, <1>19 DEF Crash, Forget
<1>20. CASE UNCHANGED vars
  BY <1>20 DEF vars
<1>21. QED
  BY <1>1, <1>2, <1>3, <1>4, <1>5, <1>6, <1>7, <1>8, <1>9, <1>10, <1>11, <1>12, <1>13, <1>14,
     <1>15, <1>16, <1>17, <1>18, <1>19, <1>20 DEF Next, FetcherStep

-----------------------------------------------------------------------------
(* The gaps of discovery.                                                  *)
LEMMA NothingSaid == Announced(NothingFound.losses, NothingFound.gaps)
BY DEF Announced, NothingFound

LEMMA FoundSaysKept == ASSUME TypeOK, FoundSays, [Next]_vars PROVE FoundSays'
<1> USE NothingSaid DEF FoundSays, fanoutVars, TypeOK
<1>1. ASSUME NEW f \in Fetchers, NEW k \in Keys, StartFetch(f, k) PROVE FoundSays'
  BY <1>1 DEF StartFetch, Goto, Return, Fault, Forget
<1>2. ASSUME NEW f \in Fetchers, FailFast(f) PROVE FoundSays'
  BY <1>2 DEF FailFast, Goto, Return, Fault, Forget
<1>3. ASSUME NEW f \in Fetchers, ReuseSnapshot(f) PROVE FoundSays'
  BY <1>3 DEF ReuseSnapshot, Goto, Return, Fault, Forget
<1>4. ASSUME NEW f \in Fetchers, NEW d \in Discoveries, Discover(f, d) PROVE FoundSays'
  BY <1>4, DiscoverySays DEF Discover
<1>5. ASSUME NEW f \in Fetchers, Conclude(f) PROVE FoundSays'
  BY <1>5 DEF Conclude, Goto, Return, Fault, Forget
<1>6. ASSUME NEW f \in Fetchers, SaveRecords(f) PROVE FoundSays'
  BY <1>6 DEF SaveRecords, Goto, Return, Fault, Forget
<1>7. ASSUME NEW f \in Fetchers, SaveMeta(f) PROVE FoundSays'
  BY <1>7 DEF SaveMeta, Goto, Return, Fault, Forget
<1>8. ASSUME NEW f \in Fetchers, Search(f) PROVE FoundSays'
  BY <1>8 DEF Search, Goto, Return, Fault, Forget
<1>9. ASSUME NEW f \in Fetchers, SearchRefused(f) PROVE FoundSays'
  BY <1>9 DEF SearchRefused, Goto, Return, Fault, Forget
<1>10. ASSUME NEW f \in Fetchers, NextSource(f) PROVE FoundSays'
  BY <1>10 DEF NextSource, Goto, Return, Fault, Forget
<1>11. ASSUME NEW f \in Fetchers, Answer(f) PROVE FoundSays'
  BY <1>11 DEF Answer, Goto, Return, Fault, Forget
<1>12. ASSUME NEW f \in Fetchers, Deliver(f) PROVE FoundSays'
  BY <1>12 DEF Deliver, Goto, Return, Fault, Forget
<1>13. ASSUME NEW f \in Fetchers, NEW t \in Target, EndRead(f, t) PROVE FoundSays'
  BY <1>13 DEF EndRead, ReadEnds
<1>14. ASSUME NEW f \in Fetchers, NEW t \in Target, ReadRaises(f, t) PROVE FoundSays'
  BY <1>14 DEF ReadRaises, ReadEnds
<1>15. ASSUME NEW f \in Fetchers, NEW s \in Sources, BreakerResets(f, s) PROVE FoundSays'
  BY <1>15 DEF BreakerResets, Goto, Return, Fault, Forget
<1>16. ASSUME NEW f \in Fetchers, FetchRaises(f) PROVE FoundSays'
  BY <1>16 DEF FetchRaises, Goto, Return, Fault, Forget
<1>17. ASSUME NEW f \in Fetchers, SaveFails(f) PROVE FoundSays'
  BY <1>17 DEF SaveFails, Goto, Return, Fault, Forget
<1>18. ASSUME NEW f \in Fetchers, SearchRaises(f) PROVE FoundSays'
  BY <1>18 DEF SearchRaises, Goto, Return, Fault, Forget
<1>19. ASSUME NEW f \in Fetchers, Crash(f) PROVE FoundSays'
  BY <1>19 DEF Crash, Goto, Return, Fault, Forget
<1>20. CASE UNCHANGED vars
  BY <1>20 DEF vars
<1>21. QED
  BY <1>1, <1>2, <1>3, <1>4, <1>5, <1>6, <1>7, <1>8, <1>9, <1>10, <1>11, <1>12, <1>13, <1>14,
     <1>15, <1>16, <1>17, <1>18, <1>19, <1>20 DEF Next, FetcherStep

-----------------------------------------------------------------------------
(* The results.                                                            *)
LEMMA SaysKept ==
    ASSUME TypeOK, ResultSays, NEW f \in Fetchers,
           NEW step \in {"source", "reading", "returned", "answered"}, Goto(f, step),
           UNCHANGED result,
           step = "returned" => pc[f] \in {"saving", "savingMeta"}
    PROVE  ResultSays'
BY DEF ResultSays, FetchSays, Goto, TypeOK

LEMMA ReturnSays ==
    ASSUME TypeOK, ResultSays, NEW f \in Fetchers, NEW r, Return(f, r),
           r.ok => Announced(r.lost, r.gaps), r.raised => ~r.ok
    PROVE  ResultSays'
BY DEF ResultSays, FetchSays, Return, Goto, TypeOK

LEMMA FailuresSay ==
    /\ \A src, gaps, lost : ~Failure(src, gaps, lost).ok
    /\ \A src : ~Raised(src).ok /\ ~NotLooked(src).ok
BY DEF Failure, FetchResult, Raised, NotLooked

LEMMA ForgetSays ==
    ASSUME TypeOK, ResultSays, NEW f \in Fetchers, Forget(f) PROVE ResultSays'
BY FailuresSay DEF ResultSays, FetchSays, Forget, Goto, TypeOK, NoResult

LEMMA ResultSaysKept ==
    ASSUME TypeOK, FoundSays, ResultSays, SnapshotSays, [Next]_vars PROVE ResultSays'
<1>1. ASSUME NEW f \in Fetchers, NEW k \in Keys, StartFetch(f, k) PROVE ResultSays'
  BY <1>1, SaysKept DEF StartFetch
<1>2. ASSUME NEW f \in Fetchers, FailFast(f) PROVE ResultSays'
  BY <1>2, ReturnSays, FailuresSay DEF FailFast
<1>3. ASSUME NEW f \in Fetchers, ReuseSnapshot(f) PROVE ResultSays'
  <2> DEFINE c == capture[key[f]]
             lost == IF c.whole THEN c.lost ELSE {"metadata"}
             r == FetchResult("kubernetes", TRUE, records[key[f]], meta[key[f]], lost)
  <2>1. key[f] \in Keys
    BY <1>3 DEF ReuseSnapshot, Admitted, At, TypeOK
  <2>2. Announced(lost, meta[key[f]])
    BY <2>1 DEF SnapshotSays, Announced, Silent
  <2> HIDE DEF lost
  <2>3. r.lost = lost /\ r.gaps = meta[key[f]] /\ ~r.raised
    BY DEF FetchResult
  <2>4. Return(f, r)
    BY <1>3 DEF ReuseSnapshot, lost
  <2> HIDE DEF r
  <2>5. QED
    BY <2>2, <2>3, <2>4, ReturnSays
<1>4. ASSUME NEW f \in Fetchers, NEW d \in Discoveries, Discover(f, d) PROVE ResultSays'
  <2>1. CASE ~d.ok
    BY <2>1, <1>4, ReturnSays, FailuresSay DEF Discover
  <2>2. CASE d.ok /\ d.targets = {}
    <3> DEFINE r == FetchResult("kubernetes", TRUE, {}, d.gaps, d.losses)
    <3>1. r.lost = d.losses /\ r.gaps = d.gaps /\ ~r.raised
      BY DEF FetchResult
    <3>2. Return(f, r)
      BY <2>2, <1>4 DEF Discover
    <3> HIDE DEF r
    <3>3. QED
      BY <3>1, <3>2, DiscoverySays, ReturnSays
  <2>3. CASE d.ok /\ d.targets # {}
    BY <2>3, <1>4, SaysKept DEF Discover
  <2>4. QED
    BY <2>1, <2>2, <2>3
<1>5. ASSUME NEW f \in Fetchers, Conclude(f) PROVE ResultSays'
  <2>1. /\ Outcome(f).ok => Announced(Outcome(f).lost, Outcome(f).gaps)
        /\ Lines(f) # {} => Outcome(f).ok
        /\ ~Outcome(f).raised
    BY OutcomeSays
  <2>2. result' = [result EXCEPT ![f] = Outcome(f)]
    BY <1>5 DEF Conclude
  <2>3. CASE Lines(f) = {}
    BY <2>1, <2>2, <2>3, <1>5, ReturnSays DEF Conclude, Return
  <2>4. CASE Lines(f) # {}
    <3>1. pc' = [pc EXCEPT ![f] = "saving"]
      BY <2>4, <1>5 DEF Conclude, Goto
    <3>2. QED
      BY <2>1, <2>2, <2>4, <3>1 DEF ResultSays, FetchSays, TypeOK
  <2>5. QED
    BY <2>3, <2>4
<1>6. ASSUME NEW f \in Fetchers, SaveRecords(f) PROVE ResultSays'
  BY <1>6 DEF SaveRecords, ResultSays, FetchSays, Goto, TypeOK
<1>7. ASSUME NEW f \in Fetchers, SaveMeta(f) PROVE ResultSays'
  BY <1>7, SaysKept DEF SaveMeta
<1>8. ASSUME NEW f \in Fetchers, Search(f) PROVE ResultSays'
  <2>1. PICK hits \in {0, 1, MaxDocuments, MaxDocuments + 1} :
           Return(f, FetchResult("elastic", TRUE, IF hits = 0 THEN {} ELSE {"elastic"}, {},
                                 When(hits > MaxDocuments, "documents")))
    BY <1>8 DEF Search
  <2> DEFINE r == FetchResult("elastic", TRUE, IF hits = 0 THEN {} ELSE {"elastic"}, {},
                              When(hits > MaxDocuments, "documents"))
  <2>2. r.lost = When(hits > MaxDocuments, "documents") /\ r.gaps = {} /\ ~r.raised
    BY DEF FetchResult
  <2> HIDE DEF r
  <2>3. Announced(r.lost, r.gaps)
    BY <2>2 DEF When, Announced, Silent
  <2>4. QED
    BY <2>1, <2>2, <2>3, ReturnSays DEF r
<1>9. ASSUME NEW f \in Fetchers, SearchRefused(f) PROVE ResultSays'
  BY <1>9, ReturnSays, FailuresSay DEF SearchRefused
<1>10. ASSUME NEW f \in Fetchers, NextSource(f) PROVE ResultSays'
  BY <1>10, SaysKept DEF NextSource
<1>11. ASSUME NEW f \in Fetchers, Answer(f) PROVE ResultSays'
  <2>1. result' = [result EXCEPT ![f] = Reported(f)] /\ pc' = [pc EXCEPT ![f] = "answered"]
    BY <1>11, AnswerReports DEF Answer, Goto
  <2>2. Reported(f).ok = result[f].ok /\ Reported(f).raised = result[f].raised
    BY DEF Reported, TypeOK, Results
  <2>3. QED
    BY <2>1, <2>2 DEF ResultSays, FetchSays, TypeOK
<1>12. ASSUME NEW f \in Fetchers, Deliver(f) PROVE ResultSays'
  BY <1>12, ForgetSays DEF Deliver
<1>13. ASSUME NEW f \in Fetchers, NEW t \in Target, EndRead(f, t) PROVE ResultSays'
  BY <1>13 DEF EndRead, ReadEnds, ResultSays
<1>14. ASSUME NEW f \in Fetchers, NEW t \in Target, ReadRaises(f, t) PROVE ResultSays'
  BY <1>14 DEF ReadRaises, ReadEnds, ResultSays
<1>15. ASSUME NEW f \in Fetchers, NEW s \in Sources, BreakerResets(f, s) PROVE ResultSays'
  BY <1>15 DEF BreakerResets, ResultSays
<1>16. ASSUME NEW f \in Fetchers, FetchRaises(f) PROVE ResultSays'
  <2>1. PICK r \in {NotLooked("kubernetes"), Raised("kubernetes")} : Return(f, r)
    BY <1>16 DEF FetchRaises
  <2>2. QED
    BY <2>1, ReturnSays, FailuresSay
<1>17. ASSUME NEW f \in Fetchers, SaveFails(f) PROVE ResultSays'
  BY <1>17, SaysKept DEF SaveFails
<1>18. ASSUME NEW f \in Fetchers, SearchRaises(f) PROVE ResultSays'
  BY <1>18, ReturnSays, FailuresSay DEF SearchRaises
<1>19. ASSUME NEW f \in Fetchers, Crash(f) PROVE ResultSays'
  BY <1>19, ForgetSays DEF Crash
<1>20. CASE UNCHANGED vars
  BY <1>20 DEF vars, ResultSays
<1>21. QED
  BY <1>1, <1>2, <1>3, <1>4, <1>5, <1>6, <1>7, <1>8, <1>9, <1>10, <1>11, <1>12, <1>13, <1>14,
     <1>15, <1>16, <1>17, <1>18, <1>19, <1>20 DEF Next, FetcherStep

-----------------------------------------------------------------------------
(* The snapshots.                                                          *)
LEMMA SavingKey ==
    ASSUME TypeOK, NEW f \in Fetchers, pc[f] # "idle" PROVE key[f] \in Keys
BY DEF TypeOK

(* A step that writes no snapshot, of a fetcher that is not about to write *)
(* metadata, or no longer.                                                 *)
LEMMA SnapshotsStay ==
    ASSUME TypeOK, SnapshotSays, NEW f \in Fetchers, UNCHANGED storageVars,
           \A g \in Fetchers \ {f} : UNCHANGED <<pc[g], key[g], result[g]>>,
           pc'[f] # "savingMeta"
    PROVE  SnapshotSays'
<1>1. \A k \in Keys : capture[k].whole => Announced(capture[k].lost, meta[k])
  BY DEF SnapshotSays
<1>2. ASSUME NEW g \in Fetchers, pc'[g] = "savingMeta", (capture[key[g]].by)' = g
      PROVE  (capture[key[g]].lost)' = result'[g].lost
  BY <1>2, SavingKey DEF SnapshotSays, storageVars
<1>3. QED
  BY <1>1, <1>2 DEF SnapshotSays, storageVars

LEMMA OthersStay ==
    ASSUME TypeOK, NEW f \in Fetchers, NEW g \in Fetchers \ {f}
    PROVE  /\ \A step : Goto(f, step) => pc'[g] = pc[g]
           /\ \A r : Return(f, r) => pc'[g] = pc[g] /\ result'[g] = result[g]
           /\ Forget(f) => pc'[g] = pc[g] /\ key'[g] = key[g] /\ result'[g] = result[g]
BY DEF TypeOK, Goto, Return, Forget

LEMMA ForgetKeeps ==
    ASSUME TypeOK, SnapshotSays, NEW f \in Fetchers, Forget(f) PROVE SnapshotSays'
<1>1. UNCHANGED storageVars /\ pc'[f] # "savingMeta"
  BY DEF Forget, Goto, TypeOK, storageVars
<1>2. \A g \in Fetchers \ {f} : UNCHANGED <<pc[g], key[g], result[g]>>
  BY OthersStay
<1>3. QED
  BY <1>1, <1>2, SnapshotsStay

LEMMA SnapshotSaysKept ==
    ASSUME TypeOK, ResultSays, SnapshotSays, [Next]_vars PROVE SnapshotSays'
<1> DEFINE Moves(f) == /\ UNCHANGED storageVars /\ pc'[f] # "savingMeta"
                       /\ \A g \in Fetchers \ {f} : UNCHANGED <<pc[g], key[g], result[g]>>
<1> HIDE DEF Moves
<1>0. ASSUME NEW f \in Fetchers, Moves(f) PROVE SnapshotSays'
  BY <1>0, SnapshotsStay DEF Moves
<1>r. ASSUME NEW f \in Fetchers, NEW r, Return(f, r), UNCHANGED <<storageVars, key>> PROVE Moves(f)
  BY <1>r DEF Moves, Return, Goto, TypeOK
<1>g. ASSUME NEW f \in Fetchers, NEW step, step # "savingMeta", Goto(f, step),
             UNCHANGED <<storageVars, key, result>>
      PROVE  Moves(f)
  BY <1>g DEF Moves, Goto, TypeOK
<1>1. ASSUME NEW f \in Fetchers, NEW k \in Keys, StartFetch(f, k) PROVE SnapshotSays'
  <2>1. Goto(f, "source") /\ UNCHANGED <<storageVars, result>> /\ key' = [key EXCEPT ![f] = k]
    BY <1>1 DEF StartFetch
  <2>2. Moves(f)
    BY <2>1 DEF Moves, Goto, TypeOK
  <2>3. QED
    BY <2>2, <1>0
<1>2. ASSUME NEW f \in Fetchers, FailFast(f) PROVE SnapshotSays'
  <2>1. Return(f, NotLooked("kubernetes")) /\ UNCHANGED <<storageVars, key>>
    BY <1>2 DEF FailFast, fetchVars
  <2>2. QED
    BY <2>1, <1>r, <1>0
<1>3. ASSUME NEW f \in Fetchers, ReuseSnapshot(f) PROVE SnapshotSays'
  <2>1. UNCHANGED <<storageVars, key>> /\ \E r : Return(f, r)
    BY <1>3 DEF ReuseSnapshot, fetchVars
  <2>2. QED
    BY <2>1, <1>r, <1>0
<1>4. ASSUME NEW f \in Fetchers, NEW d \in Discoveries, Discover(f, d) PROVE SnapshotSays'
  <2>1. UNCHANGED <<storageVars, key>>
        /\ ((\E r : Return(f, r)) \/ (Goto(f, "reading") /\ UNCHANGED result))
    BY <1>4 DEF Discover, fetchVars
  <2>2. CASE \E r : Return(f, r)
    BY <2>1, <2>2, <1>r, <1>0
  <2>3. CASE Goto(f, "reading") /\ UNCHANGED result
    BY <2>1, <2>3, <1>g, <1>0
  <2>4. QED
    BY <2>1, <2>2, <2>3
<1>5. ASSUME NEW f \in Fetchers, Conclude(f) PROVE SnapshotSays'
  <2>1. /\ UNCHANGED <<storageVars, key>> /\ result' = [result EXCEPT ![f] = Outcome(f)]
        /\ Goto(f, "returned") \/ Goto(f, "saving")
    BY <1>5 DEF Conclude, fetchVars
  <2>2. Moves(f)
    BY <2>1 DEF Moves, Goto, TypeOK
  <2>3. QED
    BY <2>2, <1>0
<1>6. ASSUME NEW f \in Fetchers, SaveRecords(f) PROVE SnapshotSays'
  <2>1. key[f] \in Keys
    BY <1>6, SavingKey DEF SaveRecords
  <2>2. capture' = [capture EXCEPT ![key[f]] = [lost |-> result[f].lost, by |-> f, whole |-> FALSE]]
        /\ UNCHANGED <<meta, key, result>> /\ pc' = [pc EXCEPT ![f] = "savingMeta"]
    BY <1>6 DEF SaveRecords, Goto, fetchVars
  <2>3. \A k \in Keys : capture'[k].whole => Announced(capture'[k].lost, meta'[k])
    BY <2>1, <2>2 DEF SnapshotSays, TypeOK
  <2>4. ASSUME NEW g \in Fetchers, pc'[g] = "savingMeta", capture'[key'[g]].by = g
        PROVE  capture'[key'[g]].lost = result'[g].lost
    <3>1. CASE key[g] = key[f]
      BY <2>1, <2>2, <2>4, <3>1 DEF TypeOK
    <3>2. CASE key[g] # key[f]
      <4>1. pc[g] = "savingMeta" /\ key[g] \in Keys
        BY <2>2, <2>4, <3>2, SavingKey DEF TypeOK
      <4>2. capture'[key'[g]] = capture[key[g]]
        BY <2>1, <2>2, <3>2, <4>1 DEF TypeOK
      <4>3. QED
        BY <2>2, <2>4, <4>1, <4>2 DEF SnapshotSays
    <3>3. QED
      BY <3>1, <3>2
  <2>5. QED
    BY <2>3, <2>4 DEF SnapshotSays
<1>7. ASSUME NEW f \in Fetchers, SaveMeta(f) PROVE SnapshotSays'
  <2>1. key[f] \in Keys /\ pc[f] = "savingMeta"
    BY <1>7, SavingKey DEF SaveMeta
  <2>2. UNCHANGED <<key, result>> /\ pc' = [pc EXCEPT ![f] = "returned"]
        /\ meta' = [meta EXCEPT ![key[f]] = result[f].gaps]
    BY <1>7 DEF SaveMeta, Goto, fetchVars
  <2>3. /\ \A k \in Keys \ {key[f]} : capture'[k] = capture[k] /\ meta'[k] = meta[k]
        /\ capture'[key[f]] = [capture[key[f]] EXCEPT !.whole = (capture[key[f]].by = f)]
        /\ meta'[key[f]] = result[f].gaps
    BY <2>1, <2>2, <1>7 DEF SaveMeta, TypeOK
  <2>4. /\ capture'[key[f]].lost = capture[key[f]].lost /\ capture'[key[f]].by = capture[key[f]].by
        /\ capture'[key[f]].whole => capture[key[f]].by = f
    <3>1. capture[key[f]]
             \in [lost : SUBSET Losses, by : Fetchers \cup {NoFetcher}, whole : BOOLEAN]
      BY <2>1 DEF TypeOK
    <3>2. QED
      BY <2>3, <3>1
  <2>5. Announced(result[f].lost, result[f].gaps)
    BY <2>1 DEF ResultSays, FetchSays
  <2>6. \A k \in Keys : capture'[k].whole => Announced(capture'[k].lost, meta'[k])
    BY <2>1, <2>3, <2>4, <2>5 DEF SnapshotSays
  <2>7. ASSUME NEW g \in Fetchers, pc'[g] = "savingMeta", capture'[key'[g]].by = g
        PROVE  capture'[key'[g]].lost = result'[g].lost
    <3>1. pc[g] = "savingMeta" /\ key[g] \in Keys
      BY <2>2, <2>7, SavingKey DEF TypeOK
    <3>2. capture'[key[g]].lost = capture[key[g]].lost /\ capture'[key[g]].by = capture[key[g]].by
      BY <2>3, <2>4, <3>1
    <3>3. QED
      BY <2>2, <2>7, <3>1, <3>2 DEF SnapshotSays
  <2>8. QED
    BY <2>6, <2>7 DEF SnapshotSays
<1>8. ASSUME NEW f \in Fetchers, Search(f) PROVE SnapshotSays'
  <2>1. UNCHANGED <<storageVars, key>> /\ \E r : Return(f, r)
    BY <1>8 DEF Search, fetchVars
  <2>2. QED
    BY <2>1, <1>r, <1>0
<1>9. ASSUME NEW f \in Fetchers, SearchRefused(f) PROVE SnapshotSays'
  <2>1. Return(f, Raised("elastic")) /\ UNCHANGED <<storageVars, key>>
    BY <1>9 DEF SearchRefused, fetchVars
  <2>2. QED
    BY <2>1, <1>r, <1>0
<1>10. ASSUME NEW f \in Fetchers, NextSource(f) PROVE SnapshotSays'
  <2>1. Goto(f, "source") /\ UNCHANGED <<storageVars, key, result>>
    BY <1>10 DEF NextSource
  <2>2. QED
    BY <2>1, <1>g, <1>0
<1>11. ASSUME NEW f \in Fetchers, Answer(f) PROVE SnapshotSays'
  <2>1. /\ UNCHANGED <<storageVars, key>> /\ Goto(f, "answered")
        /\ result' = [result EXCEPT ![f] = Reported(f)]
    BY <1>11, AnswerReports DEF Answer, fetchVars
  <2>2. Moves(f)
    BY <2>1 DEF Moves, Goto, TypeOK
  <2>3. QED
    BY <2>2, <1>0
<1>12. ASSUME NEW f \in Fetchers, Deliver(f) PROVE SnapshotSays'
  BY <1>12, ForgetKeeps DEF Deliver
<1>13. ASSUME NEW f \in Fetchers, NEW t \in Target, EndRead(f, t) PROVE SnapshotSays'
  BY <1>13 DEF EndRead, ReadEnds, SnapshotSays, storageVars, fetchVars
<1>14. ASSUME NEW f \in Fetchers, NEW t \in Target, ReadRaises(f, t) PROVE SnapshotSays'
  BY <1>14 DEF ReadRaises, ReadEnds, SnapshotSays, storageVars, fetchVars
<1>15. ASSUME NEW f \in Fetchers, NEW s \in Sources, BreakerResets(f, s) PROVE SnapshotSays'
  BY <1>15 DEF BreakerResets, SnapshotSays, storageVars, fetchVars
<1>16. ASSUME NEW f \in Fetchers, FetchRaises(f) PROVE SnapshotSays'
  <2>1. UNCHANGED <<storageVars, key>> /\ \E r : Return(f, r)
    BY <1>16 DEF FetchRaises, fetchVars
  <2>2. QED
    BY <2>1, <1>r, <1>0
<1>17. ASSUME NEW f \in Fetchers, SaveFails(f) PROVE SnapshotSays'
  <2>1. Goto(f, "returned") /\ UNCHANGED <<storageVars, key, result>>
    BY <1>17 DEF SaveFails, fetchVars
  <2>2. QED
    BY <2>1, <1>g, <1>0
<1>18. ASSUME NEW f \in Fetchers, SearchRaises(f) PROVE SnapshotSays'
  <2>1. Return(f, Raised("elastic")) /\ UNCHANGED <<storageVars, key>>
    BY <1>18 DEF SearchRaises, fetchVars
  <2>2. QED
    BY <2>1, <1>r, <1>0
<1>19. ASSUME NEW f \in Fetchers, Crash(f) PROVE SnapshotSays'
  BY <1>19, ForgetKeeps DEF Crash
<1>20. CASE UNCHANGED vars
  BY <1>20 DEF vars, SnapshotSays, storageVars, fetchVars
<1>21. QED
  BY <1>1, <1>2, <1>3, <1>4, <1>5, <1>6, <1>7, <1>8, <1>9, <1>10, <1>11, <1>12, <1>13, <1>14,
     <1>15, <1>16, <1>17, <1>18, <1>19, <1>20 DEF Next, FetcherStep

-----------------------------------------------------------------------------
(* Fetchers keep IInv, whatever they do and whatever services answer.      *)
THEOREM Invariant == Spec => []IInv
<1>1. Init => IInv
  <2> SUFFICES ASSUME Init PROVE IInv
    OBVIOUS
  <2> USE DEF Init
  <2>1. ControlTyped /\ BoundsTyped
    BY FetchAssumption DEF ControlTyped, BoundsTyped
  <2>2. FanoutTyped /\ ResultTyped /\ BreakerTyped
    BY NothingTyped, ReadsTyped, ResultsTyped DEF FanoutTyped, ResultTyped, BreakerTyped
  <2>3. StorageTyped
    BY DEF StorageTyped
  <2>4. TypeOK
    BY <2>1, <2>2, <2>3, TypesSplit
  <2>5. BreakersCount
    BY DEF BreakersCount, NewBreakers, Sources
  <2>6. FoundSays
    BY NothingSaid DEF FoundSays
  <2>7. ResultSays
    BY FailuresSay DEF ResultSays, FetchSays, NoResult
  <2>8. SnapshotSays
    BY DEF SnapshotSays, Announced
  <2>9. QED
    BY <2>4, <2>5, <2>6, <2>7, <2>8 DEF IInv
<1>2. IInv /\ [Next]_vars => IInv'
  BY TypesKept, BreakersCountKept, FoundSaysKept, ResultSaysKept, SnapshotSaysKept DEF IInv
<1>3. QED
  BY <1>1, <1>2, PTL DEF Spec

(* Type correctness: results, snapshots and breakers stay well-formed.     *)
THEOREM TypeCorrect == Spec => []TypeOK
<1>1. IInv => TypeOK
  BY DEF IInv
<1>2. QED
  BY <1>1, Invariant, PTL

(* A fetcher is refused a search only if searches of its own have raised,  *)
(* whatever became of its reads of the cluster (chain.py, source.py).      *)
THEOREM OutagesIsolated == Spec => []OutageIsolated
<1>1. IInv => OutageIsolated
  BY DEF IInv, BreakersCount, OutageIsolated, Refuses, NewBreaker
<1>2. QED
  BY <1>1, Invariant, PTL

-----------------------------------------------------------------------------
(* The refinement.                                                         *)
answerVars == <<AnswerLost, AnswerSaid, AnswerTold>>

LEMMA AnswersStay ==
    ASSUME \A f \in Fetchers : \/ UNCHANGED <<pc[f], result[f]>>
                               \/ pc[f] # "answered" /\ pc'[f] # "answered"
    PROVE  UNCHANGED answerVars
<1>1. ASSUME NEW f \in Fetchers
      PROVE  (Answered(f) <=> Answered(f)') /\ (Answered(f) => result'[f] = result[f])
  BY DEF Answered
<1>2. UNCHANGED AnswerLost
  BY <1>1 DEF AnswerLost
<1>3. UNCHANGED AnswerSaid
  BY <1>1 DEF AnswerSaid, Said
<1>4. UNCHANGED AnswerTold
  BY <1>1 DEF AnswerTold, Told
<1>5. QED
  BY <1>2, <1>3, <1>4 DEF answerVars

LEMMA ForgetAsks ==
    ASSUME TypeOK, NEW f \in Fetchers, Forget(f) PROVE Promise!Ask(f)
<1>1. \A g \in Fetchers \ {f} : pc'[g] = pc[g] /\ result'[g] = result[g]
  BY OthersStay
<1>2. pc'[f] = "idle"
  BY DEF Forget, Goto, TypeOK
<1>3. AnswerLost' = [AnswerLost EXCEPT ![f] = {}]
  BY <1>1, <1>2 DEF AnswerLost, Answered
<1>4. AnswerSaid' = [AnswerSaid EXCEPT ![f] = {}]
  BY <1>1, <1>2 DEF AnswerSaid, Answered, Said
<1>5. AnswerTold' = [AnswerTold EXCEPT ![f] = "none"]
  BY <1>1, <1>2 DEF AnswerTold, Answered, Told
<1>6. QED
  BY <1>3, <1>4, <1>5 DEF Promise!Ask

(* What an answer with or without logs lacks it says: what the source that *)
(* could look lacked, and the sources that were abandoned before it.       *)
LEMMA ReportedSays ==
    ASSUME TypeOK, ResultSays, NEW f \in Fetchers, pc[f] = "returned", Reported(f).ok
    PROVE  Announced(Reported(f).lost, Reported(f).gaps)
<1>1. result[f].ok /\ ~result[f].raised /\ Announced(result[f].lost, result[f].gaps)
  BY DEF Reported, TypeOK, Results, ResultSays, FetchSays
<1>2. Reported(f).lost = result[f].lost \cup When(abandoned[f] # {}, "source")
                         \cup When(\E a \in abandoned[f] : ~a.looked, "unlooked")
      /\ Reported(f).gaps = result[f].gaps \cup When(abandoned[f] # {}, "SOURCE_FALLBACK")
  BY <1>1 DEF Reported, TypeOK, Results
<1>3. QED
  BY <1>1, <1>2, Announcements DEF Announced, When

LEMMA AnswerTells ==
    ASSUME TypeOK, ResultSays, NEW f \in Fetchers, Answer(f) PROVE Promise!Tell(f)
<1>1. result' = [result EXCEPT ![f] = Reported(f)] /\ pc' = [pc EXCEPT ![f] = "answered"]
      /\ pc[f] = "returned"
  BY AnswerReports DEF Answer, Goto
<1>2. Reported(f) \in Results
  BY ReportedTyped
<1>3. TypeOK'
  BY TypesKept DEF Next, FetcherStep
<1>4. AnswerLost' \in [Fetchers -> SUBSET Losses]
  BY <1>3 DEF AnswerLost, TypeOK, Results
<1>5. AnswerSaid' \in [Fetchers -> SUBSET Losses]
  BY DEF AnswerSaid, Said
<1>6. AnswerTold' \in [Fetchers -> Promise!Outcomes]
  BY DEF AnswerTold, Told, Promise!Outcomes
<1>7. /\ AnswerLost'[f] = Reported(f).lost /\ AnswerSaid'[f] = Said(Reported(f))
      /\ AnswerTold'[f] = Told(Reported(f)) /\ AnswerTold[f] = "none"
  BY <1>1 DEF AnswerLost, AnswerSaid, AnswerTold, Answered, TypeOK, Said, Told
<1>8. AnswerTold'[f] \in {"found", "absent"} => Reported(f).ok
  BY <1>7 DEF Told
<1>9. ASSUME Reported(f).ok
      PROVE  /\ AnswerLost'[f] \ Silent \subseteq AnswerSaid'[f]
             /\ "everything" \notin AnswerLost'[f]
  <2>1. Announced(Reported(f).lost, Reported(f).gaps)
    BY <1>1, <1>9, ReportedSays
  <2>2. Reported(f).lost \in SUBSET Losses
    BY <1>2 DEF Results
  <2>3. Announcement("everything") = {} /\ "everything" \notin Silent
    BY DEF Announcement, Silent
  <2>4. QED
    BY <1>7, <2>1, <2>2, <2>3 DEF Announced, Said
<1>10. \A g \in Fetchers \ {f} : /\ AnswerLost'[g] = AnswerLost[g]
                                 /\ AnswerSaid'[g] = AnswerSaid[g]
                                 /\ AnswerTold'[g] = AnswerTold[g]
  BY <1>1 DEF AnswerLost, AnswerSaid, AnswerTold, Answered, TypeOK, Said, Told
<1>11. QED
  BY <1>4, <1>5, <1>6, <1>7, <1>8, <1>9, <1>10 DEF Promise!Tell, Promise!Keep

LEMMA StepsLookOrSay ==
    ASSUME TypeOK, ResultSays, [Next]_vars PROVE [Promise!Next]_answerVars
<1> USE AnswersStay DEF Promise!Next
<1>1. ASSUME NEW f \in Fetchers, NEW k \in Keys, StartFetch(f, k) PROVE [Promise!Next]_answerVars
  BY <1>1 DEF StartFetch, Goto, Return, At, Admitted, TypeOK
<1>2. ASSUME NEW f \in Fetchers, FailFast(f) PROVE [Promise!Next]_answerVars
  BY <1>2 DEF FailFast, Goto, Return, At, Admitted, TypeOK
<1>3. ASSUME NEW f \in Fetchers, ReuseSnapshot(f) PROVE [Promise!Next]_answerVars
  BY <1>3 DEF ReuseSnapshot, Goto, Return, At, Admitted, TypeOK
<1>4. ASSUME NEW f \in Fetchers, NEW d \in Discoveries, Discover(f, d)
      PROVE  [Promise!Next]_answerVars
  BY <1>4 DEF Discover, Goto, Return, At, Admitted, TypeOK
<1>5. ASSUME NEW f \in Fetchers, Conclude(f) PROVE [Promise!Next]_answerVars
  BY <1>5 DEF Conclude, Goto, Return, At, Admitted, TypeOK
<1>6. ASSUME NEW f \in Fetchers, SaveRecords(f) PROVE [Promise!Next]_answerVars
  BY <1>6 DEF SaveRecords, Goto, Return, At, Admitted, TypeOK
<1>7. ASSUME NEW f \in Fetchers, SaveMeta(f) PROVE [Promise!Next]_answerVars
  BY <1>7 DEF SaveMeta, Goto, Return, At, Admitted, TypeOK
<1>8. ASSUME NEW f \in Fetchers, Search(f) PROVE [Promise!Next]_answerVars
  BY <1>8 DEF Search, Goto, Return, At, Admitted, TypeOK
<1>9. ASSUME NEW f \in Fetchers, SearchRefused(f) PROVE [Promise!Next]_answerVars
  BY <1>9 DEF SearchRefused, Goto, Return, At, Admitted, TypeOK
<1>10. ASSUME NEW f \in Fetchers, NextSource(f) PROVE [Promise!Next]_answerVars
  BY <1>10 DEF NextSource, Goto, Return, At, Admitted, TypeOK
<1>11. ASSUME NEW f \in Fetchers, Answer(f) PROVE [Promise!Next]_answerVars
  BY <1>11, AnswerTells
<1>12. ASSUME NEW f \in Fetchers, Deliver(f) PROVE [Promise!Next]_answerVars
  BY <1>12, ForgetAsks DEF Deliver
<1>13. ASSUME NEW f \in Fetchers, NEW t \in Target, EndRead(f, t) PROVE [Promise!Next]_answerVars
  BY <1>13 DEF EndRead, ReadEnds
<1>14. ASSUME NEW f \in Fetchers, NEW t \in Target, ReadRaises(f, t) PROVE [Promise!Next]_answerVars
  BY <1>14 DEF ReadRaises, ReadEnds
<1>15. ASSUME NEW f \in Fetchers, NEW s \in Sources, BreakerResets(f, s)
       PROVE  [Promise!Next]_answerVars
  BY <1>15 DEF BreakerResets
<1>16. ASSUME NEW f \in Fetchers, FetchRaises(f) PROVE [Promise!Next]_answerVars
  BY <1>16 DEF FetchRaises, Goto, Return, At, Admitted, TypeOK
<1>17. ASSUME NEW f \in Fetchers, SaveFails(f) PROVE [Promise!Next]_answerVars
  BY <1>17 DEF SaveFails, Goto, Return, At, Admitted, TypeOK
<1>18. ASSUME NEW f \in Fetchers, SearchRaises(f) PROVE [Promise!Next]_answerVars
  BY <1>18 DEF SearchRaises, Goto, Return, At, Admitted, TypeOK
<1>19. ASSUME NEW f \in Fetchers, Crash(f) PROVE [Promise!Next]_answerVars
  BY <1>19, ForgetAsks DEF Crash
<1>20. CASE UNCHANGED vars
  BY <1>20 DEF vars
<1>21. QED
  BY <1>1, <1>2, <1>3, <1>4, <1>5, <1>6, <1>7, <1>8, <1>9, <1>10, <1>11, <1>12, <1>13, <1>14,
     <1>15, <1>16, <1>17, <1>18, <1>19, <1>20 DEF Next, FetcherStep

(* Every answer is one the abstract fetch may give: a source whose reads   *)
(* all failed answers none, and one that answers announces its losses, the *)
(* sources that could not look before it included, those of Silent         *)
(* excepted (fetch_with_fallback).                                         *)
THEOREM AnswersLookOrSay == Spec => LooksOrSays
<1>1. Init => Promise!Init
  BY DEF Init, Promise!Init, AnswerLost, AnswerSaid, AnswerTold, Answered
<1>2. IInv /\ [Next]_vars => [Promise!Next]_answerVars
  BY StepsLookOrSay DEF IInv
<1>3. QED
  BY <1>1, <1>2, Invariant, PTL DEF Spec, LooksOrSays, Promise!Spec, answerVars


-----------------------------------------------------------------------------
(* Fetches get shorter.                                                    *)
Shorter(f) == StepsLeft(f)' \in 0 .. StepsLeft(f) - 1

(* Every place of a fetch has steps left, 5 for each source still to try.  *)
LEMMA StepsCounted ==
    ASSUME TypeOK, NEW f \in Fetchers, pc[f] # "idle"
    PROVE  /\ Len(chain[f]) \in Nat \ {0}
           /\ StepsLeft(f) \in Nat \ {0} /\ StepsLeft(f) <= 5 * Len(chain[f]) + 1
<1>1. chain[f] \in Seq(Sources) /\ chain[f] # <<>>
      /\ pc[f] \in {"source", "reading", "saving", "savingMeta", "returned", "answered"}
  BY DEF TypeOK
<1>2. Len(chain[f]) \in Nat \ {0}
  BY <1>1, EmptySeq, LenProperties
<1>3. QED
  BY <1>1, <1>2 DEF StepsLeft, StepsOn

(* Onward within a source, or to the answer, or to the end.                *)
LEMMA OnwardShortens ==
    ASSUME TypeOK, NEW f \in Fetchers, pc[f] # "idle", chain'[f] = chain[f],
           \/ pc[f] = "source" /\ pc'[f] \in {"reading", "returned"}
           \/ pc[f] = "reading" /\ pc'[f] \in {"saving", "returned"}
           \/ pc[f] = "saving" /\ pc'[f] \in {"savingMeta", "returned"}
           \/ pc[f] = "savingMeta" /\ pc'[f] = "returned"
           \/ pc[f] = "returned" /\ pc'[f] = "answered"
    PROVE  Shorter(f)
<1> DEFINE more == 5 * (Len(chain[f]) - 1)
<1>1. more \in Nat
  BY StepsCounted
<1>2. /\ StepsLeft(f) = StepsOn(f) + more
      /\ StepsLeft(f)' = IF pc'[f] = "answered" THEN StepsOn(f)' ELSE StepsOn(f)' + more
  BY DEF StepsLeft
<1>3. StepsOn(f) \in Nat /\ StepsOn(f)' \in Nat /\ StepsOn(f)' < StepsOn(f)
  BY DEF StepsOn
<1> HIDE DEF more
<1>4. QED
  BY <1>1, <1>2, <1>3 DEF Shorter

LEMMA EndShortens ==
    ASSUME TypeOK, NEW f \in Fetchers, pc[f] # "idle", pc'[f] = "idle"
    PROVE  Shorter(f)
<1>1. StepsLeft(f)' = 0
  BY DEF StepsLeft, StepsOn
<1>2. StepsLeft(f) \in Nat \ {0}
  BY StepsCounted
<1>3. QED
  BY <1>1, <1>2 DEF Shorter

LEMMA TailShortens ==
    ASSUME TypeOK, NEW f \in Fetchers, NextSource(f)
    PROVE  Shorter(f)
<1>1. /\ pc[f] = "returned" /\ pc'[f] = "source" /\ chain'[f] = Tail(chain[f])
      /\ Len(chain[f]) # 1 /\ chain[f] \in Seq(Sources) /\ chain[f] # <<>>
  BY DEF NextSource, Goto, IsLast, TypeOK
<1>2. Len(chain'[f]) = Len(chain[f]) - 1
  BY <1>1, HeadTailProperties
<1>3. Len(chain[f]) \in Nat \ {0, 1}
  BY <1>1, StepsCounted
<1>4. QED
  BY <1>1, <1>2, <1>3 DEF Shorter, StepsLeft, StepsOn

(* Every step of a fetcher shortens its fetch.                             *)
LEMMA StepShortens ==
    ASSUME TypeOK, NEW f \in Fetchers, FetcherStep(f)
    PROVE  Shorter(f)
<1> USE DEF TypeOK, Goto, Return, fetchVars
<1>1. CASE FailFast(f) \/ ReuseSnapshot(f) \/ Search(f) \/ SearchRefused(f)
  <2>1. pc[f] = "source" /\ pc'[f] = "returned" /\ chain'[f] = chain[f]
    BY <1>1 DEF FailFast, ReuseSnapshot, Search, SearchRefused, Admitted, At
  <2>2. QED
    BY <2>1, OnwardShortens
<1>2. ASSUME NEW d \in Discoveries, Discover(f, d) PROVE Shorter(f)
  <2>1. pc[f] = "source" /\ pc'[f] \in {"reading", "returned"} /\ chain'[f] = chain[f]
    BY <1>2 DEF Discover, Admitted, At
  <2>2. QED
    BY <2>1, OnwardShortens
<1>3. CASE Conclude(f)
  <2>1. pc[f] = "reading" /\ pc'[f] \in {"saving", "returned"} /\ chain'[f] = chain[f]
    BY <1>3 DEF Conclude
  <2>2. QED
    BY <2>1, OnwardShortens
<1>4. CASE SaveRecords(f) \/ SaveMeta(f)
  <2>1. /\ \/ pc[f] = "saving" /\ pc'[f] = "savingMeta"
           \/ pc[f] = "savingMeta" /\ pc'[f] = "returned"
        /\ chain'[f] = chain[f]
    BY <1>4 DEF SaveRecords, SaveMeta
  <2>2. QED
    BY <2>1, OnwardShortens
<1>5. CASE NextSource(f)
  BY <1>5, TailShortens
<1>6. CASE Answer(f)
  <2>1. pc[f] = "returned" /\ pc'[f] = "answered" /\ chain'[f] = chain[f]
    BY <1>6 DEF Answer
  <2>2. QED
    BY <2>1, OnwardShortens
<1>7. CASE Deliver(f)
  <2>1. pc[f] # "idle" /\ pc'[f] = "idle"
    BY <1>7 DEF Deliver, Forget
  <2>2. QED
    BY <2>1, EndShortens
<1>8. QED
  BY <1>1, <1>2, <1>3, <1>4, <1>5, <1>6, <1>7 DEF FetcherStep

(* What else happens to a fetch ends it, brings its source back, or leaves *)
(* it where it is.                                                         *)
LEMMA OthersShorten ==
    ASSUME TypeOK, [Next]_vars, NEW f \in Fetchers, pc[f] # "idle", ~FetcherStep(f)
    PROVE  UNCHANGED <<pc[f], chain[f]>> \/ Shorter(f)
<1> USE DEF TypeOK, Goto, Return, fetchVars
<1>1. ASSUME NEW g \in Fetchers, g # f,
             \/ \E k \in Keys : StartFetch(g, k)
             \/ FetcherStep(g)
             \/ FetchRaises(g) \/ SaveFails(g) \/ SearchRaises(g) \/ Crash(g)
      PROVE  UNCHANGED <<pc[f], chain[f]>>
  <2>1. CASE FetcherStep(g) /\ ~(NextSource(g) \/ Deliver(g))
    <3>1. UNCHANGED chain /\ \E to : pc' = [pc EXCEPT ![g] = to]
      BY <2>1 DEF FetcherStep, FailFast, ReuseSnapshot, Discover, Conclude, SaveRecords,
                  SaveMeta, Search, SearchRefused, Answer
    <3>2. QED
      BY <1>1, <3>1
  <2>2. CASE FetchRaises(g) \/ SaveFails(g) \/ SearchRaises(g)
    BY <1>1, <2>2 DEF FetchRaises, SaveFails, SearchRaises
  <2>3. CASE NextSource(g) \/ Deliver(g) \/ Crash(g) \/ \E k \in Keys : StartFetch(g, k)
    BY <1>1, <2>3 DEF NextSource, Deliver, Crash, Forget, StartFetch
  <2>4. QED
    BY <1>1, <2>1, <2>2, <2>3
<1>2. ASSUME NEW g \in Fetchers,
             \/ \E t \in Target : EndRead(g, t) \/ ReadRaises(g, t)
             \/ \E source \in Sources : BreakerResets(g, source)
      PROVE  UNCHANGED <<pc[f], chain[f]>>
  BY <1>2 DEF EndRead, ReadRaises, ReadEnds, BreakerResets
<1>3. ASSUME NEW k \in Keys, StartFetch(f, k) PROVE FALSE
  BY <1>3 DEF StartFetch
<1>4. CASE FetchRaises(f) \/ SearchRaises(f)
  <2>1. pc[f] = "source" /\ pc'[f] = "returned" /\ chain'[f] = chain[f]
    BY <1>4 DEF FetchRaises, SearchRaises, Admitted, At
  <2>2. QED
    BY <2>1, OnwardShortens
<1>5. CASE SaveFails(f)
  <2>1. pc[f] \in {"saving", "savingMeta"} /\ pc'[f] = "returned" /\ chain'[f] = chain[f]
    BY <1>5 DEF SaveFails
  <2>2. QED
    BY <2>1, OnwardShortens
<1>6. CASE Crash(f)
  <2>1. pc'[f] = "idle"
    BY <1>6 DEF Crash, Forget
  <2>2. QED
    BY <2>1, EndShortens
<1>7. CASE UNCHANGED vars
  BY <1>7 DEF vars
<1>8. QED
  BY <1>1, <1>2, <1>3, <1>4, <1>5, <1>6, <1>7 DEF Next

(* A fetch is at most five steps per source of its chain and one answer    *)
(* long, and every step of its fetcher leaves fewer, though reads hang,    *)
(* sources raise and saves fail: FetchesEnd needs of the scheduler only    *)
(* that the fetcher goes on.                                               *)
THEOREM FetchesGetShorter == Spec => FetchesShrink
<1> DEFINE A == \A f \in Fetchers : pc[f] # "idle" =>
                   \/ ~FetcherStep(f) /\ UNCHANGED <<pc[f], chain[f]>>
                   \/ StepsLeft(f)' \in 0 .. StepsLeft(f) - 1
<1>1. IInv /\ [Next]_vars => [A]_vars
  <2> SUFFICES ASSUME IInv, [Next]_vars, NEW f \in Fetchers, pc[f] # "idle"
               PROVE  (~FetcherStep(f) /\ UNCHANGED <<pc[f], chain[f]>>) \/ Shorter(f)
    BY DEF Shorter
  <2>1. CASE FetcherStep(f)
    BY <2>1, StepShortens DEF IInv
  <2>2. CASE ~FetcherStep(f)
    BY <2>2, OthersShorten DEF IInv
  <2>3. QED
    BY <2>1, <2>2
<1> HIDE DEF A
<1>2. Spec => [][A]_vars
  BY <1>1, Invariant, PTL DEF Spec
<1>3. QED
  BY <1>2 DEF FetchesShrink, A
=============================================================================
