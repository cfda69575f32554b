---------------------------- MODULE PodDiscovery ----------------------------
(* Which pods a fetch reads: src/log_pipeline/sources/k8s/discovery.py.    *)
(* Every configured service is searched in its namespace, its pods are     *)
(* capped, and the services' pods are merged round-robin under a cap on    *)
(* the total.                                                              *)
EXTENDS Integers, FiniteSets, Sequences, SequencesExt

CONSTANTS
    Pods, Containers,
    AppNames,      \* services, in the order configured
    NamespaceOf,   \* namespace each service resolves to
    Matches,       \* pods in that namespace that each service's spec matches
    ByRecency,     \* the pods, the most recently started first
    ContainersOf,  \* containers of each pod
    Sidecars,      \* K8S_SIDECAR_DENYLIST
    MaxPods,       \* K8S_MAX_PODS, per service
    MaxTotalPods   \* K8S_MAX_TOTAL_PODS, 0 for none

When(condition, gap) == IF condition THEN {gap} ELSE {}

Services   == ToSet(AppNames)
Namespaces == {NamespaceOf[s] : s \in Services}

ASSUME DiscoveryAssumption ==
    /\ IsFiniteSet(Pods)
    /\ AppNames \in Seq(Services) /\ IsInjective(AppNames)
    /\ ByRecency \in Seq(Pods) /\ IsInjective(ByRecency) /\ ToSet(ByRecency) = Pods
    /\ Matches \in [Services -> SUBSET Pods]
    /\ ContainersOf \in [Pods -> (SUBSET Containers) \ {{}}]
    /\ MaxPods \in Nat \ {0} /\ MaxTotalPods \in Nat

GapTypes == {"LOG_ROTATION", "POD_REPLACED", "TRUNCATED", "POD_VANISHED",
             "SOURCE_FALLBACK", "SERVICE_UNAVAILABLE"}

(* Ways to return less than was asked for: a service that is not searched, *)
(* pods over a cap, a log cut at its byte cap, with the reader noticing    *)
(* ("bytes") or not ("cut"), or rotated away, reads after the deadline, a  *)
(* pod gone, a read failed or all of them, a container's previous          *)
(* instance, hits over the cap, a source tried in vain, one that could not *)
(* look, and the losses of a capture whose metadata is not its own.        *)
Losses == {"service", "pods", "bytes", "cut", "rotated", "deadline", "vanished", "failed",
           "everything", "previous", "documents", "source", "unlooked", "metadata"}

(* One (pod, container) pair to read.                                      *)
Target == Pods \X Containers

(* The sidecars are dropped, unless that would drop every container.       *)
SelectContainers(pod) ==
    LET kept == ContainersOf[pod] \ Sidecars
    IN  IF kept = {} THEN ContainersOf[pod] ELSE kept

TargetsOf(pods) == {t \in Target : t[1] \in pods /\ t[2] \in SelectContainers(t[1])}

(* A cluster answers: the pods it lists (pending ones have no log and are  *)
(* skipped), the namespaces it does not let us read, and the services      *)
(* whose pod list fails.  A namespace is verified once for all services.   *)
AllClusters == [listed : SUBSET Pods, closed : SUBSET Namespaces, unlistable : SUBSET Services]

Searched(cluster) == {s \in Services : NamespaceOf[s] \notin cluster.closed
                                       /\ s \notin cluster.unlistable}

(* A service's eligible pods, and the most recent of them.                 *)
AtOrBefore(seq, x, y) == \E i, j \in DOMAIN seq : i <= j /\ seq[i] = x /\ seq[j] = y
Eligible(cluster, s) == cluster.listed \cap Matches[s]
Place(pods, p)       == Cardinality({q \in pods : AtOrBefore(ByRecency, q, p)})
Capped(pods)         == {p \in pods : Place(pods, p) <= MaxPods}
Taken(cluster, s)    == Capped(Eligible(cluster, s))

(* The round-robin visits the services' first pods, then their second      *)
(* pods, and so on; a pod counts at its first turn, and the total cap lets *)
(* that many distinct pods in.                                             *)
Listed(cluster) == UNION {Taken(cluster, s) : s \in Searched(cluster)}
Turns(cluster, p) ==
    {<<Place(Eligible(cluster, s), p), s>> :
        s \in {u \in Searched(cluster) : p \in Taken(cluster, u)}}
Precedes(t, u) == t[1] < u[1] \/ (t[1] = u[1] /\ t # u /\ AtOrBefore(AppNames, t[2], u[2]))
IsBefore(cluster, q, p) ==
    \E t \in Turns(cluster, q) : \A u \in Turns(cluster, p) : Precedes(t, u)
MergeRoundRobin(cluster) ==
    {p \in Listed(cluster) :
        \/ MaxTotalPods = 0
        \/ Cardinality({q \in Listed(cluster) : IsBefore(cluster, q, p)}) < MaxTotalPods}

(* discover_targets: the pods to read, the gaps, and what is left out.     *)
Overfull(cluster) == {s \in Searched(cluster) : Cardinality(Eligible(cluster, s)) > MaxPods}
LeftOut(cluster)  == (UNION {Eligible(cluster, s) : s \in Searched(cluster)})
                     \ MergeRoundRobin(cluster)
DiscoveryGaps(cluster) ==
    When(Searched(cluster) # Services, "SERVICE_UNAVAILABLE") \cup
    When(Overfull(cluster) # {} \/ MergeRoundRobin(cluster) # Listed(cluster), "TRUNCATED")
DiscoveryLosses(cluster) ==
    When(Searched(cluster) # Services, "service") \cup When(LeftOut(cluster) # {}, "pods")

DiscoveryResult == [ok : BOOLEAN, targets : SUBSET Target, gaps : SUBSET GapTypes,
                    losses : SUBSET Losses]
DiscoverTargets(cluster) ==
    [ok      |-> Searched(cluster) # {},
     targets |-> TargetsOf(MergeRoundRobin(cluster)),
     gaps    |-> DiscoveryGaps(cluster),
     losses  |-> DiscoveryLosses(cluster)]
=============================================================================
