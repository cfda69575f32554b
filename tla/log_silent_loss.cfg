CONSTANTS
  Fetchers = {f1}
  Keys = {k1}
  Pods = {p1, p2}
  Containers = {app, proxy}
  AppNames <- MCAppNames
  NamespaceOf <- MCNamespaceOf
  Matches <- MCMatches
  ByRecency <- MCByRecency
  ContainersOf <- MCContainersOf
  Sidecars = {proxy}
  MaxPods = 1
  MaxTotalPods = 2
  MaxAttempts = 2
  FailMax = 1
  Chains <- MCKubernetes
  Clusters <- MCClusters
  Mentions <- MCMentions
  Restarted <- MCRestarted
  Rotated <- MCNone
  NewPods = {p1}
  Replies = {200, 404, 503}
  Oversized <- MCOversized
  MaxDocuments = 2
  ReuseEnabled = TRUE
  NoKey = NoKey
  NoFetcher = NoFetcher
  MaxFetches = 2
  MaxFaults = 0
  f1 = f1
  f2 = f2
  k1 = k1
  p1 = p1
  p2 = p2
  app = app
  proxy = proxy
SPECIFICATION Spec
INVARIANT IncompleteIsAnnounced
CHECK_DEADLOCK FALSE
