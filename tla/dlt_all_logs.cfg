CONSTANTS
  ClassBCeiling = 300
  UnverifiedCeiling = 500
  ContradictedCeiling = 600
  RegistryMissCeiling = 500
  GapCeiling = 600
  ReuseDecay = 95
  ReuseEnabled = TRUE
  CatalogClassifies = TRUE
  AutoReplayEnabled = TRUE
  ReplayActions = {"REDRIVE_AFTER_RECOVERY"}
  ReplayThreshold = 550
  Cases = {d1, d2}
  QueueCases = {q1, q2}
  Identified = {d1, d2}
  Calls = {k1, k2}
  TracedFailures <- MCTraced
  FetchedLogs <- MCAllLogs
  AgentFindings <- MCFindings
  MemberCap = 1
  NoId = NoId
  MaxEvents = 2
  d1 = d1
  d2 = d2
  q1 = q1
  q2 = q2
  k1 = k1
  k2 = k2
SPECIFICATION Spec
INVARIANT TypeOK
INVARIANT GroupCounts
INVARIANT ConfidenceBounded
INVARIANT CachedUndecayed
INVARIANT NeverReplayedBlind
INVARIANT ReplayedOnce
INVARIANT NothingForgotten
SYMMETRY Symmetric
CHECK_DEADLOCK FALSE
