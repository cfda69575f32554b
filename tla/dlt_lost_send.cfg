CONSTANTS
  ClassBCeiling = 300
  UnverifiedCeiling = 500
  ContradictedCeiling = 600
  RegistryMissCeiling = 500
  GapCeiling = 600
  ReuseDecay = 95
  ReuseEnabled = TRUE
  CatalogClassifies = TRUE
  AutoReplayEnabled = TRUE
  ReplayActions = {"REDRIVE_AFTER_RECOVERY"}
  ReplayThreshold = 550
  Cases = {d1}
  QueueCases = {q1}
  Identified = {d1}
  Calls = {k1}
  TracedFailures <- MCTraced
  FetchedLogs <- MCLogs
  AgentFindings <- MCFindings
  MemberCap = 1
  NoId = NoId
  MaxEvents = 1
  d1 = d1
  d2 = d1
  q1 = q1
  q2 = q1
  k1 = k1
  k2 = k1
SPECIFICATION Spec
INVARIANT NotSilentlyDropped
CHECK_DEADLOCK FALSE
