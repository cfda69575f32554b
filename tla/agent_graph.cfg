CONSTANTS
  Deployments <- MCDeployments
  Confidences = {3, 9}
  RunbookActions = {"REPLAY", "invalid"}
  MaxRetries = 2
  MaxRuns = 2
  Threshold = 5
  Ceiling = 4
SPECIFICATION FairSpec
INVARIANT TypeOK
INVARIANT EscalationEarned
INVARIANT OnlyApprovedWork
INVARIANT VerdictOfThisRun
INVARIANT PolicyHeld
INVARIANT ShadowTruthful
PROPERTY ReplaysApproved
PROPERTY RunsEnd
CHECK_DEADLOCK FALSE
