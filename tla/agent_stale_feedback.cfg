CONSTANTS
  Deployments <- MCDeployments
  Confidences = {3, 9}
  RunbookActions = {"REPLAY", "invalid"}
  MaxRetries = 2
  MaxRuns = 2
  Threshold = 5
  Ceiling = 4
SPECIFICATION Spec
INVARIANT StartsFromScratch
CHECK_DEADLOCK FALSE
