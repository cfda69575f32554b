CONSTANTS
  Calls = {c1, c2}
  PublishOutcomes = {"queued"}
  MaxRedeliveries <- MCAnalyzeRedelivers
  MaxApiStops = 1
  MaxSaveFaults = 0
  MaxClientTimeouts = 0
  c1 = c1
  c2 = c2
SPECIFICATION FairSpec
PROPERTY AlwaysSettles
CHECK_DEADLOCK FALSE
