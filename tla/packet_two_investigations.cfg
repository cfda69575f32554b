CONSTANTS
  Calls = {c1, c2}
  PublishOutcomes = {"queued"}
  MaxRedeliveries <- MCBothRedeliver
  MaxApiStops = 0
  MaxSaveFaults = 0
  MaxClientTimeouts = 0
  c1 = c1
  c2 = c2
SPECIFICATION Spec
INVARIANT OneInvestigation
CHECK_DEADLOCK FALSE
