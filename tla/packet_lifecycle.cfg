CONSTANTS
  Calls = {c1, c2}
  PublishOutcomes = {"queued", "raised", "lost"}
  MaxRedeliveries <- MCAnalyzeRedelivers
  MaxApiStops = 1
  MaxSaveFaults = 1
  MaxClientTimeouts = 1
  c1 = c1
  c2 = c2
SPECIFICATION FairSpec
INVARIANT TypeOK
INVARIANT StatusHasCasebook
INVARIANT FilesAgree
INVARIANT OneUnlessRefetched
PROPERTY SettlesWhileUp
CHECK_DEADLOCK FALSE
