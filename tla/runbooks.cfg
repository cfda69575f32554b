CONSTANTS
  Servers = {s1}
  Types = {"E"}
  AnyType = "ANY"
  Rows = {row1, row2}
  AppliesTo <- MCAppliesTo
  Rules <- MCRules
  TTL = 2
  MaxDrafts = 2
  MaxEdits = 1
  MaxRuns = 2
  MaxFaults = 1
  MaxCommits = 1
  row1 = row1
  row2 = row2
SPECIFICATION Spec
INVARIANT TypeOK
INVARIANT OnlyReviewedServed
INVARIANT StaleForLessThanTTL
CHECK_DEADLOCK FALSE
