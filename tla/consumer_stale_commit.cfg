CONSTANTS
  Members = {m1, m2}
  Partitions = {p1}
  LogEnd = 2
  Slots = {w1, w2}
  MaxPollRecords = 2
  Poison <- MCNone
  NotRejected <- MCNone
  DlqOutcomes = {"delivered"}
  CommitOutcomes = {"ok", "failed"}
  QuiescentRevoke = FALSE
  MaxStops = 0
  MaxRebalances = 1
  NoMember = NoMember
  NoJob = NoJob
  m1 = m1
  m2 = m2
  p1 = p1
  w1 = w1
  w2 = w2
SPECIFICATION Spec
INVARIANT NoLoss
