CONSTANTS
  Members = {m1, m2}
  Partitions = {p1}
  LogEnd = 2
  Slots = {w1, w2}
  MaxPollRecords = 2
  Poison <- MCPoison
  NotRejected <- MCNone
  DlqOutcomes = {"delivered", "dropped", "lost"}
  CommitOutcomes = {"ok", "failed"}
  QuiescentRevoke = FALSE
  MaxStops = 1
  MaxRebalances = 1
  NoMember = NoMember
  NoJob = NoJob
  m1 = m1
  m2 = m2
  p1 = p1
  w1 = w1
  w2 = w2
SPECIFICATION Spec
SYMMETRY MCMemberSymmetry
INVARIANT TypeOK
INVARIANT LossExplained
PROPERTY OnlyOwnerCommits
PROPERTY KeepsPromise
