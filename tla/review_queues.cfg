CONSTANTS
  Replays = {r1, r2, r3}
  Rules = {g1, g2}
  Legacy = {g0}
  Acceptable = {g0, g1}
  Operators = {o1, o2}
  Nobody = nobody
  AutoReplayed = {r3}
  MaxRuns = 3
  MaxFaults = 1
  MaxCommits = 2
SPECIFICATION Spec
INVARIANT TypeOK
INVARIANT NothingLost
INVARIANT ActedOnOnce
CHECK_DEADLOCK FALSE
SYMMETRY MCSymmetry
