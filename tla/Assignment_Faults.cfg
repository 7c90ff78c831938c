SPECIFICATION Spec
CONSTANTS
  p1 = p1
  p2 = p2
  Partitions = {p1, p2}
  LogEnd = 2
  StartOffsets <- NotGiven
  RetriesMax = 1
  MaxCalls = 3
  MaxCommits = 0
  MaxFaults = 2
  Features = {"disconnect", "down", "part_err", "req_err", "stale_epoch", "commit_err", "expire"}
INVARIANTS
  TypeOK
  AssertsHold
  CommitAccounting
  AtLeastOnce
PROPERTIES
  ReadsOwnCommits
  CommitsAdvance
SYMMETRY AssignmentSymmetry
CHECK_DEADLOCK FALSE
