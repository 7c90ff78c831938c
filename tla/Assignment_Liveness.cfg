SPECIFICATION FairSpec
CONSTANTS
  p1 = p1
  p2 = p2
  Partitions = {p1, p2}
  LogEnd = 1
  StartOffsets <- NotGiven
  RetriesMax = 1
  MaxCalls = 2
  MaxCommits = 1
  MaxFaults = 1
  Features = {"down", "unstable", "others"}
PROPERTIES
  EventuallyServed
CHECK_DEADLOCK FALSE
