SPECIFICATION FairSpec
CONSTANTS
  b1 = b1
  b2 = b2
  p1 = p1
  p2 = p2
  None = None
  Brokers = {b1, b2}
  Partitions = {p1, p2}
  Starts <- MCStarts
  Modes = {TRUE}
  MaxCommits = 2
  Faults = {"disconnect", "refuse", "gap", "move", "leave"}
  MaxFaults = 1
  Overlap = FALSE
INVARIANTS
  OneOpPerBroker
  AssertsHold
  AckConservation
  ToldTheTruth
  RequestAlive
PROPERTIES
  Settles
CHECK_DEADLOCK FALSE
