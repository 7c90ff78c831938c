SPECIFICATION Spec
CONSTANTS
  InitLog = 2
  MaxLog = 3
  MaxMoves = 1
  MaxCalls = 3
  MaxFaults = 1
  Faults = {"trim", "truncate", "lookup", "refused", "lost"}
  FetchMax = 2
  QueueMin = 2
  Policy = "earliest"
  Starts <- MCStarts
  Seeks <- MCSeeks
  OneAtATime = TRUE
INVARIANTS
  TypeOK
  InPosition
CHECK_DEADLOCK FALSE
