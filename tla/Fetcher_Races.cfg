SPECIFICATION FairSpec
CONSTANTS
  InitLog = 1
  MaxLog = 1
  MaxMoves = 1
  MaxCalls = 2
  MaxFaults = 1
  Faults = {"trim", "truncate", "lookup"}
  FetchMax = 2
  QueueMin = 2
  Policy = "earliest"
  Starts <- MCStarts
  Seeks <- MCOneSeek
  OneAtATime = FALSE
INVARIANTS
  NoStaleDelivery
PROPERTIES
  CaughtUp
CHECK_DEADLOCK FALSE
