SPECIFICATION FairSpec
CONSTANTS
  p1 = p1
  b1 = b1
  b2 = b2
  None = None
  SeqSpace = 64
  Window = 5
  Partitions = {p1}
  Brokers = {b1, b2}
  MaxMsgs = 3
  MaxRetries = 2
  BatchMax = 2
  OutbufsMax = 1
  MaxInflight = 5
  EpochSpace = 2
  Gapless = FALSE
  Faults = {"move", "disconnect", "expire", "append", "replicas", "permanent", "purge"}
  MaxFaults = 1
INVARIANTS
  TypeOK
  MessageConservation
  NoFatalError
PROPERTIES
  ImplementsExactlyOnce
  AllReported
CHECK_DEADLOCK FALSE
