SPECIFICATION FairSpec
CONSTANTS
  p1 = p1
  b1 = b1
  None = None
  SeqSpace = 64
  Window = 2
  Partitions = {p1}
  Brokers = {b1}
  MaxMsgs = 4
  MaxRetries = 2
  BatchMax = 2
  OutbufsMax = 2
  MaxInflight = 2
  EpochSpace = 16
  Gapless = TRUE
  Faults = {"disconnect", "expire", "permanent", "append", "replicas"}
  MaxFaults = 2
INVARIANTS
  HonestReports
  LogOrder
  InflightBound
  GaplessOrFatal
PROPERTIES
  AllReported
CHECK_DEADLOCK FALSE
