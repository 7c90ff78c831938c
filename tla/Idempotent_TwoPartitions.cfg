SPECIFICATION Spec
CONSTANTS
  p1 = p1
  p2 = p2
  b1 = b1
  None = None
  SeqSpace = 64
  Window = 5
  Partitions = {p1, p2}
  Brokers = {b1}
  MaxMsgs = 2
  MaxRetries = 2
  BatchMax = 2
  OutbufsMax = 1
  MaxInflight = 5
  EpochSpace = 16
  Gapless = FALSE
  Faults = {"expire", "permanent", "purge", "replicas", "forget", "initpid", "initpid_fatal"}
  MaxFaults = 2
SYMMETRY Symmetry
INVARIANTS
  InflightAccounting
PROPERTIES
  RenumberWhenDrained
  ImplementsExactlyOnce
CHECK_DEADLOCK FALSE
