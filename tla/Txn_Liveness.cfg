SPECIFICATION FairSpec
CONSTANTS
  p1 = p1
  Partitions = {p1}
  MaxTxns = 1
  MaxSends = 1
  TimeoutPhases = {"init", "flush"}
  MaxTimeouts = 1
  Stalls = FALSE
  MaxFaults = 1
  Faults = {"disconnect", "coord", "load", "bump", "perm", "find", "find_auth", "expire", "msg_perm", "msg_bump", "msg_lost", "msg_timeout"}
PROPERTIES
  CallsReturn
CHECK_DEADLOCK FALSE
