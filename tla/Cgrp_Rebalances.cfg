SPECIFICATION FairSpec
CONSTANTS
  p1 = p1
  p2 = p2
  None = None
  Parts <- MCParts
  Starts <- MCBoth
  Subscriptions <- MCSubscriptions
  Faults = {"disconnect", "session", "maxpoll", "evict", "peers", "topics"}
  MaxEvents = 3
INVARIANTS
  TypeOK
  AssertsHold
  RebalanceCallsSucceed
  SoleOwner
  InStep
PROPERTIES
  Settles
CHECK_DEADLOCK FALSE
