SPECIFICATION Spec
CONSTANTS
  p1 = p1
  p2 = p2
  None = None
  Parts <- MCParts
  Starts <- MCCooperative
  Subscriptions <- MCSubscriptions
  Faults = {}
  MaxEvents = 2
INVARIANTS
  LeftGroup
CHECK_DEADLOCK FALSE
