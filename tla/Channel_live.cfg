CONSTANTS
  None = None
  MaxConns = 5
  MaxNodeCalls = 1
  MaxAppCalls = 0
  MaxFaults = 1
  Faults <- AllFaults
SPECIFICATION FairSpec
PROPERTY ControlRestored
CHECK_DEADLOCK FALSE
