CONSTANTS
  None = None
  MaxConns = 2
  MaxNodeCalls = 2
  MaxAppCalls = 2
  MaxFaults = 1
  Faults <- NodeFaults
SPECIFICATION Spec
INVARIANTS RoutesInStep PendingOnOpen AnswersMatch
CHECK_DEADLOCK FALSE
