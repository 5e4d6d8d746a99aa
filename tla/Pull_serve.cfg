CONSTANTS
  r1 = r1
  None = None
  Requests <- One
  Segments = 2
  Chunks = 2
  MaxFails = 1
  MayLose <- SecondOnly
SPECIFICATION FairSpec
 
PROPERTY EveryRequestAnswered
CHECK_DEADLOCK FALSE
