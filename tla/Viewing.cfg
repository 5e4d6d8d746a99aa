CONSTANTS
  s1 = s1
  s2 = s2
  None = None
  Streams = {s1, s2}
  First = s1
  Emails = {s1}
  MayWatch = {s1, s2}
  Cap = 1
  MaxCalls = 1
  MaxFaults = 1
SPECIFICATION FairSpec
INVARIANT ViewingInv
PROPERTIES TwinsEnd RestsClean ErrorIsFinal PlayerSettles
CHECK_DEADLOCK FALSE
