CONSTANTS
  n1 = n1
  e1 = e1
  s1 = s1
  s2 = s2
  None = None
  Local = Local
  Nodes = {n1}
  Events = {e1}
  Sessions = {s1, s2}
  MaxRows = 3
  MaxViews = 2
  MaxFaults = 1
SPECIFICATION FairSpec
 
PROPERTIES PartsStay 
CHECK_DEADLOCK FALSE
