CONSTANTS
  t1 = t1
  t2 = t2
  u1 = u1
  s1 = s1
  n1 = n1
  p1 = p1
  p2 = p2
  p3 = p3
  Null = Null
  Tabs = {t1, t2}
  Users = {u1}
  Owner <- OneOwner
  Sessions = {s1}
  Nodes = {n1}
  Peers = {p1, p2, p3}
  MaxPresses = 2
  MaxMishaps = 1
  MaxWire = 1
SPECIFICATION BoardFairSpec
 
PROPERTIES FeedResumes LiveAppears
CHECK_DEADLOCK FALSE
