CONSTANTS
  t1 = t1
  t2 = t2
  u1 = u1
  u2 = u2
  g1 = g1
  g2 = g2
  Null = Null
  Gone = Gone
  Tabs = {t1, t2}
  Users = {u1, u2}
  FormGroups = {g1, g2}
  Pages = {"config", "mail", "settings", "groups", "users", "home"}
  Values = {0, 1}
  MaxEdits = 2
  MaxSaves = 2
  MaxMoves = 1
  MaxEvents = 1
SYMMETRY Symmetry
SPECIFICATION ConsoleSpec
INVARIANT ConsoleInv
PROPERTIES  NeverStranded SecretSurvives
CHECK_DEADLOCK FALSE
