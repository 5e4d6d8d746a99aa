CONSTANTS
  e1 = e1
  e2 = e2
  k1 = k1
  k2 = k2
  g1 = g1
  s1 = s1
  s2 = s2
  None = None
  Keep = Keep
  Events = {e1, e2}
  Keys = {k1, k2}
  Groups = {g1}
  Students = {s1, s2}
  Names = 2
  Bodies <- SomeBodies
  Patches <- SomePatches
  Horizon = 2
  MaxCalls = 4
SPECIFICATION FairSpec
INVARIANTS CatalogInv TokensStayPersonal
PROPERTY WindowsRun
CHECK_DEADLOCK FALSE
