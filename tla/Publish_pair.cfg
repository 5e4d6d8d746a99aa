CONSTANTS
  c1 = c1
  c2 = c2
  n1 = n1
  e1 = e1
  None = None
  Conns = {c1, c2}
  Names = {n1}
  Events = {e1}
  NameOf <- OneName
  EventOf <- OneEvent
  LinkFaults <- Faults
  CrashFaults <- Faults
SYMMETRY ConnSymmetry
SPECIFICATION Spec
INVARIANTS AuthorisedBeforeOnAir SessionsTrackPublishes SoleStreamKickable 
PROPERTY ImplementsPublication
