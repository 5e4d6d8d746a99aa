CONSTANTS
  ann = ann
  bob = bob
  a1 = a1
  a2 = a2
  b1 = b1
  b2 = b2
  p = p
  q = q
  g1 = g1
  i1 = i1
  n1 = n1
  n2 = n2
  None = None
  Removed = Removed
  Browsers = {ann, bob}
  Addresses = {a1, a2, b1, b2}
  Owner <- TwoEach
  Unwelcome = {b2}
  Passwords = {p, q}
  Groups = {g1}
  Names = {n1, n2}
  Invites = {i1}
  MaxUses = 1
  MaxIds = 3
  MaxAttempts = 2
  Daily = 1
  CodeTTL = 1
  Horizon = 1
  MaxCalls = 3
SYMMETRY Symmetry
SPECIFICATION Spec
INVARIANTS  VerifierFollowsPassword
CHECK_DEADLOCK FALSE
