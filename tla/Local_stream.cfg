SPECIFICATION FairSpec
CONSTANTS
  Names = {n1}
  MaxPubs = 2
  RecordCap = 1
  MaxLimit = 2
  MaxRestarts = 1
  None = None
  n1 = n1
INVARIANTS PermitsInStep OneOpenRow  FiledOnce HaltedStaysGone
PROPERTIES SweepSparesLive GhostsClose
