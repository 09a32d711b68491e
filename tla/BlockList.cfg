SPECIFICATION FairSpec
CONSTANTS
  Clients = {a, b}
  MaxHeight = 3
  SafeLag = 0
  Damaged = {1}
  DefaultLimit = 1
  MaxLimit = 2
  RawLimits = {0, 3}
  MaxWalks = 2
  Tip = Tip
  None = None
INVARIANTS
  WalkExact
CHECK_DEADLOCK FALSE
PROPERTIES
  WalkEnds
