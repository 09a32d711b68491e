SPECIFICATION FairSpec
CONSTANTS
  MaxHeight = 4
  SafeLag = 1
  BatchSize = 2
  Damaged = {2}
  Lagging = FALSE
  MaxFaults = 1
INVARIANTS
  TypeOK
  IndexExact
  SafeLagKept
  PushedOnce
PROPERTIES
  CursorMonotonic
  CatchesUp
  ImplementsIndexedChain
