SPECIFICATION TailFairSpec
CONSTANTS
  MaxHeight = 2
  SafeLag = 0
  BatchSize = 1
  Damaged = {}
  Lagging = FALSE
  MaxFaults = 1
PROPERTIES
  StashPickedUp
