SPECIFICATION Spec
CONSTANTS
  MaxHeight = 1
  Writers = {backfill, tail}
  MaxLagging = 1
  MaxForks = 1
  MaxRewinds = 1
  Kept = {1}
  None = None
INVARIANTS
  RowsExact
  TransfersExact
  DetailWhole
CHECK_DEADLOCK FALSE
