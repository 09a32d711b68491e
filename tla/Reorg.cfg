SPECIFICATION Spec
CONSTANTS
  MaxHeight = 3
  MaxForks = 2
  SafeLag = 0
  BatchSize = 2
  ProbeDepth = 1
  Damaged = {0}
  IngestErrors = TRUE
INVARIANTS
  RewindJustified
  VerifiedDownToStop
