SPECIFICATION FairSpec
CONSTANTS
  MaxHeight = 2
  MaxForks = 1
  SafeLag = 0
  BatchSize = 2
  ProbeDepth = 1
  Damaged = {}
  IngestErrors = FALSE
PROPERTIES
  RewoundIsReingested
