SPECIFICATION RegistryFairSpec
CONSTANTS
  Addrs = {a1, a2}
  Contracts = {a1}
  OldBlocks = 0
  BatchSize = 2
  DetectBatch = 1
  LastBlock = 2
  MaxFaults = 2
INVARIANTS
  FirstSeenExact
  LastSeenWithinBatch
PROPERTIES
  EventuallyClassified
