SPECIFICATION FairSpec
CONSTANTS
  FactoryCurves = {c1}
  OrphanCurves = {o1}
  Impostors = {x1}
  DeployBlock = 1
  ChunkSize = 1
  SafeLag = 0
  NonCurvesMax = 1
  MaxHeight = 2
  MaxLogs = 3
  MaxFaults = 2
INVARIANTS
  AggregatesMatchTrades
  PriceIsNewest
  ScannedIsStored
PROPERTIES
  TradesArrive
CHECK_DEADLOCK FALSE
