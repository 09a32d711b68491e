SPECIFICATION ProcessFairSpec
CONSTANTS
  Producers = {"backfill", "tail"}
  MaxRows = 2
  MaxErrors = 1
  MaxCommits = 2
  MaxLost = 1
INVARIANTS
  CleanExit
  EveryRowOnce
  ProducerOrderKept
CHECK_DEADLOCK FALSE
PROPERTIES
  ShutdownEnds
  AcceptedIsDelivered
