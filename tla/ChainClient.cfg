SPECIFICATION FairSpec
CONSTANTS
  Callers = {a, b}
  N = 2
  MaxAttempts = 3
  MaxCalls = 3
  MaxFlips = 1
INVARIANTS
  Balanced
  FailoverUnlessOvertaken
PROPERTIES
  RestCallsEnd
CHECK_DEADLOCK FALSE
