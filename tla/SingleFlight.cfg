SPECIFICATION GateSpec
CONSTANTS
  Callers = {c1, c2, c3}
  MaxTip = 3
INVARIANTS
  GateTypeOK
  MutualExclusion
  FreshestKept
