SPECIFICATION Spec
CONSTANTS
  Replica = {w1, w2}
  Job = {j1, j2}
  BatchLimit = 1
  SplitLimit = 1
  MaxFaults = 1
  MaxCrashes = 1
  MaxSlow = 1
INVARIANTS WorkedOncePerClaim BreakerCaps IngestedOnce
PROPERTIES JobsEnd
