SPECIFICATION DeliverySpec
CONSTANTS
  Call = {w1, w2, w3}
  Threshold = 3
  MaxCalls = 7
  MaxCallFaults = 1
CHECK_DEADLOCK FALSE
SYMMETRY Symmetric
INVARIANTS NeverFlaggedEarly ToldOncePerStreak
