SPECIFICATION ChatSpec
CONSTANTS
  Socket = {s1}
  Agent = {a1, a2}
  MaxPending = 2
  MaxTexts = 3
  MaxHandoffs = 2
  MaxCrashes = 1
CHECK_DEADLOCK FALSE
INVARIANTS TextsKept
PROPERTIES WaitingTransferSettles
