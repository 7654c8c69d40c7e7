SPECIFICATION Spec
CONSTANTS
  b1 = b1
  b2 = b2
  r1 = r1
  r2 = r2
  r3 = r3
  Replica = {w1}
  Recipient = {r1, r2, r3}
  Batch = {b1, b2}
  BatchOf <- TwoBatches
  Unsendable = {r3}
  ReportsOf <- EmailReports
  BatchLimit = 2
  Concurrency = 1
  MaxRounds = 2
  MaxAttempts = 2
  MaxFaults = 2
  MaxCrashes = 1
  MaxReclaims = 3
  LostReplies = FALSE
  SlowSends = FALSE
PROPERTIES KeepsLedgerSafely NobodyStranded
