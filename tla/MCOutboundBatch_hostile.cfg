SPECIFICATION SafeSpec
CONSTANTS
  b1 = b1
  b2 = b2
  r1 = r1
  r2 = r2
  r3 = r3
  Replica = {w1, w2}
  Recipient = {r1, r2}
  Batch = {b1}
  BatchOf <- TwoInOneBatch
  Unsendable = {r2}
  ReportsOf <- TextReports
  BatchLimit = 2
  Concurrency = 2
  MaxRounds = 1
  MaxAttempts = 2
  MaxFaults = 1
  MaxCrashes = 1
  MaxReclaims = 1
  LostReplies = TRUE
  SlowSends = TRUE
SYMMETRY Symmetric
INVARIANTS HandedOncePerClaim LinkedRowAgrees
PROPERTIES LedgerUntilFault
