SPECIFICATION Spec
CONSTANTS
  text1 = text1
  Replica = {w1, w2}
  Message = {text1}
  Reports <- OneText
  BatchLimit = 1
  MaxAttempts = 2
  MaxReports = 2
  MaxFaults = 2
  MaxCrashes = 1
  LostReplies = TRUE
INVARIANTS HandedOncePerQueueing CanceledIsUnsent
PROPERTIES HoldUntilRequeued ReviewFinishes
