SPECIFICATION Spec
CONSTANTS
  c1 = c1
  c2 = c2
  n1 = n1
  n2 = n2
  u1 = u1
  u2 = u2
  Caller <- TheCallers
  Send = {s1}
  Text = {t1}
  Notice <- TheRecipients
  Refs <- TheRefs
  SizeOf <- Sizes
  Budget = 2
  Retries = 1
  MaxRows = 5
  MaxCalls = 2
  MaxTaps = 1
  MaxFaults = 2
  MaxReports = 1
SYMMETRY Symmetry
CHECK_DEADLOCK FALSE
INVARIANTS SentOnce QueuedIsHeld AnswersAreTrue SameForAll ClicksAttributed
