SPECIFICATION Spec
CONSTANTS
  Caller <- TheCallers
  c1 = c1
  c2 = c2
  Phone <- ThePhones
  Email <- TheEmails
  Resident = {x1}
  NoValue = NoValue
  Asks <- TheAsks
  MaxRows = 3
  MaxCalls = 4
  p1 = p1
  p2 = p2
  e1 = e1
  e2 = e2
  x1 = x1
SYMMETRY Symmetry
CHECK_DEADLOCK FALSE
INVARIANTS ChainsEnd
PROPERTIES ErasedStays FindSettles ErasedTogether
