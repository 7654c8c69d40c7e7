SPECIFICATION Spec
CONSTANTS
  c1 = c1
  c2 = c2
  Caller <- TheCallers
  Person = {p1, p2}
  Extra = {x1}
  MaxConvs = 4
  MaxTime = 4
  MaxCalls = 3
SYMMETRY Symmetry
CHECK_DEADLOCK FALSE
INVARIANTS ThreadsArePersonal ChainsEnd ShownOnce
PROPERTIES MergeKeeps SplitCuts
