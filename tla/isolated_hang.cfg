SPECIFICATION GraphSpec
CONSTANTS
  a = a
  b = b
  c = c
  d = d
  Nodes = {a, b, c, d}
  END = END
  Results = {"ok"}
  Graphs <- IsolatingFork
  Workers = 2
  TimeoutSet = TRUE
  MaxSteps = 3
  MaxInvocations = 3
  MaxCancels = 1
  GraphCrashes = 1
PROPERTY InvocationEnds
CHECK_DEADLOCK FALSE
