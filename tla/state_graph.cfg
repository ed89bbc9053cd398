SPECIFICATION AnsweringSpec
CONSTANTS
  a = a
  b = b
  c = c
  d = d
  Nodes = {a, b, c, d}
  END = END
  Results = {"ok"}
  Graphs <- AllGraphs
  Workers = 2
  TimeoutSet = TRUE
  MaxSteps = 3
  MaxInvocations = 3
  MaxCancels = 1
  GraphCrashes = 1
INVARIANTS GraphSound
PROPERTIES ImplementsSupersteps InvocationEnds
CHECK_DEADLOCK FALSE
