SPECIFICATION Spec
CONSTANTS
  Ids = {i1}
  Procs = {p1, p2}
  MaxAttempts = 2
  Retry = 1
  Moments <- MCMoments
  MaxCrashes = 1
  MaxDisables = 1
INVARIANTS SingleRunner EnabledCanRun NoRunLost MonthlyAfterSuccess
PROPERTIES NoMonthSkipped
CHECK_DEADLOCK FALSE
