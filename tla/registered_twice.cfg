SPECIFICATION MaintenanceSpec
CONSTANTS
  Ids = {0, 1, 2, 3}
  Legacy = 0
  Installed = FALSE
  Procs = {p1}
  MaxAttempts = 2
  Retry = 1
  Moments <- MCMoments
  MaxCrashes = 0
  MaxDisables = 0
INVARIANT RegisteredOnce
CHECK_DEADLOCK FALSE
