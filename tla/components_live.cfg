SPECIFICATION LiveSpec
CONSTANTS
  Jobs = {j1, j2}
  Batch = {b1, b2, b3}
  MaxWorkers = 2
  QueueFactor = 8
  Outcomes = {o1, o2, o3}
  Unverified = {o1}
  Orphaned = {o3}
  Processes = {p1, p2}
  Limit = 2
  MaxJobs = 2
  MaxSignals = 4
  MaxAborts = 1
  Routes <- EveryMode
  PhaseAttempts = 2
  MaxRepairs = 2
  MaxLives = 4
  Ids = {0, 1, 2, 3}
  Legacy = 0
  Installed = TRUE
  Procs = {q1}
  MaxAttempts = 2
  Retry = 1
  Moments <- MCMoments
  MaxCrashes = 1
  MaxDisables = 0
INVARIANTS OffloadSound LearningSound NothingSkipped CompletedIsTested
PROPERTIES BatchReturns JobsCompleted RunReturns ImplementsPhasedRun MaintenanceRuns ClaimsReleased
CHECK_DEADLOCK FALSE
