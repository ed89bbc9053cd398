SPECIFICATION HarnessSpec
CONSTANTS
  Routes <- OneImplementation
  PhaseAttempts = 2
  MaxRepairs = 2
  MaxLives = 3
INVARIANT ZeroMeansVerified
CHECK_DEADLOCK FALSE
