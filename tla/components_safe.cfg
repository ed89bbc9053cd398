SPECIFICATION SafeSpec
CONSTANTS
  Refs <- Restaged
  None = None
  Writers = {w1, w2}
  MaxReleases = 3
  MaxCrashes = 1
  Sources = {x1, x2}
  NoFile = NoFile
  Damaged = Damaged
  Engines = {w1, w2}
  MaxActivations = 4
  Builds = {"b1", "b2", "b3"}
  VersionOf <- Versions
  NoBuild = "no build"
  MaxInstalls = 4
  MaxInterruptions = 1
  Controllers = {w1, w2}
  MaxVersion = 3
  GoalIds = {x1, x2}
  NoGoal = NoGoal
  Managers = {w1, w2}
  MaxGoals = 2
  Campaigns = {w1, w2}
  EvidenceIds = {x1, x2}
  MinCanaries = 2
  Window = 3
  MaxTrials = 3
  Nodes = {1, 2, 3, 4}
  END = END
  Results = {"passed", "failed", "blocked"}
  Graphs = {}
  Teams <- AllTeams
  ReadOnly = {1, 2, 4}
  Steward = 0
  Workers = 2
  TimeoutSet = FALSE
  MaxSteps = 6
  MaxInvocations = 2
  MaxCancels = 0
  GraphCrashes = 1
  GraphNodes = {1, 2, 3}
  Dags <- AllDags
  MaxTotalAttempts = 4
  Engineers = {w1, w2}
  Families = {"fixes", "tests"}
  Findings = {x1, x2}
  Backlogs <- SmallBacklogs
  MaxIterations = 2
  MaxCalls = 2
  MaxMeddling = 1
  Runs = {x1, x2, x3}
  Contents <- Observations
  Dreamers = {w1, w2}
  MinRepeat = 2
  MaxRecorded = 3
  Hosts = {w1, w2}
  MaxSessionCalls = 2
SYMMETRY Interchangeable
INVARIANTS ActivationSound InstallationSound PoliciesSound GoalsSound LifecycleSound TeamSound OrchestrationSound EpisodeSound MemorySound SessionSound
PROPERTIES ReleaseSound
CHECK_DEADLOCK FALSE
