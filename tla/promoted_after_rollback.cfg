SPECIFICATION LifecycleSpec
CONSTANTS
  Campaigns = {p1}
  EvidenceIds = {x1, x2}
  MinCanaries = 2
  Window = 8
  MaxTrials = 8
INVARIANT RolledBackStays
