SPECIFICATION Spec
CONSTANTS
  Events = {e1, e2}
  Contents = {c1}
  MaxEvents = 1
  MaxAttempts = 3
  RetryDelay = 1
  Lease = 2
  NotBefore = {0, 2}
  MaxTime = 5
INVARIANT InboxSound
PROPERTIES LiveClaimKept ImplementsExclusiveWork
CHECK_DEADLOCK FALSE
