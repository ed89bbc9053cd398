SPECIFICATION DispatchSpec
CONSTANTS
  Events = {1, 2}
  Contents = {"chat", "other"}
  KindOf <- MCKindOf
  PriorityOf <- MCPriorityOf
  ChatKind = "adaptive_runtime"
  Batchers = {b1}
  Chatters = {w1, w2}
  Limit = 1
  Deployments <- MCDeployments
  MaxEvents = 2
  MaxAttempts = 2
  RetryDelay = 1
  Lease = 1
  NotBefore = {}
  MaxTime = 2
  MaxCrashes = 1
PROPERTIES DispatchSound DispatchersUseInbox RetryableClaimsEnd PendingIsServed
CHECK_DEADLOCK FALSE
