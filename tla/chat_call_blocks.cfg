SPECIFICATION ChatSpec
CONSTANTS
  Events = {e1}
  Contents = {c1}
  Callers = {t1, t2}
  Pool = {p1, p2}
  Closer = closer
  Nobody = nobody
  MaxCalls = 2
  MaxEvents = 2
  MaxAttempts = 2
  RetryDelay = 1
  Lease = 1
  NotBefore = {}
  MaxTime = 1
PROPERTY CallsReturn
CHECK_DEADLOCK FALSE
