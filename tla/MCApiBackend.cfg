CONSTANTS
  Threads = {t1, t2, t3}
  None = None
  Interval = 2
  MaxRetries = 2
  Backoff <- MCBackoff
  MaxCalls = 2
  MaxBackends = 2
SPECIFICATION Spec
INVARIANTS
  TypeOK
  WaitExact
PROPERTIES
  StartsSpaced
  CallEnds
CHECK_DEADLOCK FALSE
