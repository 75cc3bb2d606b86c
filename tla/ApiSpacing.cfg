CONSTANTS
  Threads = {t1, t2}
  None = None
  Interval = 2
  MaxRetries = 2
  Backoff <- MCBackoff
  MaxCalls = 1
  MaxBackends = 2
SPECIFICATION Spec
PROPERTIES
  RequestStartsSpaced
CHECK_DEADLOCK FALSE
