\* A timer kills a worker whose message is on its way
CONSTANTS
  a1 = a1
  a2 = a2
  t1 = t1
  t2 = t2
  t3 = t3
  NoApp = NoApp
  NoTask = NoTask
  Apps = {a1}
  Tasks = {t1}
  AppOf <- MCAppOf
  Cacheable = {t1}
  Timed = {t1}
  ConcurrentLimit = 2
  MinIdleOption = 0
  CacheLimit = 1
  CachedIdleTTL = FALSE
  Heartbeat = FALSE
  Crashes = FALSE
  Deployed = {}
  MaxForks = 2
SPECIFICATION Spec
INVARIANTS
  KilledWorkersStayOut
CHECK_DEADLOCK FALSE
