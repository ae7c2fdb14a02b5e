\* Two cached workers of one application when its code is deployed
CONSTANTS
  a1 = a1
  a2 = a2
  t1 = t1
  t2 = t2
  t3 = t3
  NoApp = NoApp
  NoTask = NoTask
  Apps = {a1}
  Tasks = {t1}
  AppOf <- MCAppOf
  Cacheable = {t1}
  Timed = {}
  ConcurrentLimit = 2
  MinIdleOption = 0
  CacheLimit = 2
  CachedIdleTTL = FALSE
  Heartbeat = FALSE
  Crashes = FALSE
  Deployed = {a1}
  MaxForks = 2
SPECIFICATION Spec
INVARIANTS
  DeployLeavesNoOldWorker
CHECK_DEADLOCK FALSE
