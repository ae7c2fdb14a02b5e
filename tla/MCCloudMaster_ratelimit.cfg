\* Two actions of one application, one of them allowed at a time
CONSTANTS
  a1 = a1
  a2 = a2
  t1 = t1
  t2 = t2
  t3 = t3
  NoApp = NoApp
  NoTask = NoTask
  Apps = {a1}
  Tasks = {t1, t3}
  AppOf <- MCAppOf
  Cacheable = {}
  Timed = {}
  ConcurrentLimit = 2
  MinIdleOption = 0
  CacheLimit = 1
  CachedIdleTTL = FALSE
  Heartbeat = FALSE
  Crashes = FALSE
  Deployed = {}
  MaxForks = 2
  LowPriority = {}
  Malformed = {}
  Expirable = {}
  LowPriorityThreshold = 0
  RateLimited = TRUE
  AppRateLimit <- MCAppRateLimit
  Compression = FALSE
  GetterFailures = FALSE
SPECIFICATION MasterSpec
INVARIANTS
  AppTasksWithinLimit
CHECK_DEADLOCK FALSE
