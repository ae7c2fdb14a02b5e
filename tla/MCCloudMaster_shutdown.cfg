\* The master stops while a task waits for its worker to start
CONSTANTS
  a1 = a1
  a2 = a2
  t1 = t1
  t2 = t2
  t3 = t3
  NoApp = NoApp
  NoTask = NoTask
  Apps = {a1}
  Tasks = {t1}
  AppOf <- MCAppOf
  Cacheable = {t1}
  Timed = {}
  ConcurrentLimit = 2
  MinIdleOption = 0
  CacheLimit = 1
  CachedIdleTTL = FALSE
  Heartbeat = FALSE
  Crashes = FALSE
  Deployed = {}
  MaxForks = 2
  LowPriority = {}
  Malformed = {}
  Expirable = {}
  LowPriorityThreshold = 0
  RateLimited = FALSE
  AppRateLimit <- MCAppRateLimit
  Compression = FALSE
  GetterFailures = FALSE
SPECIFICATION MasterSpec
INVARIANTS
  StopCompletesTasks
CHECK_DEADLOCK FALSE
