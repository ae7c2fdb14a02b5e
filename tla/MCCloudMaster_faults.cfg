\* Workers crash and are killed, getters fail, tasks are pushed back, code is
\* deployed; a task finds the cache full and evicts the process of the other
CONSTANTS
  a1 = a1
  a2 = a2
  t1 = t1
  t2 = t2
  t3 = t3
  NoApp = NoApp
  NoTask = NoTask
  Apps = {a1}
  Tasks = {t1, t2}
  AppOf <- MCAppOf
  Cacheable = {t1}
  Timed = {t1}
  ConcurrentLimit = 2
  MinIdleOption = 0
  CacheLimit = 1
  CachedIdleTTL = FALSE
  Heartbeat = TRUE
  Crashes = TRUE
  Deployed = {a1}
  MaxForks = 2
  LowPriority = {}
  Malformed = {}
  Expirable = {}
  LowPriorityThreshold = 0
  RateLimited = TRUE
  AppRateLimit <- MCAppRateLimit
  Compression = FALSE
  GetterFailures = TRUE
SPECIFICATION MasterSpec
INVARIANTS
  AtMostTwoAnswers
PROPERTIES
  ImplementsTaskService
CONSTRAINTS
  NoStop
  OneCrash
  DeployBeforeDeath
CHECK_DEADLOCK FALSE
