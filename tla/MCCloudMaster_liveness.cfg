\* Fair scheduling, nothing fails; two channels and a rate limit
CONSTANTS
  a1 = a1
  a2 = a2
  t1 = t1
  t2 = t2
  t3 = t3
  NoApp = NoApp
  NoTask = NoTask
  Apps = {a1}
  Tasks = {t1, t2}
  AppOf <- MCAppOf
  Cacheable = {t1, t2}
  Timed = {}
  ConcurrentLimit = 2
  MinIdleOption = 0
  CacheLimit = 1
  CachedIdleTTL = FALSE
  Heartbeat = FALSE
  Crashes = FALSE
  Deployed = {}
  MaxForks = 2
  LowPriority = {t2}
  Malformed = {}
  Expirable = {}
  LowPriorityThreshold = 100
  RateLimited = TRUE
  AppRateLimit <- MCAppRateLimit
  Compression = FALSE
  GetterFailures = FALSE
SPECIFICATION FairMasterSpec
INVARIANTS
  IntakeIsArmed
  SlotsMatchWaiters
  TasksAreKept
PROPERTIES
  EveryTaskIsAnswered
CHECK_DEADLOCK FALSE
