\* Two channels, slots given back early, with outdated and unreadable tasks,
\* compressed results and the stop
CONSTANTS
  a1 = a1
  a2 = a2
  t1 = t1
  t2 = t2
  t3 = t3
  NoApp = NoApp
  NoTask = NoTask
  Apps = {a1, a2}
  Tasks = {t1, t2, t3}
  AppOf <- MCAppOf
  Cacheable = {t1, t2, t3}
  Timed = {}
  ConcurrentLimit = 3
  MinIdleOption = 0
  CacheLimit = 1
  CachedIdleTTL = TRUE
  Heartbeat = FALSE
  Crashes = FALSE
  Deployed = {}
  MaxForks = 2
  LowPriority = {t3}
  Malformed = {t2}
  Expirable = {t1}
  LowPriorityThreshold = 100
  RateLimited = FALSE
  AppRateLimit <- MCAppRateLimit
  Compression = TRUE
  GetterFailures = FALSE
SPECIFICATION MasterSpec
INVARIANTS
  MasterTypeOK
  IntakeIsArmed
  SlotsMatchWaiters
  TasksAreKept
  AtMostTwoAnswers
PROPERTIES
  IdleMeansAnswered
CHECK_DEADLOCK FALSE
