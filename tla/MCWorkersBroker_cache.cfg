\* Two applications share two processes, one started ahead, and a cache of one;
\* timers, heartbeats, deaths, a deployment and the stop of the broker
CONSTANTS
  a1 = a1
  a2 = a2
  t1 = t1
  t2 = t2
  t3 = t3
  NoApp = NoApp
  NoTask = NoTask
  Apps = {a1, a2}
  Tasks = {t1, t2, t3}
  AppOf <- MCAppOf
  Cacheable = {t1, t2}
  Timed = {t1}
  ConcurrentLimit = 2
  MinIdleOption = 1
  CacheLimit = 1
  CachedIdleTTL = TRUE
  Heartbeat = TRUE
  Crashes = TRUE
  Deployed = {a1}
  MaxForks = 2
SPECIFICATION Spec
INVARIANTS
  TypeOK
  PoolsMatchPlaces
  AppsLoadIsExact
  OneAppPerProcess
  AnswersMatchTask
  TimerBelongsToTask
PROPERTIES
  MarkedNeverRecached
  FreshOrOwnCache
  ReusedOnlyIfKept
CONSTRAINTS
  OneDeath
CHECK_DEADLOCK FALSE
