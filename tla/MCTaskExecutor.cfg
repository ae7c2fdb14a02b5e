\* One process, its tasks, and 121 programs
CONSTANTS
  f1 = f1
  f2 = f2
  lib = lib
  h1 = h1
  s1 = s1
  ty = ty
  t1 = t1
  t2 = t2
  t3 = t3
  t4 = t4
  Files = {f1, f2, lib}
  Listed <- MCListed
  Names = {h1, s1, ty}
  KindOf <- MCKindOf
  Scripts <- MCScripts
  NoFile = NoFile
  Tasks = {t1, t2, t3, t4}
  Target <- MCTarget
  NoName = NoName
  Async = {t1}
  Limited = {t1, t2}
  ShutdownTasks = {t4}
  SandboxedTasks = {t2}
  ResponseLimit = FALSE
  NoTask = NoTask
SPECIFICATION FairExecutorSpec
INVARIANTS
  ExecutorTypeOK
  ProvidersAreAuthors
  FailedModelIsNotReused
  AbandonedCodeRunsAlone
  RunsAsDeployed
  DeployedCodeIsFound
PROPERTIES
  LimitedTaskEnds
CHECK_DEADLOCK FALSE
