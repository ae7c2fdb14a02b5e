\* The commands debug and deploy, with signals at every await
CONSTANTS
  p = p
  q = q
  r = r
  coderunner = coderunner
  SessionTTL = 4
  RenewalInterval = 3
  Packages = {p, q, r, coderunner}
  FileNames = {"main.js", "deploy.zip", "notes", "index.js"}
  ExcludeModules = {coderunner}
  Projects <- MCProjects
  Messages <- MCMessages
  PageSize = 2
  MaxLog = 3
SPECIFICATION FairCommandSpec
INVARIANTS
  CommandTypeOK
  LeaseHeld
  NoRenewalLeft
  KnownSessionIsUnregistered
  UploadIsAgreed
  ZipIsExact
  ReportIsTrue
PROPERTIES
  SessionLossIsNoticed
  SignalEndsRunner
  EndIsReported
CHECK_DEADLOCK FALSE
