\* A project whose dependency has a dependency of its own in a nested directory
CONSTANTS
  p = p
  q = q
  r = r
  coderunner = coderunner
  SessionTTL = 4
  RenewalInterval = 3
  Packages = {p, q, r, coderunner}
  FileNames = {"main.js", "deploy.zip", "notes", "index.js"}
  ExcludeModules = {coderunner}
  Projects <- MCProjects
  Messages <- MCMessages
  PageSize = 2
  MaxLog = 3
SPECIFICATION CommandSpec
INVARIANTS
  DependenciesIncluded
CHECK_DEADLOCK FALSE
