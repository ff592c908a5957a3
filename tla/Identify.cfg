SPECIFICATION Spec
CHECK_DEADLOCK FALSE
CONSTANTS
  Pids = {p1, p2}
  Units <- MCUnits
  Apps <- MCApps
  Hierarchies = {"unified", "hybrid"}
  MaxProcesses = 2
  NoProcess = NoProcess
  NoInstance = NoInstance
INVARIANTS
  TypeOK
  NameIsTargets
  AnswerIsTrue
PROPERTIES
  LaunchedIsIdentified
