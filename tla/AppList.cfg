SPECIFICATION Spec
CONSTANTS
  b1 = b1
  b2 = b2
  Ids = {a1}
  Bodies = {b1, b2}
  AppFiles <- MCAppFiles
  AutoFiles <- MCAutoFiles
  NoFile = NoFile
  BadFile = BadFile
  NoSource = NoSource
  NoEntry = NoEntry
  NotListed = NotListed
  MaxEdits = 2
  MaxFaults = 1
INVARIANTS
  TypeOK
  ListFollowsFiles
  AutoStartKept
PROPERTIES
  RecordsKept
  ListCatchesUp
CHECK_DEADLOCK FALSE
