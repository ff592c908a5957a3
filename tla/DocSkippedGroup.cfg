SPECIFICATION Spec
CHECK_DEADLOCK FALSE
CONSTANTS
  Strings <- MCStrings
  Files <- LeftOutFiles
  Requested = {}
PROPERTIES
  SkippedGroupEnds
