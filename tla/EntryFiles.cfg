SPECIFICATION Spec
CHECK_DEADLOCK FALSE
CONSTANTS
  Strings <- MCStrings
  Files <- MCFiles
  Requested <- MCRequested
INVARIANTS
  TypeOK
  ReadsMeaning
  WrittenReads
PROPERTIES
  ReadingEnds
