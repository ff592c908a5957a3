\* One MIME type and one application.
CONSTANTS
  Types = {t1}
  Apps = {a1}
  CacheTypes <- NoCaches
  None = None
  NoApps = NoApps
  Absent = Absent
  Garbage = Garbage
  NoConfig = NoConfig
SPECIFICATION FairSpec
INVARIANTS
  TypeOK
  FollowsFile
  WatchKept
PROPERTIES
  EditSeen
