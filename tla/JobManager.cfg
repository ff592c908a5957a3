\* Two jobs of up to two items: safety, and liveness under the fairness of the
\* thread pool and the event loop.
CONSTANTS
  Jobs = {j1, j2}
  MaxItems = 2
SPECIFICATION FairSpec
INVARIANTS
  TypeOK
  ExportedUntilRemoved
  RemovedJobIsDone
PROPERTIES
  KeepsContract
  UntouchedJobRemoved
\* a system whose jobs are all over may stop
CHECK_DEADLOCK FALSE
