SPECIFICATION Spec
CONSTANTS
  Requests <- MCRequests
  Threads = {w1, w2}
  NoRequest = NoRequest
  Atoms <- MCAtoms
INVARIANTS
  RemoteSkipped
