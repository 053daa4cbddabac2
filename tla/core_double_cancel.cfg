SPECIFICATION Spec
CONSTANTS
  r1 = r1
  r2 = r2
  r3 = r3
  Req = {r1, r2}
  Kind <- DecryptMutate
  NoReq = NoReq
  MaxCancels = 2
  MaxSweeps = 0
  Faults = {}
  EarlyClient = FALSE
  MayShutDown = FALSE
INVARIANTS
  WorkersSerialized
CHECK_DEADLOCK FALSE
