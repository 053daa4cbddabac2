SPECIFICATION FairSpec
CONSTANTS
  r1 = r1
  r2 = r2
  r3 = r3
  Req = {r1, r2, r3}
  Kind <- ThreeKinds
  NoReq = NoReq
  MaxCancels = 1
  MaxSweeps = 0
  Faults = {"route", "value", "other", "create"}
  EarlyClient = FALSE
  MayShutDown = TRUE
INVARIANTS
  TypeOK
  WorkersSerialized
  WorkerWithinRequest
  CancelWins
  OnlyCancelStops
PROPERTIES
  StartedIsAnswered
  KeepsPromise
CHECK_DEADLOCK FALSE
