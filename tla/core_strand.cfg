SPECIFICATION Spec
CONSTANTS
  r1 = r1
  r2 = r2
  r3 = r3
  Req = {r1, r2, r3}
  Kind <- OpenCapsuleExtract
  NoReq = NoReq
  MaxCancels = 1
  MaxSweeps = 1
  Faults <- AllFaults
  EarlyClient = TRUE
  MayShutDown = FALSE

  
PROPERTIES
  LivePreviewsKept
CHECK_DEADLOCK FALSE
