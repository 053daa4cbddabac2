SPECIFICATION Spec
CONSTANTS
  core = core
  cli = cli
  Proc = {core}
  MaxEvents = 2
  MaxLoads = 2
  MaxCrashes = 0
INVARIANTS
  SummaryVerified
CHECK_DEADLOCK FALSE
