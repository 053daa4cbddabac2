SPECIFICATION Spec
CONSTANTS
  core = core
  cli = cli
  Proc = {core, cli}
  MaxEvents = 4
  MaxLoads = 3
  MaxCrashes = 1
SYMMETRY Symmetry
INVARIANTS
  FileChains
  
CHECK_DEADLOCK FALSE
