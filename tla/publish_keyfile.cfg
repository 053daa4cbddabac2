SPECIFICATION Spec
CONSTANTS
  core = core
  cli = cli
  a = a
  b = b
  old = old
  new = new
  None = None
  Proc = {core, cli}
  Op = {a, b}
  Runs <- TwoRuns
  Choices <- Keyfiles
  Passes <- CoreTwice
  Name = {old, new}
  Stored = {old}
  StoredSets = {}
  MaxCrashes = 1
  MaxStuck = 0
INVARIANTS
  KeyfilesIntact
CHECK_DEADLOCK FALSE
