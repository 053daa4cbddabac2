SPECIFICATION Spec
CONSTANTS
  core = core
  cli = cli
  e1 = e1
  e2 = e2
  f = f
  g = g
  d = d
  n = n
  None = None
  Out = Out
  Proc = {core, cli}
  Ext = {e1, e2}
  Runs <- TwoRuns
  Choices <- OneTree
  Passes <- Once
  Entry = {f, g, d, n}
  Dir = {d, n}
  Within <- Nested
  Prior = {}
  MaxCrashes = 0
  MaxStuck = 0
  MaxLost = 0
INVARIANTS
  RefusesOnlyOthers
CHECK_DEADLOCK FALSE
