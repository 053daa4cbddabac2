SPECIFICATION Spec
CONSTANTS
  core = core
  cli = cli
  e1 = e1
  e2 = e2
  f = f
  g = g
  d = d
  n = n
  None = None
  Out = Out
  Proc = {core, cli}
  Ext = {e1, e2}
  Runs <- TwoRuns
  Choices <- AllChoices
  Passes <- Once
  Entry = {f, g, d, n}
  Dir = {d, n}
  Within <- Flat
  Prior <- GTaken
  MaxCrashes = 1
  MaxStuck = 1
  MaxLost = 1
INVARIANTS
  TypeOK
  NothingUnverified
  AllOrNothing
  UserFilesKept
  WorkKept
  PlaintextOnRecord
CHECK_DEADLOCK FALSE
