SPECIFICATION Spec
CONSTANTS
  core = core
  cli = cli
  a = a
  b = b
  old = old
  new = new
  None = None
  Proc = {core, cli}
  Op = {a, b}
  Runs <- TwoRuns
  Choices <- AllChoices
  Passes <- CoreTwice
  Name = {old, new}
  Stored = {old}
  StoredSets = {}
  MaxCrashes = 1
  MaxStuck = 1
INVARIANTS
  TypeOK
  PublishedOpens
  KeyfileBesideArchive
  LiveTempKept
  
  ReplacedKnowingly
CHECK_DEADLOCK FALSE
