SPECIFICATION FairSpec
CONSTANTS
  open1 = open1
  open2 = open2
  all = all
  some = some
  s1 = s1
  s2 = s2
  Loop = Loop
  None = None
  Job = {open1, open2, all, some}
  Stages <- TwoReads
  Opens <- TwoOpens
  Closer = {c1}
  Session = {s1, s2}
  MaxSessions = 1
  IdleLimit = 1
INVARIANTS
  TypeOK
  KeyKeptWhileReading
  RemovedMeansZeroed
  
PROPERTIES
  StoreCallsReturn
CHECK_DEADLOCK FALSE
