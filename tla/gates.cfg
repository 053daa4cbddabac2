SPECIFICATION Spec
CONSTANTS
  None = None
  Unreachable = Unreachable
  Broken = Broken
  Loop = Loop
  Worker = Worker
  WarmUp = WarmUp
  p1 = p1
  p2 = p2
  k1 = k1
  k2 = k2
  q1 = q1
  q2 = q2
  s1 = s1
  s2 = s2
  CacheLife = 2
  FetchLimit = 1
  Scenes <- TheScenes
  Period = 2
  MaxLock = 5
  SkewLimit = 2
INVARIANTS
  TypeOK
  NeverEarly
  OnlyEntitled
  RefusedWithReason
  
  
