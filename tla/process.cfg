SPECIFICATION FairSpec
CONSTANTS
  s1 = s1
  s2 = s2
  NoSession = NoSession
  Session <- TwoSessions
  Config <- Configs
  MaxBatch = 2
  MaxRequests = 1
  Second = 10
  DurationBound = 64
INVARIANTS
  CleanEnd
  EverySessionAccounted
  NeverPanics
PROPERTIES
  ClearedAfterUse
  StopsAfterSignal
