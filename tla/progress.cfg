SPECIFICATION FairSpec
CONSTANTS
  e1 = e1
  e2 = e2
  e3 = e3
  NoExt = NoExt
  Ext <- TwoExt
  MaxId = 2
  MaxVersion = 1
  MaxRef = 1
  Max_retries = 1
  SenderBatchSize = 2
  SenderWorkerLimit = 1
  DbErrors = FALSE
  Callbacks <- WithCallback
INVARIANTS
  WorkersBounded
PROPERTIES
  TicksEnd
  PendingIsTaken
  VerdictIsLearnt
