SPECIFICATION FairSpec
CONSTANTS
  e1 = e1
  e2 = e2
  e3 = e3
  NoExt = NoExt
  Ext <- OneExt
  MaxId = 1
  MaxVersion = 1
  MaxRef = 1
  Max_retries = 0
  SenderBatchSize = 1
  SenderWorkerLimit = 1
  DbErrors = FALSE
  Callbacks <- AnyCallback
PROPERTIES
  RetryIsTried
