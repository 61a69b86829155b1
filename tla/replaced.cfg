SPECIFICATION Spec
CONSTANTS
  e1 = e1
  e2 = e2
  e3 = e3
  NoExt = NoExt
  Ext <- OneExt
  MaxId = 2
  MaxVersion = 2
  MaxRef = 2
  Max_retries = 1
  SenderBatchSize = 2
  SenderWorkerLimit = 1
  DbErrors = TRUE
  Callbacks <- AnyCallback
INVARIANTS
  TypeOK
  CopyIsCurrent
  ReferencesFitStatus
  ReferencesOwned
  SentIsAccepted
  EventsConsistent
  DeliveredIsReceived
PROPERTIES
  RetriesCounted
  CallbacksLimited
  NoResubmission
  KeepsPromise
