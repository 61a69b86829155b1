SPECIFICATION FairSpec
CONSTANTS
  e1 = e1
  e2 = e2
  NoExt = NoExt
  Ext <- TwoExt
  MaxId = 3
  MaxVersion = 2
  MaxRef = 1
  WebhookRetries = 2
  BatchSize = 1
  MaxSeconds = 2
  PageSize = 1
  MaxInt = 8
  MaxPresses = 1
INVARIANTS
  NoOvertaking
  PagesPartition
PROPERTIES
  EveryDueIsTried
  RowsNeverHidden
CHECK_DEADLOCK FALSE
