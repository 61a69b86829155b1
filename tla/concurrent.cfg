SPECIFICATION Spec
CONSTANTS
  e1 = e1
  e2 = e2
  e3 = e3
  NoExt = NoExt
  Ext <- ThreeExt
  MaxId = 3
  MaxVersion = 1
  MaxRef = 2
  Max_retries = 0
  SenderBatchSize = 3
  SenderWorkerLimit = 2
  DbErrors = FALSE
  Callbacks <- NoCallback
SYMMETRY Symmetry
INVARIANTS
  IInv
  NoneStranded
