SPECIFICATION Spec
CONSTANTS
  w1 = w1
  w2 = w2
  w3 = w3
  NoWorker = NoWorker
  Worker <- TwoWorkers
  Margin = 2
  RedeemAttempts = 2
  Life = 3
  RefreshLife = 4
  MaxTime = 7
INVARIANTS
  IInv
  CarriesValidToken
  RefreshesOnlyDue
PROPERTIES
  RequestsEnd
