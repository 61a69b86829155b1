SPECIFICATION Spec
CONSTANTS
  Nil = Nil
  MaxScale = 19
  Received <- AllFamilies
INVARIANTS
  NoNilDereference
  TotalsCarried
  PlnTaxIffForeign
  ClientDataCarried
  NoTypoAccepted
CHECK_DEADLOCK FALSE
