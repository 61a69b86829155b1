SPECIFICATION Spec
CONSTANTS
  Nil = Nil
  MaxScale = 19
  Received <- OneRate
INVARIANTS
  BalancedIsAccepted
CHECK_DEADLOCK FALSE
