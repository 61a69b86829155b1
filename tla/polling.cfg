SPECIFICATION Spec
CONSTANTS
  MaxAttempts = 3
  OtherCodes = {102, 999}
  RetryAfters <- Headers
  PollingDelaySec = 2
  Second = 10
  DurationBound = 64
INVARIANTS
  ResultIsVerdict
  GivesUpLate
PROPERTIES
  AsksWithPauses
  Ends
  ConfirmsAtOnce
CHECK_DEADLOCK FALSE
