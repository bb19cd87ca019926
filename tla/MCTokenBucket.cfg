SPECIFICATION Spec
CONSTANTS
  c1 = c1  c2 = c2  c3 = c3
  Checks = {c1, c2, c3}
  Capacity <- Limits
  Estimates = {1, 3}
  Window = 3
  Second = 2
  MaxLag = 6
  MaxClock = 6
CHECK_DEADLOCK FALSE
SYMMETRY Symmetry
INVARIANTS
  TypeOK
  QuotaHolds
  RetryAfterIsRight
  ChargedOnce
  ExpiryIsHarmless
