SPECIFICATION Spec
CONSTANTS
  Callers <- Visitors
  PerMinute = 2
  Window = 4
  Second = 2
  MaxTime = 5
CHECK_DEADLOCK FALSE
INVARIANTS
  TypeOK
  DequeIsRecent
  QuotaHolds
  RetryAfterSuffices
  RefusedForOwnRequests
