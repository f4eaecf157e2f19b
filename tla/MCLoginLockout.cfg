CONSTANTS
  Requests = {r1, r2, r3}
  MaxFailures = 2
  Window = 3
  MaxOpen = 1
SPECIFICATION Spec
INVARIANTS TypeOK CounterBounded ExpiryScheduled FailuresBounded
PROPERTIES LockoutEnds
CHECK_DEADLOCK FALSE
