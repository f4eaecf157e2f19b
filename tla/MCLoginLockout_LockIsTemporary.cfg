CONSTANTS
  Requests = {r1}
  MaxFailures = 2
  Window = 3
  MaxOpen = 0
SPECIFICATION Spec
PROPERTIES LockIsTemporary
CHECK_DEADLOCK FALSE
