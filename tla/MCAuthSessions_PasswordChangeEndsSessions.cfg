SPECIFICATION Spec
CONSTANTS
  Users = {u1}
  Requests = {r1, r2}
  MaxTime = 3
  Lifetime = 2
  StoreDelay = 1
  Retention = 2
  None = None
PROPERTY PasswordChangeEndsSessions
