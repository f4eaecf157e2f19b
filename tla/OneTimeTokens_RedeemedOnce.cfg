SPECIFICATION Spec
CONSTANTS
  Requests = {r1, r2}
  Purposes = {"verify", "reset"}
  Limit = 1
  Works = {TRUE}
  MaxMails = 1
  MaxSecond = 0
INVARIANT RedeemedOnce
CHECK_DEADLOCK FALSE
