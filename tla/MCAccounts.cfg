CONSTANTS
  Requests = {r1, r2}
  Purposes = {"verify", "reset"}
  Limit = 1
  Works = {TRUE, FALSE}
  MaxMails = 2
  MaxSecond = 1
  MaxFailing = 1
  Uids = {1}
  Emails = {"ann", "bob"}
  MaxStates = 1
  KeySet = FALSE
  MaxSecrets = 2
  MaxKeys = 2
  Tables = 2
  MaxChanges = 2
  Pages = {1, 2}
  MaxTokens = 3
SPECIFICATION AccountsSpec
SYMMETRY Symmetry
INVARIANTS AccountsTypeOK SendsBounded SignedInAsLinked AdmittedWasActive StoredIsLive
CHECK_DEADLOCK FALSE
