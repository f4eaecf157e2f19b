CONSTANTS
  Users = {u1}
  Addresses = {}
  Endpoints = {"expenses/analytics", "expenses/trends", "health"}
  Limit = 2
  Window = 3
  Lag = 1
  MaxClock = 7
  Browsers = {"browser"}
  Readers = {"reader"}
  Bodies = {"old", "new"}
  Ttl = 2
  MaxTime = 4
  Talks = {"talk"}
  Callers = {c1, c2}
  Workers = {w1, w2}
  MaxHistory = 1
  MaxQuestions = 3
  ExpenseIds = {e1, e2}
  BudgetIds = {b1, b2}
  Categories = {"food", "rent"}
  Amounts = {2}
  Allocations = {0, 1}
  Spendings = {1}
  Months = {0, 1}
  DaysPerMonth = 1
  Today = 1
  MaxAlerts = 1
SPECIFICATION PlatformSpec
SYMMETRY Symmetry
INVARIANTS PlatformTypeOK WindowRespected StaleAtMostTtl TurnsInOrder PieAddsUp
CHECK_DEADLOCK FALSE
