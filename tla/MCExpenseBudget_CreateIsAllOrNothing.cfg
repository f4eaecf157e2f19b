CONSTANTS
  Requests = {r1}
  Cells = {c1}
  Budgeted = {c1}
  Expenses = {e1, e2}
  Budgets = {b1}
  Amounts = {9}
  Limits = {1, 20}
  Typed = {0}
  None = None
SPECIFICATION Spec
PROPERTIES CreateIsAllOrNothing
