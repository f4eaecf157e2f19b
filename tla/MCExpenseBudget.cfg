CONSTANTS
  Requests = {r1, r2}
  Cells = {c1, c2}
  Budgeted = {c1}
  Expenses = {e1, e2}
  Budgets = {b1, b2}
  Amounts = {9}
  Limits = {1, 20}
  Typed = {0}
  None = None
SPECIFICATION Spec
SYMMETRY Symmetry
INVARIANTS TypeOK ShownWasTrue AlertsBounded DuplicatesBounded AlertsHaveBudget
PROPERTIES RepairAlone
