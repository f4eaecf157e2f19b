CONSTANTS
  Unit = 12
  Requests = {r1, r2}
  Loans = {l1}
  Principals = {7}
  Emis = {4}
  Amounts = {4}
  Incomes = {9}
  Outgoings = {1}
  Charges = {1}
  Lengths = {2}
  MaxPast = 1
  MaxPayments = 3
  Borrowed = {1, 3, 13, 30}
  Rates = {0, 1}
  Terms = {1, 2, 3, 4, 5}
  Instalments = {2, 5, 30}
  Prepayments = {0, 1, 12, 29, 30, 31}
  Years = {2023, 2024}
  StartMonths = {1, 11, 12}
  StartDays = {1, 29, 30, 31}
SPECIFICATION MoneySpec
SYMMETRY Symmetry
INVARIANTS MoneyTypeOK NothingRepaidTwice CalculationsSound ImpactsSound
PROPERTIES ClosedWhenRepaid PaymentReopensNothing RefreshAlone
CHECK_DEADLOCK FALSE
