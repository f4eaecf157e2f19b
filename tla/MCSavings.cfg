CONSTANTS
  Requests = {r1, r2}
  Goals = {g1}
  Targets = {0, 50, 200}
  Amounts = {50, 149}
  Dues = {2}
  MaxDay = 2
  MaxNotices = 1
  Limit = 1
  ReminderDays = 1
  Retention = 0
  Filters = {"all", "unread"}
  Shares = {85, 1000}
  MaxRows = 3
  InboxRows = 2
SPECIFICATION SavingsSpec
SYMMETRY Symmetry
INVARIANTS SavingsTypeOK CompletionEarned AnnouncedWasReached WalkMissesOnlyLate
PROPERTIES BehindStaysBehind
CHECK_DEADLOCK FALSE
