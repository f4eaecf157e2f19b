------------------------------- MODULE Reports -------------------------------
(***************************************************************************)
(* What a user reads of expenses and budgets: the expense and budget       *)
(* routes, ExpenseAnalyticsService, the queries of ExpenseRepository and   *)
(* BudgetService, and the assistant's tools. A report that takes two       *)
(* queries takes two steps, with writes of other requests in between. How  *)
(* the writes keep a budget's spent amount is in ExpenseBudget; here it    *)
(* may be anything.                                                        *)
(*                                                                         *)
(* One user.  A month has DaysPerMonth days, and "the last n days" begin   *)
(* on any day.  Left out: descriptions, merchants, methods of payment, and *)
(* the rounding of what is shown.                                          *)
(***************************************************************************)
EXTENDS Integers, FiniteSets, FiniteSetsExt, Functions

CONSTANTS ExpenseIds, BudgetIds, Categories,
          Amounts,       \* of expenses
          Pots,          \* of budgets: pairs of allocated and spent amounts
          Months, DaysPerMonth,
          Today,
          MaxAlerts      \* bound on the budget alerts

ReportsAssumption ==
  /\ Amounts \subseteq Nat \ {0} /\ Pots \subseteq Nat \X Nat /\ Months \subseteq Nat
  /\ DaysPerMonth \in Nat \ {0} /\ Today \in Nat /\ MaxAlerts \in Nat

Days == {m * DaysPerMonth + d : m \in Months, d \in 0 .. DaysPerMonth - 1}
MonthOf(day) == day \div DaysPerMonth

VARIABLES
  expenses,  \* the rows
  budgets,
  alerts,    \* how many budget alerts are unread, and how many read
  report,    \* a report after its first query
  shown      \* what the last step told the user

rvars == <<expenses, budgets, alerts, report, shown>>

Expenses == [id : ExpenseIds, category : Categories, amount : Amounts, day : Days]
Budgets == [id : BudgetIds, category : Categories, month : Months, pot : Pots]

NoReport == [at |-> "none"]
Nothing == [kind |-> "nothing"]

Init ==
  /\ expenses = {} /\ budgets = {}
  /\ alerts = [unread |-> 0, read |-> 0]
  /\ report = NoReport
  /\ shown = Nothing

-----------------------------------------------------------------------------
(* Queries *)

Within(from, to) == {e \in expenses : e.day >= from /\ e.day <= to}
Since(from) == Within(from, Today)
Of(S, c) == {x \in S : x.category = c}
Spent(S) == SumFunction([e \in S |-> e.amount])
Grouped(S, Key(_)) == [k \in {Key(e) : e \in S} |-> Spent({e \in S : Key(e) = k})]
BudgetsFrom(from, to) == {b \in budgets : b.month >= from /\ b.month <= to}
Allocated(B) == SumFunction([b \in B |-> b.pot[1]])
SpentOf(B) == SumFunction([b \in B |-> b.pot[2]])

Utilization(spent, allocated) == IF allocated > 0 THEN (100 * spent) \div allocated ELSE 0
Level(utilization) == CASE utilization >= 100 -> "over" [] utilization >= 90 -> "warning" [] OTHER -> "under"

Tell(what) == report.at = "none" /\ shown' = what /\ UNCHANGED <<expenses, budgets, alerts, report>>

-----------------------------------------------------------------------------
(* The monthly analytics: budgets first, then expenses by category. *)

ReadBudgets(month) ==
  /\ report.at = "none"
  /\ report' = [at |-> "month", month |-> month, budgets |-> {b \in budgets : b.month = month}]
  /\ shown' = Nothing
  /\ UNCHANGED <<expenses, budgets, alerts>>

(* Mutant: a category counts as budgeted when any month has a budget for it. *)
UnbudgetedAnyMonth(spending) == {c \in DOMAIN spending : Of(budgets, c) = {}}

(* Categories with spending that no budget read for the month covers. *)
Unbudgeted(spending) == {c \in DOMAIN spending : Of(report.budgets, c) = {}}

SpentIn(spending, c) == IF c \in DOMAIN spending THEN spending[c] ELSE 0

(* One slice for each budget and one for each category without. *)
Pie(spending) ==
  {[budget |-> b.id, category |-> b.category, amount |-> SpentIn(spending, b.category),
    status |-> Level(Utilization(SpentIn(spending, b.category), b.pot[1]))] : b \in report.budgets}
  \cup {[budget |-> "none", category |-> c, amount |-> spending[c]] : c \in Unbudgeted(spending)}

MonthlyAnalytics ==
  /\ report.at = "month"
  /\ LET month == {e \in expenses : MonthOf(e.day) = report.month}
         spending == Grouped(month, LAMBDA e : e.category)
     IN shown' = [kind |-> "month", pie |-> Pie(spending), spent |-> Spent(month),
                   budgeted |-> Allocated(report.budgets),
                   single |-> \A x, y \in report.budgets : x.category = y.category => x = y]
  /\ report' = NoReport
  /\ UNCHANGED <<expenses, budgets, alerts>>

-----------------------------------------------------------------------------
(* The other reports on expenses *)

Summary(from, to, S) ==
  LET found == Within(from, to) \cap S IN
  Tell([kind |-> "summary", spent |-> Spent(found), count |-> Cardinality(found)])

(* /expenses/categories, or nothing when it fails. *)
ByCategory(from) ==
  \/ Tell([kind |-> "categories", spent |-> Grouped(Since(from), LAMBDA e : e.category)])
  \/ Tell([kind |-> "empty"])

(* /expenses/analytics passes dates, and the service's conditional, meant  *)
(* for datetimes, then puts a bare date where a condition belongs;         *)
(* /expenses/trends turns rows into dicts with a method they do not have.  *)
(* Both exceptions are caught.                                             *)
Analytics == Tell([kind |-> "empty"])
Trends == Tell([kind |-> "empty"])

(* /expenses: a count and, in a query of its own, a page. *)
CountExpenses(S) ==
  /\ report.at = "none"
  /\ report' = [at |-> "list", category |-> S, total |-> Cardinality(Of(expenses, S))]
  /\ shown' = Nothing
  /\ UNCHANGED <<expenses, budgets, alerts>>

PageOfExpenses(skip, limit) ==
  /\ report.at = "list"
  /\ LET left == Cardinality(Of(expenses, report.category)) - skip
     IN shown' = [kind |-> "list", total |-> report.total, page |-> Max({0, Min({left, limit})})]
  /\ report' = NoReport
  /\ UNCHANGED <<expenses, budgets, alerts>>

(* The service's trends, by month, by month and category, and by week.     *)
MonthlyTrend(from) == Tell([kind |-> "trend", spent |-> Grouped(Since(from), LAMBDA e : MonthOf(e.day))])
CategoryTrends(from) ==
  Tell([kind |-> "category trends", spent |-> Grouped(Since(from), LAMBDA e : <<e.category, MonthOf(e.day)>>)])
WeeklyPattern(from) == Tell([kind |-> "weeks", spent |-> Grouped(Since(from), LAMBDA e : e.day \div 7)])

(* Recent expenses above two and a half times the average: the average,    *)
(* which ends it when there is none, and then the recent ones.             *)
Anomalies(long) ==
  /\ report.at = "none"
  /\ LET past == {e \in expenses : e.day >= long} IN
       IF past = {} THEN shown' = [kind |-> "anomalies", ids |-> {}] /\ UNCHANGED report
       ELSE /\ report' = [at |-> "average", sum |-> Spent(past), count |-> Cardinality(past)]
            /\ shown' = Nothing
  /\ UNCHANGED <<expenses, budgets, alerts>>

RecentAnomalies(short) ==
  /\ report.at = "average"
  /\ LET odd == {e \in expenses : e.day >= short /\ 2 * e.amount * report.count > 5 * report.sum}
     IN shown' = [kind |-> "anomalies", ids |-> {e.id : e \in odd}]
  /\ report' = NoReport
  /\ UNCHANGED <<expenses, budgets, alerts>>

(* A category's sum this month and, in a query of its own, its average for *)
(* one expense before.                                                     *)
StartOfMonth == MonthOf(Today) * DaysPerMonth

Insights ==
  /\ report.at = "none"
  /\ report' = [at |-> "insights", now |-> Grouped(Within(StartOfMonth, Today), LAMBDA e : e.category)]
  /\ shown' = Nothing
  /\ UNCHANGED <<expenses, budgets, alerts>>

CompareWithAverages(from) ==
  /\ report.at = "insights"
  /\ LET before(c) == Of(Within(from, StartOfMonth - 1), c)
         over == {c \in DOMAIN report.now :
                    before(c) # {} /\ 2 * report.now[c] * Cardinality(before(c)) > 3 * Spent(before(c))}
     IN shown' = [kind |-> "insights", over |-> over]
  /\ report' = NoReport
  /\ UNCHANGED <<expenses, budgets, alerts>>

-----------------------------------------------------------------------------
(* Reports on budgets, from the spent amounts of their rows *)

BudgetSummary ==
  Tell([kind |-> "budgets", allocated |-> Allocated(budgets), spent |-> SpentOf(budgets),
        utilization |-> Utilization(SpentOf(budgets), Allocated(budgets))])

ListBudgets(from, to) ==
  Tell([kind |-> "levels", of |-> {<<b.id, Level(Utilization(b.pot[2], b.pot[1]))>> : b \in BudgetsFrom(from, to)}])

(* Budgets and then, if there are any, the number of alerts. *)
BudgetAnalytics(from, to) ==
  /\ report.at = "none"
  /\ LET B == BudgetsFrom(from, to) IN
       IF B = {} THEN shown' = [kind |-> "empty"] /\ UNCHANGED report
       ELSE /\ report' = [at |-> "budgets", over |-> {b.category : b \in {x \in B : x.pot[2] > x.pot[1]}}]
            /\ shown' = Nothing
  /\ UNCHANGED <<expenses, budgets, alerts>>

AddAlertCount ==
  /\ report.at = "budgets"
  /\ shown' = [kind |-> "analysis", over |-> report.over, alerts |-> alerts.unread + alerts.read]
  /\ report' = NoReport
  /\ UNCHANGED <<expenses, budgets, alerts>>

ShowAlerts(unreadOnly) ==
  Tell([kind |-> "alerts", count |-> alerts.unread + IF unreadOnly THEN 0 ELSE alerts.read])

(* The alert service's: the newest ones, and how many are unread. *)
RecentAlerts(limit) == Tell([kind |-> "alerts", count |-> Min({limit, alerts.unread + alerts.read})])
UnreadAlerts == Tell([kind |-> "alerts", count |-> alerts.unread])

GetBudget(i) == Tell([kind |-> IF \E b \in budgets : b.id = i THEN "budget" ELSE "not found"])

-----------------------------------------------------------------------------
(* The assistant's tools over expenses and budgets *)

(* The first n of S, in an order that ties leave open. *)
Newest(n, S, When(_)) ==
  {T \in SUBSET S : /\ Cardinality(T) = Min({n, Cardinality(S)})
                    /\ \A x \in T, y \in S \ T : When(y) <= When(x)}

(* get_expense_summary has no upper end: expenses of days to come count.   *)
ToolExpenses(from) ==
  LET S == {e \in expenses : e.day >= from} IN
  Tell(IF S = {} THEN [kind |-> "empty"]
       ELSE [kind |-> "tool expenses", spent |-> Grouped(S, LAMBDA e : e.category), total |-> Spent(S)])

(* get_budget_status draws its own lines: above 80 and above 100 percent.  *)
ToolLevel(pot) ==
  IF pot[1] = 0 THEN "on track"
  ELSE IF pot[2] > pot[1] THEN "over" ELSE IF 5 * pot[2] > 4 * pot[1] THEN "caution" ELSE "on track"

BudgetLines(B) ==
  [kind |-> "tool budgets", of |-> {<<b.id, ToolLevel(b.pot), b.pot[1] - b.pot[2]>> : b \in B}]

(* This month's budgets or, with a second query, the ten latest. *)
ToolBudgets ==
  /\ report.at = "none"
  /\ LET now == {b \in budgets : b.month = MonthOf(Today)} IN
       IF now = {} THEN report' = [at |-> "tool"] /\ shown' = Nothing
       ELSE shown' = BudgetLines(now) /\ UNCHANGED report
  /\ UNCHANGED <<expenses, budgets, alerts>>

LatestBudgets ==
  /\ report.at = "tool"
  /\ \E B \in Newest(10, budgets, LAMBDA b : b.month) :
       shown' = IF B = {} THEN [kind |-> "empty"] ELSE BudgetLines(B)
  /\ report' = NoReport
  /\ UNCHANGED <<expenses, budgets, alerts>>

ToolTransactions(limit) ==
  \E S \in Newest(limit, expenses, LAMBDA e : e.day) :
    Tell(IF S = {} THEN [kind |-> "empty"] ELSE [kind |-> "transactions", ids |-> {e.id : e \in S}])

-----------------------------------------------------------------------------

(* Recommendations and yearly insights are not written yet. *)
NotYetWritten == Tell([kind |-> "empty"])

(* A report fails: 404 for the monthly one, 500 for others. *)
ReportFails ==
  /\ report' = NoReport /\ shown' = [kind |-> "failed"]
  /\ UNCHANGED <<expenses, budgets, alerts>>

-----------------------------------------------------------------------------
(* The writes *)

Done == shown' = Nothing /\ UNCHANGED report

WriteExpense(i) ==
  /\ \/ \E e \in Expenses : e.id = i /\ expenses' = {x \in expenses : x.id # i} \cup {e}
     \/ expenses' = {x \in expenses : x.id # i}
  /\ Done /\ UNCHANGED <<budgets, alerts>>

(* Overlapping requests may leave two rows for a category and month. *)
CreateBudget(i) ==
  /\ \A x \in budgets : x.id # i
  /\ \E b \in Budgets : b.id = i /\ budgets' = budgets \cup {b}
  /\ Done /\ UNCHANGED <<expenses, alerts>>

(* Edits, and the recomputed amounts that ExpenseBudget describes. *)
UpdateBudget(i) ==
  /\ \E x \in budgets, pot \in Pots : x.id = i /\ budgets' = (budgets \ {x}) \cup {[x EXCEPT !.pot = pot]}
  /\ Done /\ UNCHANGED <<expenses, alerts>>

(* The row goes, and its alerts with it. *)
DeleteBudget(i) ==
  /\ budgets' = {x \in budgets : x.id # i}
  /\ alerts' \in [unread : 0 .. alerts.unread, read : 0 .. alerts.read]
  /\ Done /\ UNCHANGED expenses

RaiseAlert ==
  /\ alerts.unread + alerts.read < MaxAlerts
  /\ alerts' = [alerts EXCEPT !.unread = @ + 1]
  /\ Done /\ UNCHANGED <<expenses, budgets>>

MarkAlertRead ==
  /\ \/ alerts.unread > 0 /\ alerts' = [unread |-> alerts.unread - 1, read |-> alerts.read + 1]
     \/ UNCHANGED alerts
  /\ Done /\ UNCHANGED <<expenses, budgets>>

Next ==
  \/ \E m \in Months : ReadBudgets(m)
  \/ MonthlyAnalytics
  \/ \E from, to \in Days : Summary(from, to, expenses) \/ \E c \in Categories : Summary(from, to, Of(expenses, c))
  \/ \E from \in Days :
       ByCategory(from) \/ MonthlyTrend(from) \/ CategoryTrends(from) \/ WeeklyPattern(from)
         \/ Anomalies(from) \/ RecentAnomalies(from) \/ CompareWithAverages(from) \/ ToolExpenses(from)
  \/ Analytics \/ Insights \/ Trends \/ BudgetSummary \/ AddAlertCount \/ NotYetWritten \/ UnreadAlerts \/ ReportFails
  \/ ToolBudgets \/ LatestBudgets
  \/ \E c \in Categories : CountExpenses(c)
  \/ \E skip, limit \in 0 .. 2 : PageOfExpenses(skip, limit)
  \/ \E limit \in 1 .. 2 : RecentAlerts(limit) \/ ToolTransactions(limit)
  \/ \E from, to \in Months : ListBudgets(from, to) \/ BudgetAnalytics(from, to)
  \/ \E unreadOnly \in BOOLEAN : ShowAlerts(unreadOnly)
  \/ \E i \in BudgetIds : GetBudget(i) \/ CreateBudget(i) \/ UpdateBudget(i) \/ DeleteBudget(i)
  \/ \E i \in ExpenseIds : WriteExpense(i)
  \/ RaiseAlert \/ MarkAlertRead

Spec == Init /\ [][Next]_rvars

-----------------------------------------------------------------------------
(* Rows, alerts and reports have their types, and ids are unique. *)
TypeOK ==
  /\ expenses \subseteq Expenses /\ \A x, y \in expenses : x.id = y.id => x = y
  /\ budgets \subseteq Budgets /\ \A x, y \in budgets : x.id = y.id => x = y
  /\ alerts \in [unread : Nat, read : Nat] /\ alerts.unread + alerts.read <= MaxAlerts
  /\ report.at \in {"none", "month", "list", "budgets", "tool", "average", "insights"}

(* Whatever is written between the two queries of a monthly report: if no  *)
(* category had two budgets, the slices of its pie add up to the total     *)
(* that is shown beside it.                                                *)
PieAddsUp ==
  shown.kind = "month" /\ shown.single =>
    SumFunction([slice \in shown.pie |-> slice.amount]) = shown.spent
=============================================================================
