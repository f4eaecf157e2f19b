--------------------------- MODULE ExpenseBudget ---------------------------
(***************************************************************************)
(* One user's expenses, budgets and budget alerts: ExpenseService,         *)
(* ExpenseRepository, BudgetRepository and the BudgetService operations    *)
(* that write.  budgets.spent_amount caches the sum of the expenses of the *)
(* budget's category and month; a request that adds or deletes an expense  *)
(* commits it first and then recomputes the cache, one query at a time, in *)
(* a second transaction.  Isolation is READ COMMITTED and nothing is       *)
(* locked, so every query and every commit is an action of its own.        *)
(***************************************************************************)
EXTENDS Integers, FiniteSets, Functions

CONSTANTS Requests,   \* requests being served at the same time
          Cells,      \* a category in a month
          Budgeted,   \* the cells the user sets budgets for
          Expenses,   \* primary keys of expenses; bounds how many there are
          Budgets,    \* primary keys of budgets; bounds how many there are
          Amounts,    \* expense amounts
          Limits,     \* allocated amounts
          Typed,      \* amounts a client enters for spent_amount
          None        \* no row, no key

ASSUME AmountsAssumption ==
  /\ Amounts \subseteq Nat \ {0}
  /\ Limits \subseteq Nat
  /\ Typed \subseteq Nat

ASSUME CellsAssumption == Budgeted \subseteq Cells

ASSUME RequestsAssumption == IsFiniteSet(Requests)

ExpenseRows == [cell : Cells, amount : Amounts]

ASSUME NoneAssumption == None \notin ExpenseRows \cup Cells \cup Expenses \cup Budgets

VARIABLES
  expense,  \* the expenses table, by key
  budget,   \* the budgets table: category and month of each key's row
  limit,    \* budgets.allocated_amount
  spent,    \* budgets.spent_amount
  unread,   \* unread HIGH rows of budget_alerts, per budget
  req,      \* the requests in flight
  held      \* history: every total of a cell, and every amount typed in for it

budgets == <<budget, limit, spent>>
tables == <<expense, budgets, unread>>
vars   == <<tables, req, held>>

(* What a request keeps between two awaits.  seen is the spent_amount (or, *)
(* for a budget being set, the allocated_amount) that the session loaded:  *)
(* the flush writes a column only if its value differs from the loaded     *)
(* one.  alone is history: nobody else committed to the cell since the     *)
(* request's own write.  failed tells how the slot's latest request was    *)
(* answered.  A field that is not read any more is cleared.                *)
Idle(failed) ==
  [kind |-> "none", stage |-> "idle", cell |-> None, expense |-> None,
   budget |-> None, seen |-> 0, limit |-> 0, sum |-> 0, raise |-> FALSE,
   alone |-> FALSE, failed |-> failed]

Start(kind, stage, c) ==
  [Idle(FALSE) EXCEPT !.kind = kind, !.stage = stage, !.cell = c]

RequestStates ==
  [kind : {"none", "create", "delete", "budget"},
   stage : {"idle", "found", "added", "written", "loaded", "summed", "checked", "insert", "edit"},
   cell : Cells \cup {None}, expense : Expenses \cup {None},
   budget : Budgets \cup {None}, seen : Nat, limit : Nat, sum : Nat,
   raise : BOOLEAN, alone : BOOLEAN, failed : BOOLEAN]

ExpensesOf(c) == {e \in Expenses : expense[e] # None /\ expense[e].cell = c}
BudgetsOf(c) == {b \in Budgets : budget[b] = c}

SumOf(S) == SumFunction([e \in S |-> expense[e].amount])

(* SELECT coalesce(sum(amount), 0) over the category and the month. *)
Total(c) == SumOf(ExpensesOf(c))

TypeOK ==
  /\ expense \in [Expenses -> ExpenseRows \cup {None}]
  /\ budget \in [Budgets -> Cells \cup {None}]
  /\ limit \in [Budgets -> Limits \cup {0}]
  /\ spent \in [Budgets -> Nat]
  /\ unread \in [Budgets -> Nat]
  /\ req \in [Requests -> RequestStates]
  /\ DOMAIN held = Cells

Init ==
  /\ expense = [e \in Expenses |-> None]
  /\ budget = [b \in Budgets |-> None]
  /\ limit = [b \in Budgets |-> 0]
  /\ spent = [b \in Budgets |-> 0]
  /\ unread = [b \in Budgets |-> 0]
  /\ req = [r \in Requests |-> Idle(FALSE)]
  /\ held = [c \in Cells |-> {0, Total(c)}]

-----------------------------------------------------------------------------
(* Helpers *)

(* Request r moves to state new, and whoever else is working on a cell of  *)
(* C is no longer alone there.                                             *)
Step(r, new, C) ==
  req' = [x \in Requests |->
            IF x = r THEN new
            ELSE IF req[x].cell \in C THEN [req[x] EXCEPT !.alone = FALSE]
            ELSE req[x]]

(* A request that is served in a single action. *)
Disturb(C) ==
  req' = [x \in Requests |->
            IF req[x].cell \in C THEN [req[x] EXCEPT !.alone = FALSE] ELSE req[x]]

Succeed(r, C) == Step(r, Idle(FALSE), C)
Fail(r) == Step(r, Idle(TRUE), {})

(* A key without a row can stand for a new one, unless a request still     *)
(* refers to the row that had it.                                          *)
FreeExpense(e) == expense[e] = None /\ \A r \in Requests : req[r].expense # e
FreeBudget(b) == budget[b] = None /\ \A r \in Requests : req[r].budget # b

Remember == held' = [c \in Cells |-> held[c] \cup {Total(c)'}]

-----------------------------------------------------------------------------
(* Adding and deleting an expense: the row *)

(* repository.create: the INSERT and a commit of its own. *)
CreateExpense(r, e, c, a) ==
  /\ req[r].stage = "idle"
  /\ FreeExpense(e)
  /\ expense' = [expense EXCEPT ![e] = [cell |-> c, amount |-> a]]
  /\ Step(r, [Start("create", "added", c) EXCEPT !.expense = e, !.alone = TRUE], {c})
  /\ Remember
  /\ UNCHANGED <<budgets, unread>>

(* ... and then a SELECT of the row, which somebody else may have moved to *)
(* another cell, or deleted.                                               *)
RefreshExpense(r) ==
  LET row == expense[req[r].expense] IN
  /\ req[r].stage = "added"
  /\ \/ row # None /\ Step(r, [req[r] EXCEPT !.stage = "written", !.cell = row.cell], {})
     \/ row = None /\ Fail(r)
  /\ UNCHANGED <<tables, held>>

(* delete_expense reads the row, and keeps its category and date. *)
DeleteLookup(r, e) ==
  /\ req[r].stage = "idle"
  /\ \/ /\ expense[e] # None
        /\ Step(r, [Start("delete", "found", expense[e].cell) EXCEPT !.expense = e], {})
     \/ /\ expense[e] = None
        /\ Fail(r)
  /\ UNCHANGED <<tables, held>>

(* repository.delete selects the row again, deletes it and commits.  If    *)
(* somebody else deleted it first, the select finds nothing and raises, or *)
(* the DELETE matches no row, which is only warned about.                  *)
DeleteExpense(r) ==
  LET e == req[r].expense IN
  /\ req[r].stage = "found"
  /\ \/ /\ expense[e] # None
        /\ expense' = [expense EXCEPT ![e] = None]
        /\ Step(r, [Start("delete", "written", req[r].cell) EXCEPT !.alone = TRUE],
                {req[r].cell, expense[e].cell})
     \/ /\ expense[e] = None
        /\ Fail(r)
        /\ UNCHANGED expense
     \/ /\ expense[e] = None
        /\ Step(r, [Start("delete", "written", req[r].cell) EXCEPT !.alone = TRUE], {})
        /\ UNCHANGED expense
  /\ Remember
  /\ UNCHANGED <<budgets, unread>>

(* update_expense compares the row with itself (current and updated are    *)
(* one object of the session), so no budget is ever recomputed.            *)
UpdateExpense(e, c, a) ==
  /\ expense[e] # None
  /\ expense[e] # [cell |-> c, amount |-> a]
  /\ expense' = [expense EXCEPT ![e] = [cell |-> c, amount |-> a]]
  /\ Disturb({c, expense[e].cell})
  /\ Remember
  /\ UNCHANGED <<budgets, unread>>

-----------------------------------------------------------------------------
(* Adding and deleting an expense: the budget of its category and month *)

(* scalar_one_or_none: no budget, nothing to do; two budgets, an error. *)
FindBudget(r) ==
  LET matching == BudgetsOf(req[r].cell) IN
  /\ req[r].stage = "written"
  /\ \/ /\ matching = {}
        /\ Succeed(r, {})
     \/ /\ Cardinality(matching) > 1
        /\ Fail(r)
     \/ \E b \in Budgets :
          /\ matching = {b}
          /\ Step(r, [req[r] EXCEPT !.stage = "loaded", !.budget = b,
                                    !.seen = spent[b],
                                    !.limit = IF req[r].kind = "create" THEN limit[b] ELSE 0], {})
  /\ UNCHANGED <<tables, held>>

(* Mutant: forgets the category and the month. *)
SumExpensesAnyCell(r) ==
  /\ req[r].stage = "loaded"
  /\ Step(r, [req[r] EXCEPT !.sum = SumOf({e \in Expenses : expense[e] # None}),
                            !.stage = IF req[r].kind = "create" THEN "summed" ELSE "checked"], {})
  /\ UNCHANGED <<tables, held>>

(* Mutant: adds the new amount to the loaded one. *)
SumExpensesByIncrement(r) ==
  LET e == req[r].expense IN
  /\ req[r].stage = "loaded"
  /\ req[r].kind = "create" => expense[e] # None
  /\ Step(r, [req[r] EXCEPT !.sum = IF req[r].kind = "create" THEN req[r].seen + expense[e].amount
                                    ELSE Total(req[r].cell),
                            !.stage = IF req[r].kind = "create" THEN "summed" ELSE "checked"], {})
  /\ UNCHANGED <<tables, held>>

(* Only a create goes on to look for alerts. *)
SumExpenses(r) ==
  /\ req[r].stage = "loaded"
  /\ Step(r, [req[r] EXCEPT !.sum = Total(req[r].cell),
                            !.stage = IF req[r].kind = "create" THEN "summed" ELSE "checked"], {})
  /\ UNCHANGED <<tables, held>>

NearLimit(r) == req[r].limit > 0 /\ 10 * req[r].sum >= 9 * req[r].limit

(* Mutant: does not look for an unread alert. *)
CheckAlertNoDedup(r) ==
  /\ req[r].stage = "summed"
  /\ Step(r, [req[r] EXCEPT !.stage = "checked", !.raise = NearLimit(r)], {})
  /\ UNCHANGED <<tables, held>>

(* _check_budget_alert: an unread HIGH alert is looked for, again with     *)
(* scalar_one_or_none, and one is added to the session if there is none.   *)
CheckAlert(r) ==
  LET alerts == unread[req[r].budget] IN
  /\ req[r].stage = "summed"
  /\ \/ /\ NearLimit(r) => alerts <= 1
        /\ LET raise == NearLimit(r) /\ alerts = 0 IN
           Step(r, [req[r] EXCEPT !.stage = "checked", !.raise = raise,
                                  !.limit = IF raise THEN @ ELSE 0], {})
     \/ /\ NearLimit(r) /\ alerts > 1
        /\ Fail(r)
  /\ UNCHANGED <<tables, held>>

Changed(r) == req[r].sum # req[r].seen

(* utilization_at_alert is NUMERIC(5, 2): 1000 % does not fit. *)
Overflows(r) == req[r].sum >= 10 * req[r].limit

(* Mutant: no foreign key from alerts to budgets. *)
RowsTakeNoForeignKey(r) ==
  budget[req[r].budget] = None => ~Changed(r)

(* The UPDATE must match the row it loaded, and the INSERT its foreign key. *)
RowsTake(r) ==
  /\ budget[req[r].budget] = None => ~Changed(r) /\ ~req[r].raise
  /\ req[r].raise => ~Overflows(r)

(* The second commit: the cached sum and the alert, or neither. *)
Commit(r) ==
  LET b == req[r].budget IN
  /\ req[r].stage = "checked"
  /\ \/ /\ RowsTake(r)
        /\ spent' = IF Changed(r) THEN [spent EXCEPT ![b] = req[r].sum] ELSE spent
        /\ unread' = IF req[r].raise THEN [unread EXCEPT ![b] = @ + 1] ELSE unread
        /\ Succeed(r, {req[r].cell})
     \/ /\ ~RowsTake(r)
        /\ Fail(r)
        /\ UNCHANGED <<spent, unread>>
  /\ UNCHANGED <<expense, budget, limit, held>>

(* A statement fails, or the process dies: what is not committed is lost. *)
Interrupt(r) ==
  /\ req[r].stage # "idle"
  /\ Fail(r)
  /\ UNCHANGED <<tables, held>>

-----------------------------------------------------------------------------
(* Budgets and alerts *)

(* Mutant: inserts without looking. *)
SetBudgetLookupNever(r, c, l) ==
  /\ req[r].stage = "idle"
  /\ Step(r, [Start("budget", "insert", c) EXCEPT !.limit = l], {})
  /\ UNCHANGED <<tables, held>>

(* BudgetRepository.create looks for a budget of the category and month. *)
SetBudgetLookup(r, c, l) ==
  LET found == BudgetsOf(c)
      start(stage) == [Start("budget", stage, c) EXCEPT !.limit = l]
  IN
  /\ req[r].stage = "idle"
  /\ \/ /\ found = {}
        /\ Step(r, start("insert"), {})
     \/ \E b \in Budgets :
          /\ found = {b}
          /\ Step(r, [start("edit") EXCEPT !.budget = b, !.seen = limit[b]], {})
     \/ /\ Cardinality(found) > 1
        /\ Fail(r)
  /\ UNCHANGED <<tables, held>>

(* ... and inserts one, with spent_amount 0 whatever has been spent, or    *)
(* changes the allocation of the one it found.  No constraint backs this.  *)
SetBudget(r) ==
  LET c == req[r].cell
      b == req[r].budget
  IN
  /\ \/ /\ req[r].stage = "insert"
        /\ \E new \in Budgets :
             /\ FreeBudget(new)
             /\ budget' = [budget EXCEPT ![new] = c]
             /\ limit' = [limit EXCEPT ![new] = req[r].limit]
        /\ Succeed(r, {c})
     \/ /\ req[r].stage = "edit"
        /\ budget[b] # None
        /\ limit' = IF req[r].limit = req[r].seen THEN limit
                    ELSE [limit EXCEPT ![b] = req[r].limit]
        /\ Succeed(r, {c})
        /\ UNCHANGED budget
     \/ /\ req[r].stage = "edit"
        /\ budget[b] = None
        /\ Fail(r)
        /\ UNCHANGED <<budget, limit>>
  /\ UNCHANGED <<expense, spent, unread, held>>

(* PUT /budgets/{id} may set either amount by hand. *)
EditLimit(b, l) ==
  /\ budget[b] # None
  /\ limit[b] # l
  /\ limit' = [limit EXCEPT ![b] = l]
  /\ Disturb({budget[b]})
  /\ UNCHANGED <<expense, budget, spent, unread, held>>

EditSpent(b, a) ==
  /\ budget[b] # None
  /\ spent[b] # a
  /\ spent' = [spent EXCEPT ![b] = a]
  /\ Disturb({budget[b]})
  /\ held' = [held EXCEPT ![budget[b]] = @ \cup {a}]
  /\ UNCHANGED <<expense, budget, limit, unread>>

(* ON DELETE CASCADE takes the alerts with the budget. *)
DeleteBudget(b) ==
  /\ budget[b] # None
  /\ budget' = [budget EXCEPT ![b] = None]
  /\ limit' = [limit EXCEPT ![b] = 0]
  /\ spent' = [spent EXCEPT ![b] = 0]
  /\ unread' = [unread EXCEPT ![b] = 0]
  /\ Disturb({budget[b]})
  /\ UNCHANGED <<expense, held>>

(* Mutant: counts an alert that was read before. *)
ReadAlertAgain(b) ==
  /\ budget[b] # None
  /\ unread' = [unread EXCEPT ![b] = @ - 1]
  /\ UNCHANGED <<expense, budgets, req, held>>

(* mark_alert_as_read: one unread alert of the budget becomes a read one. *)
ReadAlert(b) ==
  /\ unread[b] > 0
  /\ unread' = [unread EXCEPT ![b] = @ - 1]
  /\ UNCHANGED <<expense, budgets, req, held>>

-----------------------------------------------------------------------------

Next ==
  \/ \E r \in Requests, e \in Expenses :
       DeleteLookup(r, e) \/ \E c \in Cells, a \in Amounts : CreateExpense(r, e, c, a)
  \/ \E r \in Requests :
       \/ RefreshExpense(r) \/ DeleteExpense(r) \/ FindBudget(r) \/ SumExpenses(r) \/ CheckAlert(r)
       \/ Commit(r) \/ Interrupt(r) \/ SetBudget(r)
  \/ \E r \in Requests, c \in Budgeted, l \in Limits : SetBudgetLookup(r, c, l)
  \/ \E e \in Expenses, c \in Cells, a \in Amounts : UpdateExpense(e, c, a)
  \/ \E b \in Budgets : DeleteBudget(b) \/ ReadAlert(b)
  \/ \E b \in Budgets, l \in Limits : EditLimit(b, l)
  \/ \E b \in Budgets, a \in Typed : EditSpent(b, a)

Spec == Init /\ [][Next]_vars

-----------------------------------------------------------------------------
(* Properties *)

(* A create or a delete that no other request disturbed leaves every       *)
(* budget of its category and month with the exact sum, however wrong the  *)
(* amount was before (after an update, a failure, a race or a late budget).*)
RepairAlone ==
  [][\A r \in Requests, c \in Cells :
       /\ req[r].kind \in {"create", "delete"}
       /\ req[r].cell = c
       /\ req[r].alone
       /\ req[r].stage # "idle"
       /\ req'[r] = Idle(FALSE)
       => \A b \in BudgetsOf(c) : spent'[b] = Total(c)']_vars

(* Whatever races, the amount a budget shows is one that was true at some  *)
(* time, or was typed in: lost updates make it stale, never a mixture      *)
(* (the cache is recomputed with SUM, not incremented).                    *)
ShownWasTrue ==
  \A b \in Budgets : budget[b] # None => spent[b] \in held[budget[b]]

(* Requests about to add an alert to b, or to insert a budget for c. *)
Alerting(b) == {r \in Requests : req[r].stage = "checked" /\ req[r].raise /\ req[r].budget = b}
Inserting(c) == {r \in Requests : req[r].stage = "insert" /\ req[r].cell = c}

(* The look-up before the insert lets a second unread alert through only   *)
(* while requests overlap: the alerts a budget has and the ones about to   *)
(* be added are never more than the requests there can be at one time      *)
(* (_check_budget_alert).                                                  *)
AlertsBounded ==
  \A b \in Budgets : unread[b] + Cardinality(Alerting(b)) <= Cardinality(Requests)

(* The same for the budgets of one category and month, which no UNIQUE     *)
(* constraint protects (BudgetRepository.create).                          *)
DuplicatesBounded ==
  \A c \in Cells :
    Cardinality(BudgetsOf(c)) + Cardinality(Inserting(c)) <= Cardinality(Requests)

(* An alert belongs to a budget that exists, also when the budget is       *)
(* deleted between the check and the commit that adds the alert.           *)
AlertsHaveBudget ==
  \A b \in Budgets : unread[b] > 0 => budget[b] # None

-----------------------------------------------------------------------------
(* Claims of the documentation *)

(* expense_service.py: "a failure at any step rolls everything back", so   *)
(* an expense whose creation is reported as failed isn't in the table.     *)
CreateIsAllOrNothing ==
  [][\A r \in Requests :
       req[r].kind = "create" /\ req'[r].failed =>
         expense'[req[r].expense] = None]_vars
=============================================================================
