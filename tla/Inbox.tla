------------------------------- MODULE Inbox -------------------------------
(***************************************************************************)
(* One user's notifications: NotificationService behind the notification   *)
(* routes, and LoanReminderService and BudgetAlertService, which create    *)
(* them.  Nothing calls these two yet, nor mark_all_as_read by way of its  *)
(* route, nor delete_old_notifications; they may run at any time here.     *)
(* Every query and every commit is a step.                                 *)
(*                                                                         *)
(* Left out: texts, and e-mail, which is never sent since a profile has no *)
(* address.                                                                *)
(***************************************************************************)
EXTENDS Integers, Sequences, FiniteSets, Functions

CONSTANTS Requests,     \* requests and jobs that run at the same time
          Limit,        \* rows on a page
          ReminderDays, \* days ahead that a reminder looks
          Retention,    \* days after which an old notification is deleted
          Filters,      \* filters of a client that pages: "all", "unread"
          Shares,       \* percents of a budget that may be spent
          MaxRows,      \* bound on the notifications ever created
          MaxDay        \* bound on the days that pass

InboxAssumption ==
  /\ Limit \in Nat \ {0} /\ ReminderDays \in Nat /\ Retention \in Nat
  /\ Filters \subseteq {"all", "unread"} /\ Shares \subseteq Nat /\ MaxRows \in Nat /\ MaxDay \in Nat

Kinds == {"loan_reminder", "loan_overdue_alert", "budget_alert"}

VARIABLES
  rows,    \* the notifications by id; a higher id is newer
  made,    \* how many of each kind were ever created
  alerts,  \* the budget_alerts that BudgetAlertService created: their levels
  loan,    \* one active or closed loan and when it is due next
  spent,   \* percent of one budget
  req,     \* what each request has read
  walk,    \* a client that reads the list page by page
  day

vars == <<rows, made, alerts, loan, spent, req, walk, day>>

Idle == [at |-> "idle"]
NoWalk == [on |-> FALSE]
Ids == DOMAIN rows

Init ==
  /\ rows = [n \in {} |-> {}]
  /\ made = [k \in Kinds |-> 0]
  /\ alerts = <<>>
  /\ loan \in [status : {"active"}, due : 0 .. MaxDay]
  /\ spent = 0
  /\ req = [r \in Requests |-> Idle]
  /\ walk = NoWalk
  /\ day = 0

Continue(r, next) == req' = [req EXCEPT ![r] = next]
Others == <<loan, spent, day>>

-----------------------------------------------------------------------------
(* NotificationService *)

Made == SumFunction(made)

CreateNotification(kind) ==
  /\ Made < MaxRows
  /\ made' = [made EXCEPT ![kind] = @ + 1]
  /\ rows' = [n \in Ids \cup {Made + 1} |->
                IF n \in Ids THEN rows[n] ELSE [kind |-> kind, read |-> FALSE, day |-> day]]

(* A row disappears, or leaves a filter, under the client's walk. *)
Disturb == walk' = IF walk.on THEN [walk EXCEPT !.disturbed = TRUE] ELSE walk

Chosen(filter) == {n \in Ids : filter = "all" \/ ~rows[n].read}

(* How many of the chosen come before n, newest first. *)
Place(n, filter) == Cardinality({m \in Chosen(filter) : m > n})

(* Mutant: the offset counts from one. *)
PageFromOne(filter, skip) ==
  {n \in Chosen(filter) : skip < Place(n, filter) /\ Place(n, filter) <= skip + Limit}

(* get_notifications: the filtered rows from an offset on. *)
Page(filter, skip) ==
  {n \in Chosen(filter) : skip <= Place(n, filter) /\ Place(n, filter) < skip + Limit}

(* The total counts every notification, whatever the filter, and was read  *)
(* before the page.                                                        *)
ListResponse(filter, skip, total) ==
  [notifications |-> Page(filter, skip), total |-> total, skip |-> skip, limit |-> Limit]

Summary ==
  [total |-> Cardinality(Ids),
   unread |-> Cardinality(Chosen("unread")),
   byType |-> [k \in Kinds |-> Cardinality({n \in Ids : rows[n].kind = k})]]

(* get_notification, with which marking and deleting begin. *)
Load(r, id) ==
  /\ req[r] = Idle
  /\ id \in Ids
  /\ Continue(r, [at |-> "loaded", id |-> id])
  /\ UNCHANGED <<rows, made, alerts, walk>> /\ UNCHANGED Others

Marked(ids) == [n \in Ids |-> IF n \in ids THEN [rows[n] EXCEPT !.read = TRUE] ELSE rows[n]]

(* PUT /notifications/{id}/read.  The UPDATE of a row that is gone fails.  *)
CommitRead(r) ==
  /\ req[r].at = "loaded"
  /\ rows' = Marked({req[r].id})
  /\ Disturb
  /\ Continue(r, Idle)
  /\ UNCHANGED <<made, alerts>> /\ UNCHANGED Others

(* DELETE /notifications/{id}. *)
CommitDelete(r) ==
  /\ req[r].at = "loaded"
  /\ rows' = Restrict(rows, Ids \ {req[r].id})
  /\ Disturb
  /\ Continue(r, Idle)
  /\ UNCHANGED <<made, alerts>> /\ UNCHANGED Others

(* PUT /notifications/mark-all/read matches the route of one notification, *)
(* declared before it: "mark-all" is no UUID, and the answer is 404.       *)
MarkAllRoute(r) ==
  /\ req[r] = Idle
  /\ Continue(r, [at |-> "answered", code |-> 404])
  /\ UNCHANGED <<rows, made, alerts, walk>> /\ UNCHANGED Others

LoadUnread(r) ==
  /\ req[r] = Idle
  /\ Continue(r, [at |-> "unread", ids |-> Chosen("unread")])
  /\ UNCHANGED <<rows, made, alerts, walk>> /\ UNCHANGED Others

(* mark_all_as_read: one commit; if one of the rows is gone, it fails.     *)
CommitAllRead(r) ==
  /\ req[r].at = "unread"
  /\ rows' = IF req[r].ids \subseteq Ids THEN Marked(req[r].ids) ELSE rows
  /\ Disturb
  /\ Continue(r, Idle)
  /\ UNCHANGED <<made, alerts>> /\ UNCHANGED Others

(* delete_old_notifications: read and unread ones alike; a row that is     *)
(* gone by the commit is left out.                                         *)
LoadOld(r) ==
  /\ req[r] = Idle
  /\ Continue(r, [at |-> "old", ids |-> {n \in Ids : rows[n].day < day - Retention}])
  /\ UNCHANGED <<rows, made, alerts, walk>> /\ UNCHANGED Others

CommitOld(r) ==
  /\ req[r].at = "old"
  /\ rows' = Restrict(rows, Ids \ req[r].ids)
  /\ Disturb
  /\ Continue(r, Idle)
  /\ UNCHANGED <<made, alerts>> /\ UNCHANGED Others

(* A client asks for page after page until the total is reached.  A request *)
(* counts the rows and then reads its page.                                *)
StartWalk(filter) ==
  /\ ~walk.on
  /\ Ids # {}
  /\ walk' = [on |-> TRUE, stage |-> "count", filter |-> filter, skip |-> 0, total |-> 0, late |-> 0,
              start |-> Chosen(filter), seen |-> {}, disturbed |-> FALSE]
  /\ UNCHANGED <<req, rows, made, alerts>> /\ UNCHANGED Others

CountRows ==
  /\ walk.on /\ walk.stage = "count"
  /\ walk' = [walk EXCEPT !.stage = "page", !.total = Cardinality(Ids)]
  /\ UNCHANGED <<req, rows, made, alerts>> /\ UNCHANGED Others

(* walk.late, for the property only: the rows created between the two      *)
(* queries.                                                                *)
ReadPage ==
  LET answer == ListResponse(walk.filter, walk.skip, walk.total) IN
  /\ walk.on /\ walk.stage = "page"
  /\ walk' = [walk EXCEPT !.stage = IF walk.skip + Limit >= answer.total THEN "done" ELSE "count",
                          !.skip = @ + Limit,
                          !.total = 0,
                          !.late = Cardinality(Ids) - answer.total,
                          !.seen = @ \cup answer.notifications]
  /\ UNCHANGED <<req, rows, made, alerts>> /\ UNCHANGED Others

-----------------------------------------------------------------------------
(* LoanReminderService *)

DaysUntilDue == loan.due - day

(* check_loan_due_dates *)
Upcoming == loan.status = "active" /\ 0 <= DaysUntilDue /\ DaysUntilDue <= ReminderDays
(* get_overdue_loans *)
Overdue == loan.status = "active" /\ DaysUntilDue < 0

LoanStats ==
  [active |-> IF loan.status = "active" THEN 1 ELSE 0,
   upcoming |-> IF loan.status = "active" /\ 0 <= DaysUntilDue /\ DaysUntilDue <= 5 THEN 1 ELSE 0,
   overdue |-> IF Overdue THEN 1 ELSE 0]

CheckLoans(r) ==
  /\ req[r] = Idle
  /\ Upcoming
  /\ Continue(r, [at |-> "remind", kind |-> "loan_reminder"])
  /\ UNCHANGED <<rows, made, alerts, walk>> /\ UNCHANGED Others

CheckOverdue(r) ==
  /\ req[r] = Idle
  /\ Overdue
  /\ Continue(r, [at |-> "remind", kind |-> "loan_overdue_alert"])
  /\ UNCHANGED <<rows, made, alerts, walk>> /\ UNCHANGED Others

(* create_payment_reminder, send_overdue_alerts: the loan isn't read again *)
(* and earlier reminders aren't looked for.                                *)
SendReminder(r) ==
  /\ req[r].at = "remind"
  /\ CreateNotification(req[r].kind)
  /\ Continue(r, Idle)
  /\ UNCHANGED <<alerts, walk>> /\ UNCHANGED Others

-----------------------------------------------------------------------------
(* BudgetAlertService *)

Level(share) == CASE share >= 100 -> "critical"
                  [] share >= 90 /\ share < 100 -> "high"
                  [] share >= 80 /\ share < 90 -> "medium"
                  [] OTHER -> "none"

(* check_budget_status *)
CheckBudget(r) ==
  /\ req[r] = Idle
  /\ Level(spent) # "none"
  /\ Continue(r, [at |-> "budget", share |-> spent])
  /\ UNCHANGED <<rows, made, alerts, walk>> /\ UNCHANGED Others

(* check_and_alert_budget: the notification is committed, and then the     *)
(* alert, in two transactions.                                             *)
NotifyBudget(r) ==
  /\ req[r].at = "budget"
  /\ CreateNotification("budget_alert")
  /\ Continue(r, [req[r] EXCEPT !.at = "alert"])
  /\ UNCHANGED <<alerts, walk>> /\ UNCHANGED Others

(* utilization_at_alert is NUMERIC(5,2): from 1000 percent on the INSERT   *)
(* fails.                                                                  *)
AlertBudget(r) ==
  /\ req[r].at = "alert"
  /\ alerts' = IF req[r].share < 1000 THEN Append(alerts, Level(req[r].share)) ELSE alerts
  /\ Continue(r, Idle)
  /\ UNCHANGED <<rows, made, walk>> /\ UNCHANGED Others

-----------------------------------------------------------------------------
(* What others do: a payment moves the due date or closes the loan, and    *)
(* money is spent; a job dies.                                             *)
PayLoan == /\ loan.status = "active"
           /\ \E s \in {"active", "closed"}, d \in day .. MaxDay : loan' = [status |-> s, due |-> d]
           /\ UNCHANGED <<req, rows, made, alerts, walk, spent, day>>

Spend(p) == /\ spent' = p
            /\ UNCHANGED <<req, rows, made, alerts, walk, loan, day>>

DayPasses == /\ day < MaxDay
             /\ day' = day + 1
             /\ UNCHANGED <<req, rows, made, alerts, walk, loan, spent>>

Finish(r) == /\ req[r] # Idle
             /\ Continue(r, Idle)
             /\ UNCHANGED <<rows, made, alerts, walk>> /\ UNCHANGED Others

Serve(r) ==
  \/ \E id \in Ids : Load(r, id)
  \/ CommitRead(r)
  \/ CommitDelete(r)
  \/ MarkAllRoute(r)
  \/ LoadUnread(r)
  \/ CommitAllRead(r)
  \/ LoadOld(r)
  \/ CommitOld(r)
  \/ CheckLoans(r)
  \/ CheckOverdue(r)
  \/ SendReminder(r)
  \/ CheckBudget(r)
  \/ NotifyBudget(r)
  \/ AlertBudget(r)
  \/ Finish(r)

Next ==
  \/ \E r \in Requests : Serve(r)
  \/ \E f \in Filters : StartWalk(f)
  \/ CountRows
  \/ ReadPage
  \/ PayLoan
  \/ \E p \in Shares : Spend(p)
  \/ DayPasses

Spec == Init /\ [][Next]_vars

-----------------------------------------------------------------------------

TypeOK ==
  /\ Ids \subseteq 1 .. MaxRows /\ rows \in [Ids -> [kind : Kinds, read : BOOLEAN, day : 0 .. MaxDay]]
  /\ made \in [Kinds -> 0 .. MaxRows]
  /\ alerts \in Seq({"medium", "high", "critical"})
  /\ loan \in [status : {"active", "closed"}, due : 0 .. MaxDay]
  /\ spent \in Shares \cup {0}
  /\ day \in 0 .. MaxDay
  /\ \A r \in Requests : req[r].at \in {"idle", "loaded", "unread", "old", "remind", "budget", "alert", "answered"}

(* A client that walks the pages while notifications arrive misses no more *)
(* of those that were there when it began than arrived between the count   *)
(* and the page of its last request, unless one is read or deleted         *)
(* meanwhile; each may be seen twice.                                      *)
WalkMissesOnlyLate ==
  (walk.on /\ walk.stage = "done" /\ ~walk.disturbed) => Cardinality(walk.start \ walk.seen) <= walk.late
=============================================================================
