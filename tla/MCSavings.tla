------------------------------ MODULE MCSavings ------------------------------
(***************************************************************************)
(* Goals and notifications, for TLC.  A behaviour exercises the goals, the *)
(* notifications and what creates them, or a client that pages through the *)
(* notifications while a day does not end; the services share no row, only *)
(* the requests and the day.                                               *)
(*                                                                         *)
(* Goals have targets of 2.00 and 0.50: 1.49 is half a percent short of    *)
(* the third milestone of the first, and more than the second.  Pages hold *)
(* one notification, and the budget may be spent ten times over.           *)
(***************************************************************************)
EXTENDS GoalTracker, TLC

CONSTANTS Limit, ReminderDays, Retention, Filters, Shares, MaxRows, \* of Inbox
          InboxRows  \* bound on the notifications while nobody pages

VARIABLES service, rows, made, alerts, loan, spent, walk

boxVars == <<rows, made, alerts, loan, spent, walk>>

Box == INSTANCE Inbox

ASSUME InboxAssumption == Box!InboxAssumption

SavingsInit ==
  /\ service \in {"goals", "inbox", "pager"}
  /\ Init
  /\ Box!Init
  /\ service # "inbox" => loan.due = 0

GoalStep == service = "goals" /\ Next /\ UNCHANGED <<service, boxVars>>
InboxStep == service = "inbox" /\ UNCHANGED <<service, goals, notices, past, walk>> /\ Box!Next /\ Box!Made' <= InboxRows
PagerStep == service = "pager" /\ UNCHANGED <<service, goals, notices, past, loan, spent, day>> /\ Box!Next

SavingsNext == GoalStep \/ InboxStep \/ PagerStep

SavingsSpec == SavingsInit /\ [][SavingsNext]_<<vars, service, boxVars>>

(* The rows and the requests have their types. *)
SavingsTypeOK == IF service = "goals" THEN TypeOK ELSE Box!TypeOK

(* Paging, see Inbox. *)
WalkMissesOnlyLate == Box!WalkMissesOnlyLate

Symmetry == Permutations(Requests)
=============================================================================
