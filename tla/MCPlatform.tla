------------------------------ MODULE MCPlatform ------------------------------
(***************************************************************************)
(* What lies around the services, for TLC.  A behaviour exercises one of   *)
(* them: the rate limit, copies of answers, conversations with the         *)
(* assistant, or reports; they share nothing here.                         *)
(*                                                                         *)
(* Two paths of one rule and one that is excluded, and one user's key, for *)
(* keys share nothing; a lifetime of two ticks, long enough to be renewed  *)
(* and outlived; two overlapping messages on two workers, with a history   *)
(* of one turn, so that it is trimmed; two expenses, two budgets and two   *)
(* months, so that a category can be budgeted twice, or in another month   *)
(* only.  PlatformProofs holds for any values of these constants.          *)
(***************************************************************************)
EXTENDS RequestLimiter, TLC

CONSTANTS Browsers, Readers, Bodies, Ttl, MaxTime,           \* see ServedCopies
          Talks, Callers, Workers, MaxHistory, MaxQuestions, \* see Assistant
          ExpenseIds, BudgetIds, Categories, Amounts,        \* see Reports
          Allocations, Spendings,                            \* what a budget allocates and has spent
          Months, DaysPerMonth, Today, MaxAlerts             \* see Reports

VARIABLES service,
          time, body, leftAt, copy, lenient, request, display, entry, reader,
          redis, memory, asked, call, told,
          expenses, budgets, alerts, report, shown

copyVars == <<time, body, leftAt, copy, lenient, request, display, entry, reader>>
chatVars == <<redis, memory, asked, call, told>>
reportVars == <<expenses, budgets, alerts, report, shown>>

platformVars == <<vars, service, copyVars, chatVars, reportVars>>

Copies == INSTANCE ServedCopies WITH MaxClock <- MaxTime
Chat == INSTANCE Assistant
Report == INSTANCE Reports WITH Pots <- Allocations \X Spendings

ASSUME PlatformAssumption == Copies!CopiesAssumption /\ Chat!AssistantAssumption /\ Report!ReportsAssumption

CopiesStart ==
  IF service = "copies" THEN Copies!Init
  ELSE /\ time = 0 /\ body = "unused" /\ leftAt = 0 /\ copy = <<>> /\ lenient = {} /\ request = <<>>
       /\ display = <<>> /\ entry = <<>> /\ reader = <<>>

PlatformInit ==
  /\ service \in {"limiter", "copies", "chat", "reports"}
  /\ Init
  /\ CopiesStart
  /\ Chat!Init
  /\ Report!Init

LimiterStep == service = "limiter" /\ Next /\ UNCHANGED <<service, copyVars, chatVars, reportVars>>
CopiesStep == service = "copies" /\ Copies!Next /\ UNCHANGED <<service, vars, chatVars, reportVars>>
ChatStep == service = "chat" /\ Chat!Next /\ UNCHANGED <<service, vars, copyVars, reportVars>>
ReportStep == service = "reports" /\ Report!Next /\ UNCHANGED <<service, vars, copyVars, chatVars>>

PlatformNext == LimiterStep \/ CopiesStep \/ ChatStep \/ ReportStep

PlatformSpec == PlatformInit /\ [][PlatformNext]_platformVars

(* Sorted sets, copies, histories and rows have their types. *)
PlatformTypeOK == CASE service = "limiter" -> TypeOK
                    [] service = "copies" -> Copies!TypeOK
                    [] service = "chat" -> Chat!TypeOK
                    [] service = "reports" -> Report!TypeOK

(* See ServedCopies, Assistant and Reports. *)
StaleAtMostTtl == service = "copies" => Copies!StaleAtMostTtl
TurnsInOrder == service = "chat" => Chat!TurnsInOrder
PieAddsUp == service = "reports" => Report!PieAddsUp

Symmetry == Permutations(ExpenseIds) \cup Permutations(BudgetIds)
=============================================================================
