--------------------------- MODULE LoanCalculator ---------------------------
(***************************************************************************)
(* The questions a client asks about loans that change nothing: schedules, *)
(* summaries, what a higher instalment or a prepayment would do.  A state  *)
(* holds one question and, after one step, its answer, so that the runs    *)
(* compare LoanMath with reference definitions on every input in bounds.   *)
(***************************************************************************)
EXTENDS LoanMath, FiniteSets, FiniteSetsExt

CONSTANTS Principals,  \* cents
          Rates,       \* fine units on a cent and month
          Terms,       \* months
          Instalments, \* EMIs a client names, cents
          Prepayments, \* cents
          Starts       \* first dates of loans: [y, m, d]

CalculatorAssumption ==
  /\ Principals \subseteq Nat \ {0} /\ Rates \subseteq Nat
  /\ Terms \subseteq Nat \ {0} /\ Instalments \subseteq Nat /\ Prepayments \subseteq Nat
  /\ Starts \subseteq [y : Nat, m : 1 .. 12, d : Nat]

VARIABLES question, answer

vars == <<question, answer>>

None == [kind |-> "none"]

LoanTerms == [P : Principals, r : Rates, n : Terms, emi : Instalments]

LoanQuestions == {"emi impact", "prepayment", "summary", "payment",
                  "calculate emi", "prepay in month"}

Init == /\ \/ \E k \in LoanQuestions, l \in LoanTerms : question = [kind |-> k, loan |-> l]
           \/ \E s \in Starts, n \in Terms : question = [kind |-> "schedule dates", start |-> s, n |-> n]
           \/ \E a, b \in LoanTerms, k \in {"portfolio", "compare"} :
                question = [kind |-> k, loans |-> {a, b}]
        /\ answer = None

Answer(kind, value) ==
  /\ question.kind = kind
  /\ answer = None
  /\ answer' = [kind |-> kind, value |-> value]
  /\ UNCHANGED question

(* POST /loans/calculate-emi-impact: the instalment the client pays now is *)
(* taken for the new one.                                                  *)
CalculateEmiImpact ==
  LET l == question.loan IN
  Answer("emi impact", EmiChangeImpact(l.P, l.r, l.n, l.emi))

(* POST /loans/{loan_id}/analyze-prepayment, of every amount. *)
AnalyzePrepayment ==
  LET l == question.loan IN
  Answer("prepayment",
         [amount \in Prepayments |-> PrepaymentImpact(l.P, amount, l.r, l.emi, l.n)])

(* The same loan in LoanAnalyticsService, which is to replace the analytic *)
(* half of LoanService; it keeps the balance of a loan nothing is due on.  *)
SplitSchedule(l) == Schedule(l.P, l.r, CalculateEmi(l.P, l.r, l.n), l.n)

(* GET /loans/{loan_id}/schedule and /summary, of a loan without payments, *)
(* by how many instalments are due; in both services.                      *)
GetSummary ==
  LET l == question.loan
      schedule == Schedule(l.P, l.r, CalculateEmi(l.P, l.r, l.n), l.n)
  IN  Answer("summary",
             [schedule |-> schedule,
              shown |-> [past \in 0 .. Len(schedule) |-> SummaryBalanceF(schedule, past)],
              split |-> [past \in 0 .. Len(schedule) |-> SplitSummaryBalanceF(SplitSchedule(l), past, l.P)]])

(* The split of every payment up to more than the loan, in both services. *)
SplitPayment ==
  LET l == question.loan IN
  Answer("payment", [amount \in 1 .. l.P + 2 |->
                       [now |-> PaymentSplit(l.P, l.r, amount),
                        split |-> SplitPaymentSplit(l.P, l.r, amount)]])

GetScheduleDates ==
  Answer("schedule dates", DueDates(question.start, question.n))

(* POST /loans/calculate-emi, /compare and /prepayment-analysis call a     *)
(* method LoanService does not have; the AttributeError becomes a 400.  A  *)
(* comparison calls it for its first option, a prepayment for the loan as  *)
(* it was.                                                                 *)
CalculateEmiRoute == Answer("calculate emi", "400")
CompareLoans == Answer("compare", "400")
PrepayInMonth == Answer("prepay in month", "400")

(* GET /loans/analytics/comprehensive: totals over the active loans, with  *)
(* what their schedules still charge.                                      *)
ComprehensiveAnalysis ==
  LET ls == question.loans
      interest(l) == LET s == Schedule(l.P, l.r, l.emi, l.n)
                         before(k) == IF k = 1 THEN l.P * Unit ELSE s[k - 1]
                     IN  MapThenSumSet(LAMBDA k : (before(k) * l.r) \div Unit, 1 .. Len(s))
  IN  Answer("portfolio",
             [outstanding |-> MapThenSumSet(LAMBDA l : l.P, ls),
              emi |-> MapThenSumSet(LAMBDA l : l.emi, ls),
              rate |-> WeightedAverageRate([l \in ls |-> l.P], [l \in ls |-> l.r]),
              interest |-> MapThenSumSet(interest, ls)])

Next == \/ CalculateEmiImpact
        \/ AnalyzePrepayment
        \/ GetSummary
        \/ SplitPayment
        \/ GetScheduleDates
        \/ CalculateEmiRoute
        \/ CompareLoans
        \/ PrepayInMonth
        \/ ComprehensiveAnalysis

Spec == Init /\ [][Next]_vars

-----------------------------------------------------------------------------

TypeOK ==
  /\ question.kind \in LoanQuestions \cup {"schedule dates", "portfolio", "compare"}
  /\ answer = None \/ answer.kind = question.kind

Answered(kind) == answer # None /\ question.kind = kind

(* What l.n payments of `emi' leave of a debt when the last one may be     *)
(* smaller, the recurrence the annuity formula solves.                     *)
LeftAfter(P, r, emi, n) ==
  LET b[k \in 0 .. n] == IF k = 0 THEN P * Unit
                         ELSE b[k - 1] + (b[k - 1] * r) \div Unit - emi * Unit
  IN  b[n]

(* EMICalculator.calculate_emi and the schedule fit together: with the     *)
(* calculated instalment the schedule ends within its term, or what it     *)
(* leaves is less than what half a cent in every instalment, which is all  *)
(* that rounding takes, grows to by the end of the term; and the balances  *)
(* it shows are those of the recurrence.                                   *)
ScheduleAmortises ==
  Answered("summary") =>
    LET l == question.loan
        s == answer.value.schedule
        emi == CalculateEmi(l.P, l.r, l.n)
    IN  /\ Len(s) <= l.n
        /\ IF l.r = 0 THEN 2 * s[Len(s)] < l.n * Unit
           ELSE 2 * l.r * Power(Unit, l.n) * s[Len(s)]
                  < Unit * Unit * (Power(Unit + l.r, l.n) - Power(Unit, l.n))
        /\ \A k \in 1 .. Len(s) : s[k] = Most(0, LeftAfter(l.P, l.r, emi, k))
        /\ Len(s) = l.n \/ s[Len(s)] = 0

(* The two services that record payments leave the same balance, though    *)
(* the one that is to replace the other records more interest than was     *)
(* paid when a payment does not cover it.                                  *)
PaymentServicesAgree ==
  Answered("payment") =>
    \A amount \in DOMAIN answer.value :
      LET a == answer.value[amount].now  b == answer.value[amount].split IN
      /\ a.left = b.left
      /\ a.principal = b.principal
      /\ a.principal + a.interest = amount * Unit
      /\ b.interest >= a.interest

(* Due dates are computed one from another, so a short month shortens all  *)
(* that follow: the k-th is in the k-th month after the start, on the      *)
(* start's day or the last day of the shortest month in between.           *)
DueDatesByMonth ==
  Answered("schedule dates") =>
    LET s == question.start
        month(k) == s.y * 12 + s.m - 1 + k
        length(k) == DaysIn(month(k) \div 12, (month(k) % 12) + 1)
    IN  \A k \in 1 .. question.n :
          LET d == answer.value[k] IN
          /\ d.y * 12 + d.m - 1 = month(k)
          /\ d.d = Min({s.d} \cup {length(j) : j \in 1 .. k})

(* The balances shown for a loan without payments are those of the         *)
(* schedule, and both services show the same, but for a loan of which no   *)
(* instalment is due yet: one shows what is left at the end of the         *)
(* schedule, the other the whole loan.                                     *)
SummariesFollow ==
  Answered("summary") =>
    LET l == question.loan
        v == answer.value
        end == Len(v.schedule)
    IN  /\ \A past \in 1 .. end : v.shown[past] = v.schedule[past] /\ v.split[past] = v.schedule[past]
        /\ v.shown[0] = v.schedule[end]
        /\ v.split[0] = l.P * Unit

(* The weighted average lies between the rates it averages. *)
AverageBetweenRates ==
  Answered("portfolio") =>
    LET rates == {l.r : l \in question.loans} IN
    /\ answer.value.rate >= 100 * Min(rates)
    /\ answer.value.rate <= 100 * Max(rates)

(* The schedule, both services and the averages agree with the reference   *)
(* definitions above.                                                      *)
CalculationsSound ==
  /\ ScheduleAmortises
  /\ SummariesFollow
  /\ PaymentServicesAgree
  /\ DueDatesByMonth
  /\ AverageBetweenRates

(* What n payments of `emi' leave of a debt of P, exactly: in cents, to be *)
(* divided by Unit to the power of n; below zero if it is repaid.          *)
Owed(P, r, emi, n) ==
  LET d[k \in 0 .. n] == IF k = 0 THEN P ELSE (Unit + r) * d[k - 1] - emi * Power(Unit, k)
  IN  d[n]

(* An instalment that is more than the interest brings the debt down.      *)
Covers(P, r, emi) == Owed(P, r, emi, 1) < P * Unit

(* The months that an instalment is said to need are no more than it       *)
(* needs: before the last one, something is owed.  They may be fewer,      *)
(* since the code takes log(1 + P*r/EMI) for -log(1 - P*r/EMI), and none   *)
(* for an instalment that never repays the debt.                           *)
NotTooLong(P, r, emi, tenure) ==
  IF r = 0 THEN tenure * emi <= P /\ (tenure = 0 => P < emi \/ emi = 0)
  ELSE IF tenure > 0 THEN Covers(P, r, emi) /\ Owed(P, r, emi, tenure - 1) > 0
  ELSE P = 0 \/ ~Covers(P, r, emi)

(* A higher instalment is never said to take longer than it does, and if   *)
(* it shortens the loan, it costs no more than half a cent for every       *)
(* instalment, which is what rounding takes.                               *)
EmiImpactSound ==
  Answered("emi impact") =>
    LET l == question.loan  v == answer.value IN
    /\ NotTooLong(l.P, l.r, l.emi, v.tenure)
    /\ v.tenure <= l.n => 2 * v.savings >= -(l.n + v.tenure)

(* What is left after a prepayment is never said to take longer than it    *)
(* does; and while the instalment is more than the interest on the whole   *)
(* balance, prepaying more never saves less, neither months nor interest.  *)
(* If it is not, the months said are 0, and the interest saved is all      *)
(* there was, until enough is prepaid.                                     *)
PrepaymentSound ==
  Answered("prepayment") =>
    LET l == question.loan  v == answer.value
        none == RemainingInterest(l.P, l.r, l.emi, l.n)
    IN  /\ \A a \in Prepayments : NotTooLong(v[a].left, l.r, l.emi, l.n - v[a].reduction)
        /\ \A a, b \in Prepayments :
             (Covers(l.P, l.r, l.emi) /\ a <= b) =>
               v[a].savings <= v[b].savings /\ v[a].reduction <= v[b].reduction
        /\ \A a \in Prepayments :
             l.r > 0 /\ ~Covers(v[a].left, l.r, l.emi) => v[a].savings = none

(* The interest that PrepaymentCalculator adds up, month by month and      *)
(* rounded, is what the schedule charges, to half a cent a month.          *)
InterestAgrees ==
  Answered("portfolio") =>
    LET ls == question.loans
        counted == Unit * MapThenSumSet(LAMBDA l : RemainingInterest(l.P, l.r, l.emi, l.n), ls)
        margin == Unit * MapThenSumSet(LAMBDA l : l.n, ls)
    IN  /\ 2 * (answer.value.interest - counted) <= margin
        /\ 2 * (counted - answer.value.interest) <= margin

(* What a client is told of changes to its loan, against the recurrence    *)
(* and against the schedule.                                               *)
ImpactsSound == EmiImpactSound /\ PrepaymentSound /\ InterestAgrees
=============================================================================
