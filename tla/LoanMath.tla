------------------------------ MODULE LoanMath ------------------------------
(***************************************************************************)
(* The arithmetic of loans: EMICalculator, InterestCalculator,             *)
(* PrepaymentCalculator, the repayment schedule and DueDate.  Money in the *)
(* database is whole cents.  The code computes with floats, which are here *)
(* whole fine units, Unit to a cent; a monthly rate r is the interest, in  *)
(* fine units, on one cent, so that the interest on whole cents is exact.  *)
(* Operators whose name ends in F take and return fine units.              *)
(***************************************************************************)
EXTENDS Integers, Sequences, Functions

CONSTANTS Unit  \* fine units in a cent

ASSUME UnitAssumption == Unit \in Nat \ {0}

Least(a, b) == IF a < b THEN a ELSE b
Most(a, b)  == IF a < b THEN b ELSE a

(* NUMERIC(15,2) and round(x, 2): the nearest cent. *)
Rounded(num, den) == (2 * num + den) \div (2 * den)
Round(x) == Rounded(x, Unit)

-----------------------------------------------------------------------------
(* EMICalculator *)

Power(b, n) == LET p[k \in 0 .. n] == IF k = 0 THEN 1 ELSE b * p[k - 1] IN p[n]

(* The annuity formula over fractions: with g = 1 + r/Unit,                *)
(* P * (r/Unit) * g^n / (g^n - 1).                                         *)
CalculateEmi(P, r, n) ==
  IF n = 0 THEN 0
  ELSE IF r = 0 THEN Rounded(P, n)
  ELSE LET up == Power(Unit + r, n) IN
       Rounded(P * r * up, Unit * (up - Power(Unit, n)))

TotalInterest(P, r, n) == Most(0, CalculateEmi(P, r, n) * n - P)

(* The least n with g^n >= 1 + P*r/EMI: the logarithms of the code, over   *)
(* fractions.  Without interest the quotient is truncated.                 *)
TenureFromEmi(P, r, emi) ==
  IF r = 0 THEN (IF emi > 0 THEN P \div emi ELSE 0)
  ELSE IF emi * Unit <= P * r THEN 0
  ELSE CHOOSE n \in 1 .. P :
         /\ Power(Unit + r, n) * emi * Unit >= Power(Unit, n) * (emi * Unit + P * r)
         /\ \A m \in 1 .. n - 1 :
              Power(Unit + r, m) * emi * Unit < Power(Unit, m) * (emi * Unit + P * r)

InterestPortion(balance, r) == Round(balance * r)
PrincipalPortion(emi, interest) == Most(0, emi - interest)

-----------------------------------------------------------------------------
(* InterestCalculator *)

(* What the loop has left and has added up after k months; it stops at a   *)
(* balance of zero.                                                        *)
RemainingInterest(balance, r, emi, months) ==
  LET loop[k \in 0 .. months] ==
        IF k = 0 THEN [left |-> balance * Unit, sum |-> 0]
        ELSE LET was == loop[k - 1]
                 interest == (was.left * r) \div Unit
                 principal == Least(emi * Unit - interest, was.left)
             IN  IF k > 1 /\ was.left <= 0 THEN was
                 ELSE [left |-> was.left - principal, sum |-> was.sum + Round(interest)]
  IN  loop[months].sum

(* Rates and balances by loan; 0 without a balance, else to two digits. *)
WeightedAverageRate(balances, rates) ==
  LET total == SumFunction(balances) IN
  IF total = 0 THEN 0
  ELSE Rounded(100 * SumFunction([l \in DOMAIN balances |-> balances[l] * rates[l]]), total)

-----------------------------------------------------------------------------
(* PrepaymentCalculator *)

(* Mutant: the new tenure is that of the old balance. *)
PrepaymentImpactOldBalance(balance, prepayment, r, emi, remaining) ==
  LET left == Most(0, balance - prepayment)
      tenure == IF left > 0 THEN TenureFromEmi(balance, r, emi) ELSE 0
      before == RemainingInterest(balance, r, emi, remaining)
      after == IF left > 0 THEN RemainingInterest(left, r, emi, tenure) ELSE 0
  IN  [left |-> left, reduction |-> remaining - tenure, savings |-> before - after]

PrepaymentImpact(balance, prepayment, r, emi, remaining) ==
  LET left == Most(0, balance - prepayment)
      tenure == IF left > 0 THEN TenureFromEmi(left, r, emi) ELSE 0
      before == RemainingInterest(balance, r, emi, remaining)
      after == IF left > 0 THEN RemainingInterest(left, r, emi, tenure) ELSE 0
  IN  [left |-> left, reduction |-> remaining - tenure, savings |-> before - after]

EmiChangeImpact(P, r, n, newEmi) ==
  LET tenure == TenureFromEmi(P, r, newEmi) IN
  [originalEmi |-> CalculateEmi(P, r, n), tenure |-> tenure, reduction |-> n - tenure,
   savings |-> TotalInterest(P, r, n) - TotalInterest(P, r, tenure)]

-----------------------------------------------------------------------------
(* The repayment schedule *)

(* The balance left after each instalment, up to the one that ends it.     *)
(* The last principal portion is at most what is left.                     *)
Schedule(P, r, emi, n) ==
  LET step(b) == b - Least(emi * Unit - (b * r) \div Unit, b)
      left[k \in 0 .. n] == IF k = 0 THEN P * Unit ELSE step(left[k - 1])
      ends == {k \in 1 .. n : left[k] <= 0}
      len == IF ends = {} THEN n ELSE CHOOSE k \in ends : \A j \in ends : k <= j
  IN  [k \in 1 .. len |-> Most(0, left[k])]

(* get_loan_summary: the balance shown for a loan without payments of      *)
(* which `past' instalments lie in the past.                               *)
SummaryBalanceF(schedule, past) ==
  IF past > 0 /\ past < Len(schedule) THEN schedule[past] ELSE schedule[Len(schedule)]

(* The same in the service that is to replace it. *)
SplitSummaryBalanceF(schedule, past, balance) ==
  IF past > 0 THEN schedule[past] ELSE balance * Unit

-----------------------------------------------------------------------------
(* A payment of `amount' on a balance: LoanService.make_payment. *)

PaymentSplit(balance, r, amount) ==
  LET principal == Most(0, amount * Unit - balance * r)
      interest == IF amount * Unit < balance * r THEN amount * Unit ELSE balance * r
  IN  [principal |-> principal, interest |-> interest,
       left |-> Most(0, balance * Unit - principal)]

(* LoanPaymentService.make_payment, which is to replace it. *)
SplitPaymentSplit(balance, r, amount) ==
  LET principal == Most(0, amount * Unit - balance * r)
  IN  [principal |-> principal, interest |-> balance * r,
       left |-> Most(0, balance * Unit - principal)]

-----------------------------------------------------------------------------
(* DueDate *)

IsLeap(y) == y % 4 = 0 /\ (y % 100 # 0 \/ y % 400 = 0)
DaysIn(y, m) == IF m \in {4, 6, 9, 11} THEN 30
                ELSE IF m # 2 THEN 31
                ELSE IF IsLeap(y) THEN 29 ELSE 28

(* Mutant: the year after a February is leap or not as the one before. *)
NextDueDateFixed(d) ==
  LET y == IF d.m = 12 THEN d.y + 1 ELSE d.y
      m == IF d.m = 12 THEN 1 ELSE d.m + 1
  IN  [y |-> y, m |-> m, d |-> Least(d.d, DaysIn(1, m))]

(* The next month, on the same day or on its last. *)
NextDueDate(d) ==
  LET y == IF d.m = 12 THEN d.y + 1 ELSE d.y
      m == IF d.m = 12 THEN 1 ELSE d.m + 1
  IN  [y |-> y, m |-> m, d |-> Least(d.d, DaysIn(y, m))]

(* The dates of a schedule: each is computed from the one before. *)
DueDates(start, n) ==
  LET due[k \in 0 .. n] == IF k = 0 THEN start ELSE NextDueDate(due[k - 1])
  IN  [k \in 1 .. n |-> due[k]]
=============================================================================
