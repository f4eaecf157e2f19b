------------------------------- MODULE MCMoney -------------------------------
(***************************************************************************)
(* The loan services, for TLC.  A behaviour exercises one of them: the     *)
(* ledger of loans with the financial profile, or the calculators, whose   *)
(* routes share no row with it.                                            *)
(*                                                                         *)
(* The ledger runs at a rate of a twelfth a month.  A payment of four      *)
(* cents on a loan of seven leaves a fraction of a cent; a second one      *)
(* leaves nothing that a column can hold, without closing the loan; a      *)
(* third one closes it.  A loan starts this month or a month ago, so that  *)
(* an edit may find an instalment of the past or none.  Edits of the       *)
(* principal, the rate or the term calculate the one instalment there is,  *)
(* so what edits change is the status, the start and the balance.          *)
(*                                                                         *)
(* The calculators answer for loans of up to 30 cents over up to five      *)
(* months, without interest and at a twelfth a month, for which an         *)
(* instalment of two cents is less than the interest on 30 and on 29, and  *)
(* more than that on 18; dates start around the ends of months in a leap   *)
(* year and before a year that is none.  MoneyProofs holds for any values  *)
(* of these constants.                                                     *)
(***************************************************************************)
EXTENDS LoanLedger, TLC

CONSTANTS Borrowed, Rates, Terms, Instalments, Prepayments,  \* see LoanCalculator
          Years, StartMonths, StartDays         \* of the first dates of loans

VARIABLES service, question, answer

(* The days there are. *)
Dates == {s \in [y : Years, m : StartMonths, d : StartDays] : s.d <= DaysIn(s.y, s.m)}

Calculator == INSTANCE LoanCalculator WITH Principals <- Borrowed, Starts <- Dates

ASSUME CalculatorAssumption == Calculator!CalculatorAssumption

moneyVars == <<loans, rows, profile, req, lowest, service, question, answer>>

MoneyInit ==
  /\ Init
  /\ \/ service = "calculator" /\ Calculator!Init
     \/ service = "ledger" /\ question = Calculator!None /\ answer = Calculator!None

LedgerStep == service = "ledger" /\ Next /\ UNCHANGED <<service, question, answer>>
CalculatorStep == service = "calculator" /\ Calculator!Next /\ UNCHANGED <<vars, service>>

MoneyNext == LedgerStep \/ CalculatorStep

MoneySpec == MoneyInit /\ [][MoneyNext]_moneyVars

(* The rows, the requests and the answers have their types, in the ledger  *)
(* and in the calculators.                                                 *)
MoneyTypeOK ==
  /\ TypeOK
  /\ service = "calculator" => Calculator!TypeOK

(* The schedules and the services agree with reference definitions, and    *)
(* so does what a client is told of changes to a loan, see LoanCalculator. *)
CalculationsSound == service = "calculator" => Calculator!CalculationsSound

ImpactsSound == service = "calculator" => Calculator!ImpactsSound

Symmetry == Permutations(Requests)
=============================================================================
