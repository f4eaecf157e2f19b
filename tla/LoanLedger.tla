----------------------------- MODULE LoanLedger -----------------------------
(***************************************************************************)
(* One user's loans, their payments and the financial profile derived from *)
(* them: LoanService behind the loan routes.  Each query and each commit   *)
(* is a step, since nothing is locked: sessions don't flush on their own,  *)
(* keep what they loaded, and write the columns that differ from it.       *)
(*                                                                         *)
(* Left out: the texts, and the dates with the months they imply; a loan   *)
(* knows only how many months its start lies in the past.                  *)
(***************************************************************************)
EXTENDS LoanMath, FiniteSets

CONSTANTS Requests,    \* requests of the user served at the same time
          Loans,       \* loan ids
          Principals,  \* what a client borrows, cents
          Emis,        \* instalments, given or calculated, cents
          Amounts,     \* payments, cents
          Incomes,     \* salary less nothing else, cents; 0 if not told
          Outgoings,   \* rent, insurance and subscriptions, cents
          Charges,     \* rates, fine units on a cent and month
          Lengths,     \* terms, months
          MaxPast,     \* bound on the months since the start of a loan
          MaxPayments  \* bound on the payments of one loan

ASSUME AmountsAssumption ==
  /\ IsFiniteSet(Loans)
  /\ Principals \subseteq Nat \ {0} /\ Amounts \subseteq Nat \ {0}
  /\ Emis \subseteq Nat /\ Incomes \subseteq Nat /\ Outgoings \subseteq Nat
  /\ Charges \subseteq Nat /\ Lengths \subseteq Nat \ {0} /\ MaxPast \in Nat /\ MaxPayments \in Nat

VARIABLES
  loans,    \* the loans table; a loan not yet created or deleted has no row
  rows,     \* the loan_payments of each loan: how many, their principal portions
  profile,  \* the row of user_financial_profiles
  req,      \* what each request has read
  lowest    \* history: the least amount the loan was ever set to

vars == <<loans, rows, profile, req, lowest>>

Statuses == {"active", "closed", "defaulted", "restructured"}

(* Of these only the status counts. *)
NoLoan(s) == [status |-> s, principal |-> 0, balance |-> 0, rate |-> 0, term |-> 1, emi |-> 0, past |-> 0]
Exists(l) == loans[l].status \notin {"new", "deleted"}
Idle == [at |-> "idle"]

Active == {l \in Loans : loans[l].status = "active"}
EmisOf(L) == SumFunction([l \in L |-> loans[l].emi])
BalancesOf(L) == SumFunction([l \in L |-> loans[l].balance])
ActiveEmi == EmisOf(Active)

Init ==
  /\ loans = [l \in Loans |-> NoLoan("new")]
  /\ rows = [l \in Loans |-> [count |-> 0, principal |-> 0]]
  /\ profile = [exists |-> FALSE, income |-> 0, outgoings |-> 0, emi |-> 0, disposable |-> 0]
  /\ req = [r \in Requests |-> Idle]
  /\ lowest = [l \in Loans |-> 0]

(* A commit of r: what other requests have read for the profile may be     *)
(* stale now.                                                              *)
Go(r, next) ==
  req' = [q \in Requests |-> IF q = r THEN next
                             ELSE IF req[q].at \in {"profile", "store"}
                                  THEN [req[q] EXCEPT !.alone = FALSE] ELSE req[q]]
Continue(r, next) == req' = [req EXCEPT ![r] = next]

-----------------------------------------------------------------------------
(* Loans *)

(* POST /loans: the loan is committed, then the profile is refreshed. *)
CreateLoan(r, l, p, rate, term, e, past) ==
  /\ req[r] = Idle
  /\ loans[l].status = "new"
  /\ loans' = [loans EXCEPT ![l] =
       [status |-> "active", principal |-> p, balance |-> p, rate |-> rate, term |-> term, emi |-> e,
        past |-> past]]
  /\ lowest' = [lowest EXCEPT ![l] = p]
  /\ Go(r, [at |-> "sum"])
  /\ UNCHANGED <<rows, profile>>

LoadLoan(r, l) ==
  /\ req[r] = Idle
  /\ Exists(l)
  /\ Continue(r, [at |-> "loaded", loan |-> l, row |-> loans[l]])
  /\ UNCHANGED <<loans, rows, profile, lowest>>

(* update_loan asks for any payment before it decides on the balance. *)
LookForPayments(r) ==
  /\ req[r].at = "loaded"
  /\ Continue(r, [at |-> "editing", loan |-> req[r].loan, row |-> req[r].row,
                  paid |-> rows[req[r].loan].count > 0])
  /\ UNCHANGED <<loans, rows, profile, lowest>>

(* The columns of `old' that `new' changes, written over what is there.    *)
Written(current, old, new) ==
  [c \in DOMAIN current |-> IF new[c] # old[c] THEN new[c] ELSE current[c]]

(* What a client may change at once: texts, which are no columns here, the *)
(* status, the instalment, the start, and the principal, the rate and the  *)
(* term, of which any brings a calculated instalment.                      *)
Edits(row) ==
  LET named == [status : {row.status} \cup Statuses, principal : {row.principal} \cup Principals,
                balance : {row.balance}, rate : {row.rate} \cup Charges, term : {row.term} \cup Lengths,
                emi : {row.emi} \cup Emis, past : 0 .. MaxPast]
  IN  {e \in named : e.principal = row.principal /\ e.rate = row.rate /\ e.term = row.term}
        \cup {[e EXCEPT !.emi = CalculateEmi(e.principal, e.rate, e.term)] : e \in named}

(* "If no payments exist and outstanding_balance equals principal". *)
Rebases(edit) == edit.balance = edit.principal

(* The schedule looks for payments once more. *)
ReadSchedule(r) ==
  /\ req[r].at = "editing" /\ ~req[r].paid
  /\ \E edit \in Edits(req[r].row) : Rebases(edit)
  /\ Continue(r, [at |-> "scheduled", loan |-> req[r].loan, row |-> req[r].row,
                  recorded |-> rows[req[r].loan].count])
  /\ UNCHANGED <<loans, rows, profile, lowest>>

(* Payments that the schedule finds may lie on instalments to come, which  *)
(* count as well; with one found, the instalment due today doesn't.        *)
Counted(edit, recorded) ==
  IF recorded = 0 THEN {edit.past} ELSE Most(edit.past - 1, 0) .. (edit.past + recorded)

(* The balance after the instalments of the past, or, with none in the     *)
(* past, the one at the end of the schedule.                               *)
RebasedF(edit, past) ==
  LET s == Schedule(edit.principal, edit.rate, edit.emi, edit.term)
      n == Least(past, Len(s))
  IN  IF n > 0 THEN s[n] ELSE s[Len(s)]

(* A balance that is set is compared with the one that was loaded before   *)
(* the column rounds it.                                                   *)
Rebased(row, loaded, balance) ==
  [row EXCEPT !.balance = IF balance # loaded * Unit THEN Round(balance) ELSE @]

Edited(l, row) ==
  /\ loans' = [loans EXCEPT ![l] = row]
  /\ lowest' = [lowest EXCEPT ![l] = Least(@, row.balance)]

(* PUT /loans/{loan_id}; if the loan is gone, the UPDATE of no row fails.  *)
CommitEdit(r) ==
  LET l == req[r].loan
      row == req[r].row
  IN  /\ req[r].at \in {"editing", "scheduled"}
      /\ \E edit \in Edits(row) :
           /\ IF req[r].at = "editing" THEN req[r].paid \/ ~Rebases(edit) ELSE Rebases(edit)
           /\ IF Exists(l)
              THEN /\ LET new == Written(loans[l], row, edit) IN
                      IF req[r].at = "editing" THEN Edited(l, new)
                      ELSE \E past \in Counted(edit, req[r].recorded) :
                             Edited(l, Rebased(new, row.balance, RebasedF(edit, past)))
                   /\ Go(r, [at |-> "sum"])
              ELSE /\ Continue(r, Idle)
                   /\ UNCHANGED <<loans, lowest>>
      /\ UNCHANGED <<rows, profile>>

(* DELETE /loans/{loan_id}: payments go with their loan.  A second delete  *)
(* that already loaded the row matches none, and goes on as well.          *)
CommitDelete(r) ==
  LET l == req[r].loan IN
  /\ req[r].at = "loaded"
  /\ loans' = [loans EXCEPT ![l] = NoLoan("deleted")]
  /\ rows' = [rows EXCEPT ![l] = [count |-> 0, principal |-> 0]]
  /\ lowest' = [lowest EXCEPT ![l] = 0]
  /\ Go(r, [at |-> "sum"])
  /\ UNCHANGED profile

-----------------------------------------------------------------------------
(* Payments *)

(* POST /loans/{loan_id}/payments: only on an active loan. *)
LoadForPayment(r, l, a) ==
  /\ req[r] = Idle
  /\ loans[l].status = "active"
  /\ Continue(r, [at |-> "paying", loan |-> l, balance |-> loans[l].balance, rate |-> loans[l].rate, amount |-> a])
  /\ UNCHANGED <<loans, rows, profile, lowest>>

(* Mutant: the balance is reduced by the whole payment. *)
AfterPaymentWhole(row, balance, rate, a) ==
  LET left == Most(0, balance - a)
  IN  [row EXCEPT !.balance = left, !.status = IF left = 0 THEN "closed" ELSE @]

(* Mutant: closes on the last instalment, whatever is left. *)
AfterPaymentClosesEarly(row, balance, rate, a) ==
  LET left == PaymentSplit(balance, rate, a).left
  IN  [row EXCEPT !.balance = IF left # balance * Unit THEN Round(left) ELSE @,
                  !.status = IF left < row.emi * Unit THEN "closed" ELSE @]

(* Mutant: the status is written as it was read, unless the loan closes. *)
AfterPaymentOfCopy(row, balance, rate, a) ==
  LET left == PaymentSplit(balance, rate, a).left
  IN  [row EXCEPT !.balance = Round(left), !.status = IF left = 0 THEN "closed" ELSE "active"]

(* The loan after a payment that was computed from what was read: a        *)
(* balance that differs is written.  The loan is closed if the balance     *)
(* computed is zero, not if the balance stored is: the column rounds to a  *)
(* cent.                                                                   *)
AfterPayment(row, balance, rate, a) ==
  LET left == PaymentSplit(balance, rate, a).left
  IN  [row EXCEPT !.balance = IF left # balance * Unit THEN Round(left) ELSE @,
                  !.status = IF left = 0 THEN "closed" ELSE @]

(* The payment row and the loan in one commit; the foreign key fails if    *)
(* the loan is gone.  The profile isn't refreshed.                         *)
CommitPayment(r) ==
  LET l == req[r].loan
      repaid == PaymentSplit(req[r].balance, req[r].rate, req[r].amount).principal
  IN  /\ req[r].at = "paying"
      /\ rows[l].count < MaxPayments
      /\ IF Exists(l)
         THEN /\ loans' = [loans EXCEPT ![l] = AfterPayment(@, req[r].balance, req[r].rate, req[r].amount)]
              /\ rows' = [rows EXCEPT ![l] = [count |-> @.count + 1, principal |-> @.principal + Round(repaid)]]
              /\ Go(r, Idle)
         ELSE /\ Continue(r, Idle)
              /\ UNCHANGED <<loans, rows>>
      /\ UNCHANGED <<profile, lowest>>

(* Mutant: months pass beyond the bound. *)
MonthPassesOn ==
  /\ \E l \in Loans : Exists(l)
  /\ loans' = [l \in Loans |-> IF Exists(l) THEN [loans[l] EXCEPT !.past = @ + 1] ELSE loans[l]]
  /\ UNCHANGED <<rows, profile, req, lowest>>

MonthPasses ==
  /\ \E l \in Loans : Exists(l) /\ loans[l].past < MaxPast
  /\ loans' = [l \in Loans |-> IF Exists(l) THEN [loans[l] EXCEPT !.past = Least(@ + 1, MaxPast)]
                               ELSE loans[l]]
  /\ UNCHANGED <<rows, profile, req, lowest>>

-----------------------------------------------------------------------------
(* The financial profile *)

Disposable(p, emi) == IF p.income = 0 THEN p.disposable ELSE p.income - (emi + p.outgoings)

(* update_from_loans: the sum, the row and the commit are three steps. *)
SumEmis(r) ==
  /\ req[r].at = "sum"
  /\ Continue(r, [at |-> "profile", alone |-> TRUE, total |-> ActiveEmi])
  /\ UNCHANGED <<loans, rows, profile, lowest>>

LoadProfile(r) ==
  /\ req[r].at = "profile"
  /\ Continue(r, IF profile.exists
                 THEN [at |-> "store", alone |-> req[r].alone, total |-> req[r].total, row |-> profile]
                 ELSE Idle)
  /\ UNCHANGED <<loans, rows, profile, lowest>>

(* Mutant: the income is recalculated from the total it had. *)
StoreProfileOldTotal(r) ==
  LET old == req[r].row
      new == [old EXCEPT !.emi = req[r].total, !.disposable = Disposable(old, old.emi)]
  IN  /\ req[r].at = "store"
      /\ profile' = Written(profile, old, new)
      /\ Go(r, Idle)
      /\ UNCHANGED <<loans, rows, lowest>>

StoreProfile(r) ==
  LET old == req[r].row
      new == [old EXCEPT !.emi = req[r].total, !.disposable = Disposable(old, req[r].total)]
  IN  /\ req[r].at = "store"
      /\ profile' = Written(profile, old, new)
      /\ Go(r, Idle)
      /\ UNCHANGED <<loans, rows, lowest>>

(* GET /auth/financial-profile: creates an empty row if there is none.  Of *)
(* two that both find none, the second fails on the primary key.           *)
OpenProfile(r) ==
  /\ req[r] = Idle
  /\ ~profile.exists
  /\ profile' = [profile EXCEPT !.exists = TRUE]
  /\ Go(r, Idle)
  /\ UNCHANGED <<loans, rows, lowest>>

(* PUT /auth/financial-profile: update_profile sets the columns that are   *)
(* named, in a new row if it found none, and derives nothing: the          *)
(* disposable income stays as it was.  A second new row fails on the       *)
(* primary key.                                                            *)
LoadToEdit(r) ==
  /\ req[r] = Idle
  /\ Continue(r, [at |-> "filling", exists |-> profile.exists,
                  income |-> profile.income, outgoings |-> profile.outgoings])
  /\ UNCHANGED <<loans, rows, profile, lowest>>

EditProfile(r) ==
  /\ req[r].at = "filling"
  /\ IF profile.exists /\ ~req[r].exists
     THEN Continue(r, Idle) /\ UNCHANGED profile
     ELSE /\ \E i \in Incomes \cup {req[r].income}, o \in Outgoings \cup {req[r].outgoings} :
               profile' = [profile EXCEPT !.exists = TRUE,
                             !.income = IF i # req[r].income THEN i ELSE @,
                             !.outgoings = IF o # req[r].outgoings THEN o ELSE @]
          /\ Go(r, Idle)
  /\ UNCHANGED <<loans, rows, lowest>>

(* The process dies or the database fails, between two commits. *)
Fail(r) ==
  /\ req[r] # Idle
  /\ Continue(r, Idle)
  /\ UNCHANGED <<loans, rows, profile, lowest>>

Next ==
  \/ \E r \in Requests :
       \/ \E l \in Loans, p \in Principals, rate \in Charges, term \in Lengths, e \in Emis, past \in 0 .. MaxPast :
            CreateLoan(r, l, p, rate, term, e, past)
       \/ \E l \in Loans : LoadLoan(r, l)
       \/ LookForPayments(r)
       \/ ReadSchedule(r)
       \/ CommitEdit(r)
       \/ CommitDelete(r)
       \/ \E l \in Loans, a \in Amounts : LoadForPayment(r, l, a)
       \/ CommitPayment(r)
       \/ SumEmis(r)
       \/ LoadProfile(r)
       \/ StoreProfile(r)
       \/ OpenProfile(r)
       \/ LoadToEdit(r)
       \/ EditProfile(r)
       \/ Fail(r)
  \/ MonthPasses

Spec == Init /\ [][Next]_vars

-----------------------------------------------------------------------------
(* What the analytics route and the assistant's tools show *)

(* get_loan_analytics, from the database's sums: over every loan. *)
Overview ==
  LET ls == {l \in Loans : Exists(l)} IN [outstanding |-> BalancesOf(ls), emi |-> EmisOf(ls)]

(* Its fallback, from the rows: over the active ones. *)
OverviewFallback == [outstanding |-> BalancesOf(Active), emi |-> EmisOf(Active)]

(* get_loan_overview, of "the user's active loans": of every loan.         *)
ToolLoans ==
  LET ls == {l \in Loans : Exists(l)} IN
  [listed |-> {[loan |-> l, status |-> loans[l].status, emi |-> loans[l].emi] : l \in ls},
   emi |-> EmisOf(ls)]

(* get_financial_profile: its own disposable income, before instalments.   *)
ToolProfile ==
  [set |-> profile.exists, fixed |-> profile.outgoings, disposable |-> profile.income - profile.outgoings]

(* What is shown of the same rows fits together: a total over every loan   *)
(* is one over the active ones and one over the rest.                      *)
Shown ==
  /\ OverviewFallback.emi = ActiveEmi
  /\ Overview.emi = ToolLoans.emi
  /\ Overview.outstanding >= OverviewFallback.outstanding
  /\ ToolLoans.emi - ActiveEmi =
       SumFunction([x \in {x \in ToolLoans.listed : x.status # "active"} |-> x.emi])
  /\ ToolProfile.disposable \in Int

-----------------------------------------------------------------------------

LoanRows == [status : Statuses \cup {"new", "deleted"}, principal : Nat, balance : Nat,
             rate : Nat, term : Nat \ {0}, emi : Nat, past : 0 .. MaxPast]
Profiles == [exists : BOOLEAN, income : Nat, outgoings : Nat, emi : Nat, disposable : Int]
InFlight ==
  {Idle} \cup [at : {"loaded"}, loan : Loans, row : LoanRows]
         \cup [at : {"editing"}, loan : Loans, row : LoanRows, paid : BOOLEAN]
         \cup [at : {"scheduled"}, loan : Loans, row : LoanRows, recorded : Nat]
         \cup [at : {"paying"}, loan : Loans, balance : Nat, rate : Nat, amount : Amounts]
         \cup [at : {"sum"}]
         \cup [at : {"profile"}, alone : BOOLEAN, total : Nat]
         \cup [at : {"filling"}, exists : BOOLEAN, income : Nat, outgoings : Nat]
         \cup [at : {"store"}, alone : BOOLEAN, total : Nat, row : Profiles]

(* Rows and requests have their types, and what is shown fits together.    *)
TypeOK ==
  /\ loans \in [Loans -> LoanRows]
  /\ rows \in [Loans -> [count : Nat, principal : Nat]]
  /\ profile \in Profiles
  /\ req \in [Requests -> InFlight]
  /\ lowest \in [Loans -> Nat]
  /\ Shown

(* Overlapping payments write balances computed from what they read, so    *)
(* one may be lost, but never counted twice: what is left and what the     *)
(* payments say was repaid add up to at least the least amount the loan    *)
(* was ever set to.                                                        *)
NothingRepaidTwice ==
  \A l \in Loans : Exists(l) => loans[l].balance + rows[l].principal >= lowest[l]

Pays(l) == rows'[l].count > rows[l].count

(* A loan that a payment closes was repaid, whatever overlapped with it.   *)
ClosedWhenRepaid ==
  [][\A l \in Loans :
       (Pays(l) /\ loans[l].status # "closed" /\ loans'[l].status = "closed")
         => rows'[l].principal >= lowest[l]]_vars

(* A payment that was computed on an older copy of the loan doesn't bring  *)
(* back a loan closed, or set aside, meanwhile.                            *)
PaymentReopensNothing ==
  [][\A l \in Loans :
       (Pays(l) /\ loans[l].status # "active") => loans'[l].status # "active"]_vars

(* A refresh during which nothing else commits leaves the profile's total  *)
(* and disposable income as the loans and the profile's own columns say.   *)
RefreshAlone ==
  [][\A r \in Requests :
       (req[r].at = "store" /\ req[r].alone /\ StoreProfile(r)) =>
         /\ profile'.emi = ActiveEmi
         /\ profile'.income # 0 =>
              profile'.disposable = profile'.income - profile'.outgoings - profile'.emi]_vars
=============================================================================
