-------------------------- MODULE MCExpenseBudget --------------------------
(* Requests and primary keys are interchangeable; cells are not, since the *)
(* user budgets for one of them only.                                      *)
EXTENDS ExpenseBudget, TLC

Symmetry ==
  Permutations(Requests) \cup Permutations(Expenses) \cup Permutations(Budgets)
=============================================================================
