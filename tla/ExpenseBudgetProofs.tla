------------------------ MODULE ExpenseBudgetProofs ------------------------
(***************************************************************************)
(* Proofs about ExpenseBudget.                                             *)
(***************************************************************************)
EXTENDS ExpenseBudget, FiniteSums

(* The record of a request, whatever numbers it carries. *)
Shape(q) ==
  q \in [kind : {"none", "create", "delete", "budget"},
         stage : {"idle", "found", "added", "written", "loaded", "summed", "checked", "insert", "edit"},
         cell : Cells \cup {None}, expense : Expenses \cup {None},
         budget : Budgets \cup {None}, seen : {q.seen}, limit : {q.limit}, sum : {q.sum},
         raise : BOOLEAN, alone : BOOLEAN, failed : BOOLEAN]

Computing == {"loaded", "summed", "checked"}

(* The functions have their domains, and the rows and keys their types.    *)
(* The amounts are left open, as nothing but their type depends on what a  *)
(* sum over the rows adds up to: they come last, in NumbersInv.            *)
ShapeInv ==
  /\ expense \in [Expenses -> ExpenseRows \cup {None}]
  /\ budget \in [Budgets -> Cells \cup {None}]
  /\ limit = [b \in Budgets |-> limit[b]]
  /\ spent = [b \in Budgets |-> spent[b]]
  /\ unread \in [Budgets -> Nat]
  /\ held = [c \in Cells |-> held[c]]
  /\ req = [x \in Requests |-> req[x]]
  /\ \A x \in Requests : Shape(req[x])

(* What a request in flight may rely on.  A key it holds is not given to   *)
(* another row; the sum it carries was a total of its cell; and as long as *)
(* it is alone, what it loaded and summed is what the tables say.          *)
RequestInv(q) ==
  /\ q.stage # "idle" => q.cell \in Cells
  /\ q.stage \in {"found", "added"} => q.expense \in Expenses
  /\ q.stage \in {"insert", "edit"} => q.kind = "budget"
  /\ q.stage = "edit" => q.budget \in Budgets
  /\ q.raise => q.stage = "checked"
  /\ q.stage \in {"added", "written"} \cup Computing => q.kind # "budget"
  /\ q.stage \in Computing =>
       /\ q.budget \in Budgets
       /\ budget[q.budget] # None => budget[q.budget] = q.cell
       /\ q.stage # "loaded" => q.sum \in held[q.cell]
       /\ q.alone =>
            /\ BudgetsOf(q.cell) = {q.budget}
            /\ spent[q.budget] = q.seen
            /\ q.stage # "loaded" => q.sum = Total(q.cell)

RowsInv ==
  /\ \A c \in Cells : {0, Total(c)} \subseteq held[c]
  /\ \A b \in Budgets : budget[b] = None => spent[b] = 0
  /\ ShownWasTrue
  /\ AlertsHaveBudget

CountInv ==
  /\ \A c \in Cells : IsFiniteSet(BudgetsOf(c))
  /\ AlertsBounded
  /\ DuplicatesBounded

IInv ==
  /\ ShapeInv
  /\ \A x \in Requests : RequestInv(req[x])
  /\ RowsInv
  /\ CountInv

-----------------------------------------------------------------------------
(* What a step leaves alone *)

(* Outside the cells of C no sum and no budget changes; anywhere, history  *)
(* grows, and a budget's key changes hands only if no request holds it.    *)
Frame(C) ==
  /\ \A c \in Cells : held[c] \subseteq held'[c]
  /\ \A c \in Cells \ C :
       /\ Total(c)' = Total(c)
       /\ BudgetsOf(c)' = BudgetsOf(c)
       /\ \A b \in BudgetsOf(c) : spent'[b] = spent[b]
  /\ \A b \in Budgets : budget'[b] \in {budget[b], None} \/ FreeBudget(b)

(* Request x is disturbed if it works on a cell of C, and else unchanged. *)
Follows(x, C) ==
  req'[x] = IF req[x].cell \in C THEN [req[x] EXCEPT !.alone = FALSE] ELSE req[x]

LEMMA TotalSame ==
  ASSUME NEW c, ExpensesOf(c)' = ExpensesOf(c),
         \A e \in ExpensesOf(c) : expense'[e].amount = expense[e].amount
  PROVE  Total(c)' = Total(c)
<1>1. [e \in ExpensesOf(c) |-> expense[e].amount]' = [e \in ExpensesOf(c) |-> expense[e].amount]
  OBVIOUS
<1> QED  BY <1>1 DEF Total, SumOf

LEMMA InitIInv == Init => IInv
<1> SUFFICES ASSUME Init PROVE IInv
  OBVIOUS
<1> USE DEF Init, Idle
<1>1. ShapeInv
  BY DEF ShapeInv, Shape
<1>2. \A x \in Requests : RequestInv(req[x])
  BY DEF RequestInv, Computing
<1>3. RowsInv
  BY DEF RowsInv, ShownWasTrue, AlertsHaveBudget
<1>4. CountInv
  <2>1. \A c \in Cells : BudgetsOf(c) = {} /\ Inserting(c) = {}
    BY NoneAssumption DEF BudgetsOf, Inserting
  <2>2. \A b \in Budgets : Alerting(b) = {} /\ unread[b] = 0
    BY DEF Alerting
  <2>3. Cardinality(Requests) \in Nat /\ Cardinality({}) = 0
    BY RequestsAssumption, FS_CardinalityType, FS_EmptySet
  <2> HIDE DEF Init, Idle
  <2>4. AlertsBounded
    BY <2>2, <2>3 DEF AlertsBounded
  <2>5. DuplicatesBounded
    BY <2>1, <2>3 DEF DuplicatesBounded
  <2> QED  BY <2>1, <2>4, <2>5, FS_EmptySet DEF CountInv
<1> QED  BY <1>1, <1>2, <1>3, <1>4 DEF IInv

LEMMA FollowsKeeps ==
  ASSUME IInv, NEW C, Frame(C), NEW x \in Requests, Follows(x, C)
  PROVE  /\ Shape(req[x])'
         /\ RequestInv(req[x])'
         /\ \A b : x \in Alerting(b)' <=> x \in Alerting(b)
         /\ \A c : x \in Inserting(c)' <=> x \in Inserting(c)
<1> DEFINE q == req[x]
           p == req'[x]
<1>1. Shape(q) /\ RequestInv(q)
  BY DEF IInv, ShapeInv
<1>2. /\ Shape(p)
      /\ p.kind = q.kind /\ p.stage = q.stage /\ p.cell = q.cell /\ p.budget = q.budget
      /\ p.expense = q.expense
      /\ p.seen = q.seen /\ p.sum = q.sum /\ p.raise = q.raise
      /\ p.alone => q.alone /\ q.cell \notin C
  BY <1>1 DEF Follows, Shape
<1>3. CASE q.stage \notin Computing
  BY <1>1, <1>2, <1>3 DEF RequestInv, Alerting, Inserting, Shape, Computing
<1>4. CASE q.stage \in Computing
  <2>1. /\ q.cell \in Cells /\ q.budget \in Budgets /\ q.stage # "insert" /\ q.stage # "edit"
        /\ q.kind # "budget" /\ q.raise => q.stage = "checked"
    BY <1>1, <1>4 DEF RequestInv, Computing
  <2>2. budget'[q.budget] # None => budget'[q.budget] = q.cell
    BY <1>1, <1>4, <2>1 DEF RequestInv, Frame, FreeBudget
  <2>3. q.stage # "loaded" => q.sum \in held'[q.cell]
    BY <1>1, <1>4, <2>1 DEF RequestInv, Frame
  <2>4. ASSUME p.alone, NEW c, c = q.cell
        PROVE  /\ BudgetsOf(c)' = {q.budget}
               /\ spent'[q.budget] = q.seen
               /\ q.stage # "loaded" => q.sum = Total(c)'
    <3>1. c \in Cells \ C /\ q.alone
      BY <1>2, <2>1, <2>4
    <3>2. /\ Total(c)' = Total(c)
          /\ BudgetsOf(c)' = BudgetsOf(c)
          /\ \A b \in BudgetsOf(c) : spent'[b] = spent[b]
      BY <3>1 DEF Frame
    <3>3. /\ BudgetsOf(c) = {q.budget}
          /\ spent[q.budget] = q.seen
          /\ q.stage # "loaded" => q.sum = Total(c)
      BY <1>1, <1>4, <2>4, <3>1 DEF RequestInv
    <3> QED  BY <3>2, <3>3
  <2> QED  BY <1>1, <1>2, <1>4, <2>1, <2>2, <2>3, <2>4 DEF RequestInv, Alerting, Inserting, Shape, Computing
<1> QED  BY <1>3, <1>4

LEMMA StepFacts ==
  ASSUME IInv, NEW r \in Requests, NEW new, NEW C, Step(r, new, C)
  PROVE  /\ req'[r] = new
         /\ \A x \in Requests \ {r} : Follows(x, C)
         /\ req' = [x \in Requests |-> req'[x]]
BY DEF Step, Follows

LEMMA StepKeeps ==
  ASSUME IInv, NEW r \in Requests, NEW new, NEW C, Step(r, new, C),
         Frame(C), Shape(new), RequestInv(req[r])'
  PROVE  /\ req' = [x \in Requests |-> req'[x]]
         /\ \A x \in Requests : Shape(req[x])' /\ RequestInv(req[x])'
<1>1. ASSUME NEW x \in Requests \ {r}
      PROVE  Shape(req[x])' /\ RequestInv(req[x])'
  BY StepFacts, FollowsKeeps
<1>2. Shape(req[r])'
  <2>1. req'[r] = new
    BY StepFacts
  <2> QED  BY <2>1
<1> QED  BY <1>1, <1>2, StepFacts

LEMMA DisturbKeeps ==
  ASSUME IInv, NEW C, Disturb(C), Frame(C)
  PROVE  /\ req' = [x \in Requests |-> req'[x]]
         /\ \A x \in Requests : Shape(req[x])' /\ RequestInv(req[x])'
         /\ \A b : Alerting(b)' = Alerting(b)
         /\ \A c : Inserting(c)' = Inserting(c)
<1>1. req' = [x \in Requests |-> req'[x]] /\ \A x \in Requests : Follows(x, C)
  BY DEF Disturb, Follows
<1>2. ASSUME NEW x \in Requests
      PROVE  /\ Shape(req[x])' /\ RequestInv(req[x])'
             /\ \A b : x \in Alerting(b)' <=> x \in Alerting(b)
             /\ \A c : x \in Inserting(c)' <=> x \in Inserting(c)
  BY <1>1, FollowsKeeps
<1>3. ASSUME NEW b PROVE Alerting(b)' = Alerting(b)
  BY <1>2 DEF Alerting
<1>4. ASSUME NEW c PROVE Inserting(c)' = Inserting(c)
  BY <1>2 DEF Inserting
<1> QED  BY <1>1, <1>2, <1>3, <1>4

-----------------------------------------------------------------------------
(* Counting *)

LEMMA Cards ==
  ASSUME NEW S \in SUBSET Requests, NEW r \in Requests
  PROVE  /\ Cardinality(Requests) \in Nat
         /\ Cardinality(S) \in 0 .. Cardinality(Requests)
         /\ Cardinality(S \ {r}) = IF r \in S THEN Cardinality(S) - 1 ELSE Cardinality(S)
         /\ Cardinality(S \cup {r}) = IF r \in S THEN Cardinality(S) ELSE Cardinality(S) + 1
<1>1. IsFiniteSet(S) /\ Cardinality(S) <= Cardinality(Requests)
  BY RequestsAssumption, FS_Subset
<1>2. Cardinality(S) \in Nat /\ Cardinality(Requests) \in Nat
  BY <1>1, RequestsAssumption, FS_CardinalityType
<1>3. Cardinality(S \ {r}) = IF r \in S THEN Cardinality(S) - 1 ELSE Cardinality(S)
  BY <1>1, FS_RemoveElement
<1>4. Cardinality(S \cup {r}) = IF r \in S THEN Cardinality(S) ELSE Cardinality(S) + 1
  BY <1>1, FS_AddElement
<1> QED  BY <1>1, <1>2, <1>3, <1>4

LEMMA CardsFewer ==
  ASSUME NEW S \in SUBSET Requests, NEW T \in SUBSET S
  PROVE  /\ Cardinality(Requests) \in Nat
         /\ Cardinality(S) \in 0 .. Cardinality(Requests)
         /\ Cardinality(T) \in 0 .. Cardinality(S)
<1>1. IsFiniteSet(S) /\ Cardinality(S) <= Cardinality(Requests)
  BY RequestsAssumption, FS_Subset
<1>2. IsFiniteSet(T) /\ Cardinality(T) <= Cardinality(S)
  BY <1>1, FS_Subset
<1> QED  BY <1>1, <1>2, RequestsAssumption, FS_CardinalityType

Alerts(q, b) == q.stage = "checked" /\ q.raise /\ q.budget = b
Inserts(q, c) == q.stage = "insert" /\ q.cell = c

LEMMA StepCounts ==
  ASSUME IInv, NEW r \in Requests, NEW new, NEW C, Step(r, new, C), Frame(C)
  PROVE  /\ \A b : Alerting(b)' = IF Alerts(new, b) THEN Alerting(b) \cup {r}
                                  ELSE Alerting(b) \ {r}
         /\ \A c : Inserting(c)' = IF Inserts(new, c) THEN Inserting(c) \cup {r}
                                   ELSE Inserting(c) \ {r}
<1>1. ASSUME NEW x \in Requests \ {r}
      PROVE  /\ \A b : x \in Alerting(b)' <=> x \in Alerting(b)
             /\ \A c : x \in Inserting(c)' <=> x \in Inserting(c)
  BY StepFacts, FollowsKeeps
<1>2. /\ \A b : r \in Alerting(b)' <=> Alerts(new, b)
      /\ \A c : r \in Inserting(c)' <=> Inserts(new, c)
  BY StepFacts DEF Alerting, Inserting, Alerts, Inserts
<1>3. \A b : Alerting(b) \subseteq Requests /\ Alerting(b)' \subseteq Requests
  BY DEF Alerting
<1>4. \A c : Inserting(c) \subseteq Requests /\ Inserting(c)' \subseteq Requests
  BY DEF Inserting
<1>5. ASSUME NEW b
      PROVE  Alerting(b)' = IF Alerts(new, b) THEN Alerting(b) \cup {r} ELSE Alerting(b) \ {r}
  BY <1>1, <1>2, <1>3
<1>6. ASSUME NEW c
      PROVE  Inserting(c)' = IF Inserts(new, c) THEN Inserting(c) \cup {r} ELSE Inserting(c) \ {r}
  BY <1>1, <1>2, <1>4
<1> QED  BY <1>5, <1>6

LEMMA FewerCounts ==
  ASSUME IInv,
         \A b \in Budgets : /\ unread'[b] \in Nat /\ unread'[b] <= unread[b]
                            /\ Alerting(b)' \subseteq Alerting(b),
         \A c \in Cells : /\ BudgetsOf(c)' \subseteq BudgetsOf(c)
                          /\ Inserting(c)' \subseteq Inserting(c)
  PROVE  CountInv'
<1>1. ASSUME NEW b \in Budgets
      PROVE  unread'[b] + Cardinality(Alerting(b)') <= Cardinality(Requests)
  <2>1. /\ IsFiniteSet(Alerting(b)) /\ Cardinality(Requests) \in Nat
        /\ unread[b] + Cardinality(Alerting(b)) <= Cardinality(Requests)
    <3>1. Alerting(b) \subseteq Requests
      BY DEF Alerting
    <3> QED  BY <3>1, RequestsAssumption, FS_Subset, FS_CardinalityType
             DEF IInv, CountInv, AlertsBounded
  <2>2. /\ Cardinality(Alerting(b)') <= Cardinality(Alerting(b))
        /\ Cardinality(Alerting(b)') \in Nat /\ Cardinality(Alerting(b)) \in Nat
    BY <2>1, FS_Subset, FS_CardinalityType
  <2>3. unread[b] \in Nat
    BY DEF IInv, ShapeInv
  <2> QED  BY <2>1, <2>2, <2>3
<1>2. ASSUME NEW c \in Cells
      PROVE  /\ IsFiniteSet(BudgetsOf(c)')
             /\ Cardinality(BudgetsOf(c)') + Cardinality(Inserting(c)') <= Cardinality(Requests)
  <2>1. /\ IsFiniteSet(BudgetsOf(c)) /\ IsFiniteSet(Inserting(c)) /\ Cardinality(Requests) \in Nat
        /\ Cardinality(BudgetsOf(c)) + Cardinality(Inserting(c)) <= Cardinality(Requests)
    <3>1. Inserting(c) \subseteq Requests
      BY DEF Inserting
    <3> QED  BY <3>1, RequestsAssumption, FS_Subset, FS_CardinalityType
             DEF IInv, CountInv, DuplicatesBounded
  <2>2. /\ Cardinality(Inserting(c)') <= Cardinality(Inserting(c))
        /\ Cardinality(Inserting(c)') \in Nat /\ Cardinality(Inserting(c)) \in Nat
    BY <2>1, FS_Subset, FS_CardinalityType
  <2>3. /\ Cardinality(BudgetsOf(c)') <= Cardinality(BudgetsOf(c)) /\ IsFiniteSet(BudgetsOf(c)')
        /\ Cardinality(BudgetsOf(c)') \in Nat /\ Cardinality(BudgetsOf(c)) \in Nat
    BY <2>1, FS_Subset, FS_CardinalityType
  <2> QED  BY <2>1, <2>2, <2>3
<1>3. AlertsBounded'
  BY <1>1 DEF AlertsBounded
<1>4. DuplicatesBounded'
  BY <1>2 DEF DuplicatesBounded
<1> QED  BY <1>2, <1>3, <1>4 DEF CountInv

-----------------------------------------------------------------------------
(* Steps that commit nothing *)

LEMMA QuietStep ==
  ASSUME IInv, NEW r \in Requests, NEW new, Step(r, new, {}), UNCHANGED <<tables, held>>,
         Shape(new), RequestInv(req[r])'
  PROVE  /\ Frame({})
         /\ ShapeInv'
         /\ \A x \in Requests : RequestInv(req[x])'
         /\ RowsInv'
<1> USE DEF tables, budgets
<1>1. \A c : Total(c)' = Total(c) /\ BudgetsOf(c)' = BudgetsOf(c)
  BY DEF Total, SumOf, ExpensesOf, BudgetsOf
<1>2. Frame({})
  BY <1>1 DEF Frame
<1>3. ShapeInv'
  BY <1>2, StepKeeps DEF IInv, ShapeInv
<1>4. RowsInv'
  BY <1>1 DEF IInv, RowsInv, ShownWasTrue, AlertsHaveBudget
<1> QED  BY <1>2, <1>3, <1>4, StepKeeps

(* ... and after which r is about to add neither an alert nor a budget. *)
LEMMA IdleStep ==
  ASSUME IInv, NEW r \in Requests, NEW new, Step(r, new, {}), UNCHANGED <<tables, held>>,
         Shape(new), RequestInv(req[r])', ~new.raise, new.stage # "insert"
  PROVE  IInv'
<1>1. Frame({}) /\ ShapeInv' /\ RowsInv' /\ \A x \in Requests : RequestInv(req[x])'
  BY QuietStep
<1>2. CountInv'
  <2>1. \A b \in Budgets : Alerting(b)' \subseteq Alerting(b) /\ unread[b] \in Nat
    BY <1>1, StepCounts DEF Alerts, IInv, ShapeInv
  <2>2. \A c \in Cells : Inserting(c)' \subseteq Inserting(c) /\ BudgetsOf(c)' = BudgetsOf(c)
    BY <1>1, StepCounts DEF Inserts, Frame
  <2> QED  BY <2>1, <2>2, FewerCounts DEF tables
<1> QED  BY <1>1, <1>2 DEF IInv

LEMMA FailStep ==
  ASSUME IInv, NEW r \in Requests, Fail(r), UNCHANGED <<tables, held>>
  PROVE  IInv'
<1>1. Step(r, Idle(TRUE), {}) /\ req'[r] = Idle(TRUE)
  BY StepFacts DEF Fail
<1>2. Shape(Idle(TRUE)) /\ ~Idle(TRUE).raise /\ Idle(TRUE).stage # "insert"
  BY DEF Shape, Idle
<1>3. RequestInv(req[r])'
  BY <1>1 DEF RequestInv, Idle, Computing
<1> QED  BY <1>1, <1>2, <1>3, IdleStep

LEMMA DeleteLookupStep ==
  ASSUME IInv, NEW r \in Requests, NEW e \in Expenses, DeleteLookup(r, e)
  PROVE  IInv'
<1>1. CASE expense[e] # None
  <2> DEFINE new == [Start("delete", "found", expense[e].cell) EXCEPT !.expense = e]
  <2>1. Step(r, new, {}) /\ UNCHANGED <<tables, held>> /\ req'[r] = new
    BY <1>1, StepFacts DEF DeleteLookup
  <2>2. expense[e].cell \in Cells
    BY <1>1 DEF IInv, ShapeInv, ExpenseRows
  <2>3. /\ Shape(new) /\ ~new.raise /\ new.stage = "found" /\ new.cell \in Cells
        /\ new.expense \in Expenses
    BY <2>2 DEF Shape, Start, Idle
  <2>4. RequestInv(req[r])'
    BY <2>1, <2>3 DEF RequestInv, Computing
  <2> QED  BY <2>1, <2>3, <2>4, IdleStep
<1>2. CASE expense[e] = None
  BY <1>2, FailStep DEF DeleteLookup
<1> QED  BY <1>1, <1>2

LEMMA RefreshExpenseStep ==
  ASSUME IInv, NEW r \in Requests, RefreshExpense(r)
  PROVE  IInv'
<1>1. UNCHANGED <<tables, held>>
  BY DEF RefreshExpense
<1>2. Shape(req[r]) /\ RequestInv(req[r]) /\ req[r].stage = "added" /\ req[r].expense \in Expenses
  BY DEF IInv, ShapeInv, RefreshExpense, RequestInv
<1>3. CASE expense[req[r].expense] # None
  <2> DEFINE c == expense[req[r].expense].cell
             new == [req[r] EXCEPT !.stage = "written", !.cell = c]
  <2>1. Step(r, new, {}) /\ req'[r] = new
    BY <1>3, StepFacts DEF RefreshExpense
  <2>2. c \in Cells
    BY <1>2, <1>3 DEF IInv, ShapeInv, ExpenseRows
  <2>3. /\ Shape(new) /\ new.raise = req[r].raise /\ new.stage = "written" /\ new.cell \in Cells
        /\ new.kind = req[r].kind
    BY <1>2, <2>2 DEF Shape
  <2>4. ~new.raise /\ new.kind # "budget"
    BY <1>2, <2>3 DEF RequestInv, Shape
  <2> HIDE DEF new
  <2>5. RequestInv(req[r])'
    BY <2>1, <2>3, <2>4 DEF RequestInv, Computing
  <2> QED  BY <1>1, <2>1, <2>3, <2>4, <2>5, IdleStep
<1>4. CASE expense[req[r].expense] = None
  BY <1>1, <1>4, FailStep DEF RefreshExpense
<1> QED  BY <1>3, <1>4

LEMMA SameTables ==
  ASSUME UNCHANGED <<tables, held>>
  PROVE  \A c : /\ Total(c)' = Total(c) /\ BudgetsOf(c)' = BudgetsOf(c)
                /\ held'[c] = held[c] /\ budget'[c] = budget[c] /\ spent'[c] = spent[c]
BY DEF tables, budgets, Total, SumOf, ExpensesOf, BudgetsOf

LEMMA FindBudgetStep ==
  ASSUME IInv, NEW r \in Requests, FindBudget(r)
  PROVE  IInv'
<1>1. UNCHANGED <<tables, held>>
  BY DEF FindBudget
<1>2. Shape(req[r]) /\ RequestInv(req[r]) /\ req[r].stage = "written"
  BY DEF IInv, ShapeInv, FindBudget
<1>3. CASE Succeed(r, {})
  <2>1. Step(r, Idle(FALSE), {}) /\ req'[r] = Idle(FALSE)
    BY <1>3, StepFacts DEF Succeed
  <2>2. Shape(Idle(FALSE)) /\ ~Idle(FALSE).raise /\ Idle(FALSE).stage # "insert"
    BY DEF Shape, Idle
  <2>3. RequestInv(req[r])'
    BY <2>1 DEF RequestInv, Idle, Computing
  <2> QED  BY <1>1, <2>1, <2>2, <2>3, IdleStep
<1>4. CASE Fail(r)
  BY <1>1, <1>4, FailStep
<1>5. ASSUME NEW b \in Budgets, BudgetsOf(req[r].cell) = {b},
             Step(r, [req[r] EXCEPT !.stage = "loaded", !.budget = b, !.seen = spent[b],
                        !.limit = IF req[r].kind = "create" THEN limit[b] ELSE 0], {})
      PROVE  IInv'
  <2> DEFINE new == [req[r] EXCEPT !.stage = "loaded", !.budget = b, !.seen = spent[b],
                       !.limit = IF req[r].kind = "create" THEN limit[b] ELSE 0]
  <2>1. req'[r] = new
    BY <1>5, StepFacts
  <2>2. /\ Shape(new) /\ new.stage = "loaded" /\ new.budget = b /\ new.seen = spent[b]
        /\ new.cell = req[r].cell /\ new.kind = req[r].kind /\ new.raise = req[r].raise
    BY <1>2 DEF Shape
  <2>3. new.cell \in Cells /\ new.kind # "budget" /\ ~new.raise /\ budget[b] = new.cell
    BY <1>2, <1>5, <2>2 DEF RequestInv, BudgetsOf, Shape
  <2> HIDE DEF new
  <2>4. ASSUME NEW c, c = new.cell
        PROVE  BudgetsOf(c)' = {b} /\ spent'[b] = new.seen /\ budget'[b] = c
    BY <1>1, <1>5, <2>2, <2>3, <2>4, SameTables
  <2>5. RequestInv(req[r])'
    BY <2>1, <2>2, <2>3, <2>4 DEF RequestInv, Computing
  <2> QED  BY <1>1, <1>5, <2>2, <2>3, <2>5, IdleStep DEF new
<1> QED  BY <1>3, <1>4, <1>5 DEF FindBudget

LEMMA SumExpensesStep ==
  ASSUME IInv, NEW r \in Requests, SumExpenses(r)
  PROVE  IInv'
<1> DEFINE new == [req[r] EXCEPT !.sum = Total(req[r].cell),
                     !.stage = IF req[r].kind = "create" THEN "summed" ELSE "checked"]
<1>1. UNCHANGED <<tables, held>> /\ Step(r, new, {}) /\ req'[r] = new
  BY StepFacts DEF SumExpenses
<1>2. Shape(req[r]) /\ RequestInv(req[r]) /\ req[r].stage = "loaded"
  BY DEF IInv, ShapeInv, SumExpenses
<1>3. /\ Shape(new) /\ new.stage \in {"summed", "checked"} /\ new.sum = Total(req[r].cell)
      /\ new.budget = req[r].budget /\ new.seen = req[r].seen /\ new.cell = req[r].cell
      /\ new.kind = req[r].kind /\ new.raise = req[r].raise /\ new.alone = req[r].alone
  BY <1>2 DEF Shape
<1>4. new.cell \in Cells /\ new.kind # "budget" /\ ~new.raise /\ new.budget \in Budgets
  BY <1>2, <1>3 DEF RequestInv, Computing, Shape
<1>5. ASSUME NEW c, NEW b, c = new.cell, b = new.budget
      PROVE  /\ budget'[b] # None => budget'[b] = c
             /\ new.sum \in held'[c]
             /\ new.alone => BudgetsOf(c)' = {b} /\ spent'[b] = new.seen /\ new.sum = Total(c)'
  <2>1. /\ budget[b] # None => budget[b] = c
        /\ new.sum \in held[c]
        /\ new.alone => BudgetsOf(c) = {b} /\ spent[b] = new.seen /\ new.sum = Total(c)
    BY <1>2, <1>3, <1>4, <1>5 DEF RequestInv, Computing, IInv, RowsInv
  <2> QED  BY <1>1, <2>1, SameTables
<1> HIDE DEF new
<1>6. RequestInv(req[r])'
  BY <1>1, <1>3, <1>4, <1>5 DEF RequestInv, Computing
<1> QED  BY <1>1, <1>3, <1>4, <1>6, IdleStep

(* The counting argument: whoever is about to add saw none, and then at    *)
(* most every request is about to add.                                     *)
LEMMA CheckAlertStep ==
  ASSUME IInv, NEW r \in Requests, CheckAlert(r)
  PROVE  IInv'
<1>1. UNCHANGED <<tables, held>> /\ req[r].stage = "summed" /\ Shape(req[r]) /\ RequestInv(req[r])
  BY DEF IInv, ShapeInv, CheckAlert
<1>2. CASE Fail(r)
  BY <1>1, <1>2, FailStep
<1>3. ASSUME NEW raise \in BOOLEAN, raise => unread[req[r].budget] = 0,
             Step(r, [req[r] EXCEPT !.stage = "checked", !.raise = raise,
                                    !.limit = IF raise THEN @ ELSE 0], {})
      PROVE  IInv'
  <2> DEFINE new == [req[r] EXCEPT !.stage = "checked", !.raise = raise,
                                   !.limit = IF raise THEN @ ELSE 0]
  <2>1. Step(r, new, {}) /\ req'[r] = new
    BY <1>3, StepFacts
  <2>2. /\ Shape(new) /\ new.stage = "checked" /\ new.raise = raise /\ new.sum = req[r].sum
        /\ new.budget = req[r].budget /\ new.seen = req[r].seen /\ new.cell = req[r].cell
        /\ new.kind = req[r].kind /\ new.alone = req[r].alone
    BY <1>1 DEF Shape
  <2>3. new.cell \in Cells /\ new.kind # "budget" /\ new.budget \in Budgets
    BY <1>1, <2>2 DEF RequestInv, Computing, Shape
  <2>4. ASSUME NEW c, NEW b, c = new.cell, b = new.budget
        PROVE  /\ budget'[b] # None => budget'[b] = c
               /\ new.sum \in held'[c]
               /\ new.alone => BudgetsOf(c)' = {b} /\ spent'[b] = new.seen /\ new.sum = Total(c)'
    <3>1. /\ budget[b] # None => budget[b] = c
          /\ new.sum \in held[c]
          /\ new.alone => BudgetsOf(c) = {b} /\ spent[b] = new.seen /\ new.sum = Total(c)
      BY <1>1, <2>2, <2>3, <2>4 DEF RequestInv, Computing
    <3> QED  BY <1>1, <3>1, SameTables
  <2> HIDE DEF new
  <2>5. RequestInv(req[r])'
    BY <2>1, <2>2, <2>3, <2>4 DEF RequestInv, Computing
  <2>6. Frame({}) /\ ShapeInv' /\ RowsInv' /\ \A x \in Requests : RequestInv(req[x])'
    BY <1>1, <2>1, <2>2, <2>5, QuietStep
  <2>7. \A c \in Cells : Inserting(c)' \subseteq Inserting(c) /\ BudgetsOf(c)' = BudgetsOf(c)
    BY <2>1, <2>2, <2>6, StepCounts DEF Inserts, Frame
  <2>8. CASE ~raise
    <3>1. \A b \in Budgets : Alerting(b)' \subseteq Alerting(b) /\ unread[b] \in Nat
      BY <2>1, <2>2, <2>6, <2>8, StepCounts DEF Alerts, IInv, ShapeInv
    <3>2. CountInv'
      BY <1>1, <2>7, <3>1, FewerCounts DEF tables
    <3> QED  BY <2>6, <3>2 DEF IInv
  <2>9. CASE raise
    <3>1. ASSUME NEW b \in Budgets
          PROVE  unread'[b] + Cardinality(Alerting(b)') <= Cardinality(Requests)
      <4>1. unread'[b] = unread[b] /\ unread[b] \in Nat
        BY <1>1 DEF tables, IInv, ShapeInv
      <4>2. CASE b = req[r].budget
        <5>1. unread[b] = 0
          BY <1>3, <2>9, <4>2
        <5>2. Alerting(b)' \subseteq Requests
          BY DEF Alerting
        <5>3. Cardinality(Alerting(b)') \in 0 .. Cardinality(Requests) /\ Cardinality(Requests) \in Nat
          BY <5>2, Cards
        <5> QED  BY <4>1, <5>1, <5>3
      <4>3. CASE b # req[r].budget
        <5>1. Alerting(b)' = Alerting(b) \ {r}
          BY <2>1, <2>2, <2>6, <4>3, StepCounts DEF Alerts
        <5>2. Alerting(b) \subseteq Requests
          BY DEF Alerting
        <5>3. unread[b] + Cardinality(Alerting(b)) <= Cardinality(Requests)
          BY DEF IInv, CountInv, AlertsBounded
        <5>4. /\ Cardinality(Requests) \in Nat
              /\ Cardinality(Alerting(b)) \in 0 .. Cardinality(Requests)
              /\ Cardinality(Alerting(b)') \in 0 .. Cardinality(Alerting(b))
          BY <5>1, <5>2, CardsFewer
        <5> QED  BY <4>1, <5>1, <5>3, <5>4
      <4> QED  BY <4>2, <4>3
    <3>2. AlertsBounded'
      BY <3>1 DEF AlertsBounded
    <3>3. ASSUME NEW c \in Cells
          PROVE  /\ IsFiniteSet(BudgetsOf(c)')
                 /\ Cardinality(BudgetsOf(c)') + Cardinality(Inserting(c)') <= Cardinality(Requests)
      <4>1. Inserting(c)' = Inserting(c)
        <5>1. r \notin Inserting(c) /\ Inserting(c)' = Inserting(c) \ {r}
          BY <1>1, <2>1, <2>2, <2>6, StepCounts DEF Inserting, Inserts
        <5> QED  BY <5>1
      <4> QED  BY <2>7, <4>1 DEF IInv, CountInv, DuplicatesBounded
    <3>4. CountInv'
      BY <3>2, <3>3 DEF CountInv, DuplicatesBounded
    <3> QED  BY <2>6, <3>4 DEF IInv
  <2> QED  BY <2>8, <2>9
<1>4. CASE Step(r, [req[r] EXCEPT !.stage = "checked",
                                  !.raise = NearLimit(r) /\ unread[req[r].budget] = 0,
                                  !.limit = IF NearLimit(r) /\ unread[req[r].budget] = 0
                                            THEN @ ELSE 0], {})
  <2>1. CASE NearLimit(r) /\ unread[req[r].budget] = 0
    <3>1. Step(r, [req[r] EXCEPT !.stage = "checked", !.raise = TRUE,
                                 !.limit = IF TRUE THEN @ ELSE 0], {})
      BY <1>4, <2>1 DEF Step
    <3> QED  BY <1>3, <2>1, <3>1
  <2>2. CASE ~(NearLimit(r) /\ unread[req[r].budget] = 0)
    <3>1. Step(r, [req[r] EXCEPT !.stage = "checked", !.raise = FALSE,
                                 !.limit = IF FALSE THEN @ ELSE 0], {})
      BY <1>4, <2>2 DEF Step
    <3> QED  BY <1>3, <3>1
  <2> QED  BY <2>1, <2>2
<1> QED  BY <1>2, <1>4 DEF CheckAlert

LEMMA InterruptStep ==
  ASSUME IInv, NEW r \in Requests, Interrupt(r)
  PROVE  IInv'
BY FailStep DEF Interrupt

LEMMA SetBudgetLookupStep ==
  ASSUME IInv, NEW r \in Requests, NEW c \in Cells, NEW l \in Limits, SetBudgetLookup(r, c, l)
  PROVE  IInv'
<1> DEFINE start(stage) == [Start("budget", stage, c) EXCEPT !.limit = l]
<1>1. UNCHANGED <<tables, held>>
  BY DEF SetBudgetLookup
<1>2. CASE BudgetsOf(c) = {} /\ Step(r, start("insert"), {})
  <2> DEFINE new == start("insert")
  <2>1. Step(r, new, {}) /\ req'[r] = new
    BY <1>2, StepFacts
  <2>2. /\ Shape(new) /\ new.stage = "insert" /\ new.cell = c /\ new.kind = "budget"
        /\ ~new.raise
    BY DEF Shape, Start, Idle
  <2> HIDE DEF new
  <2>3. RequestInv(req[r])'
    BY <2>1, <2>2 DEF RequestInv, Computing
  <2>4. Frame({}) /\ ShapeInv' /\ RowsInv' /\ \A x \in Requests : RequestInv(req[x])'
    BY <1>1, <2>1, <2>2, <2>3, QuietStep
  <2>5. ASSUME NEW b \in Budgets
        PROVE  unread'[b] + Cardinality(Alerting(b)') <= Cardinality(Requests)
    <3>1. Alerting(b)' = Alerting(b) \ {r} /\ Alerting(b) \subseteq Requests
      BY <2>1, <2>2, <2>4, StepCounts DEF Alerts, Alerting
    <3>2. /\ Cardinality(Requests) \in Nat
          /\ Cardinality(Alerting(b)) \in 0 .. Cardinality(Requests)
          /\ Cardinality(Alerting(b)') \in 0 .. Cardinality(Alerting(b))
      BY <3>1, CardsFewer
    <3>3. /\ unread'[b] = unread[b] /\ unread[b] \in Nat
          /\ unread[b] + Cardinality(Alerting(b)) <= Cardinality(Requests)
      BY <1>1 DEF tables, IInv, ShapeInv, CountInv, AlertsBounded
    <3> QED  BY <3>2, <3>3
  <2>6. ASSUME NEW d \in Cells
        PROVE  /\ IsFiniteSet(BudgetsOf(d)')
               /\ Cardinality(BudgetsOf(d)') + Cardinality(Inserting(d)') <= Cardinality(Requests)
    <3>1. BudgetsOf(d)' = BudgetsOf(d) /\ IsFiniteSet(BudgetsOf(d))
      BY <1>1, SameTables DEF IInv, CountInv
    <3>2. CASE d = c
      <4>1. BudgetsOf(d)' = {} /\ Inserting(d)' \subseteq Requests
        BY <1>2, <3>1, <3>2 DEF Inserting
      <4>2. /\ Cardinality(Inserting(d)') \in 0 .. Cardinality(Requests)
            /\ Cardinality(Requests) \in Nat /\ Cardinality({}) = 0
        BY <4>1, Cards, FS_EmptySet
      <4>3. Cardinality(BudgetsOf(d)') = 0
        BY <4>1, <4>2
      <4> QED  BY <3>1, <4>2, <4>3
    <3>3. CASE d # c
      <4>1. Inserting(d)' = Inserting(d) \ {r} /\ Inserting(d) \subseteq Requests
        BY <2>1, <2>2, <2>4, <3>3, StepCounts DEF Inserts, Inserting
      <4>2. /\ Cardinality(Requests) \in Nat
            /\ Cardinality(Inserting(d)) \in 0 .. Cardinality(Requests)
            /\ Cardinality(Inserting(d)') \in 0 .. Cardinality(Inserting(d))
        BY <4>1, CardsFewer
      <4>3. Cardinality(BudgetsOf(d)) \in Nat
        BY <3>1, FS_CardinalityType
      <4>4. Cardinality(BudgetsOf(d)) + Cardinality(Inserting(d)) <= Cardinality(Requests)
        BY DEF IInv, CountInv, DuplicatesBounded
      <4> QED  BY <3>1, <4>2, <4>3, <4>4
    <3> QED  BY <3>2, <3>3
  <2>7. CountInv'
    BY <2>5, <2>6 DEF CountInv, AlertsBounded, DuplicatesBounded
  <2> QED  BY <2>4, <2>7 DEF IInv
<1>3. ASSUME NEW b \in Budgets,
             Step(r, [start("edit") EXCEPT !.budget = b, !.seen = limit[b]], {})
      PROVE  IInv'
  <2> DEFINE new == [start("edit") EXCEPT !.budget = b, !.seen = limit[b]]
  <2>1. Step(r, new, {}) /\ req'[r] = new
    BY <1>3, StepFacts
  <2>2. /\ Shape(new) /\ new.stage = "edit" /\ new.cell = c /\ new.kind = "budget"
        /\ ~new.raise /\ new.budget = b
    BY DEF Shape, Start, Idle
  <2> HIDE DEF new
  <2>3. RequestInv(req[r])'
    BY <2>1, <2>2 DEF RequestInv, Computing
  <2> QED  BY <1>1, <2>1, <2>2, <2>3, IdleStep
<1>4. CASE Fail(r)
  BY <1>1, <1>4, FailStep
<1> QED  BY <1>2, <1>3, <1>4 DEF SetBudgetLookup

-----------------------------------------------------------------------------
(* Steps that commit to the expenses table *)

LEMMA FewerAdders ==
  ASSUME IInv, NEW r \in Requests, NEW new, NEW C, Step(r, new, C), Frame(C),
         ~new.raise, new.stage # "insert"
  PROVE  /\ \A b : Alerting(b)' \subseteq Alerting(b)
         /\ \A c : Inserting(c)' \subseteq Inserting(c)
BY StepCounts DEF Alerts, Inserts

LEMMA ExpenseChange ==
  ASSUME IInv, NEW e \in Expenses, NEW row \in ExpenseRows \cup {None}, NEW C,
         row # None => row.cell \in C,
         expense[e] # None => expense[e].cell \in C,
         expense' = [expense EXCEPT ![e] = row],
         Remember, UNCHANGED <<budgets, unread>>
  PROVE  /\ Frame(C)
         /\ expense' \in [Expenses -> ExpenseRows \cup {None}]
         /\ held' = [c \in Cells |-> held'[c]]
         /\ RowsInv'
<1>1. expense \in [Expenses -> ExpenseRows \cup {None}]
  BY DEF IInv, ShapeInv
<1>2. expense' \in [Expenses -> ExpenseRows \cup {None}]
  BY <1>1
<1>3. ASSUME NEW c \in Cells \ C
      PROVE  Total(c)' = Total(c)
  <2>1. ExpensesOf(c)' = ExpensesOf(c)
    BY <1>1, <1>3 DEF ExpensesOf
  <2>2. \A x \in ExpensesOf(c) : expense'[x].amount = expense[x].amount
    BY <1>1, <1>3 DEF ExpensesOf
  <2> QED  BY <2>1, <2>2, TotalSame
<1>4. \A c \in Cells : held'[c] = held[c] \cup {Total(c)'}
  BY DEF Remember
<1>5. \A c : BudgetsOf(c)' = BudgetsOf(c)
  BY DEF BudgetsOf, budgets
<1>6. Frame(C)
  BY <1>3, <1>4, <1>5 DEF Frame, budgets
<1>7. RowsInv'
  <2>1. \A c \in Cells : 0 \in held'[c] /\ Total(c)' \in held'[c]
    BY <1>4 DEF IInv, RowsInv
  <2>2. \A b \in Budgets : budget[b] # None => budget[b] \in Cells
    BY DEF IInv, ShapeInv
  <2>3. ShownWasTrue' /\ AlertsHaveBudget' /\ \A b \in Budgets : budget'[b] = None => spent'[b] = 0
    BY <1>4, <2>2 DEF IInv, RowsInv, ShownWasTrue, AlertsHaveBudget, budgets
  <2> QED  BY <2>1, <2>3 DEF RowsInv
<1> QED  BY <1>2, <1>6, <1>7 DEF Remember

LEMMA ExpenseStep ==
  ASSUME IInv, RowsInv',
         expense' \in [Expenses -> ExpenseRows \cup {None}],
         held' = [c \in Cells |-> held'[c]],
         UNCHANGED <<budgets, unread>>,
         req' = [x \in Requests |-> req'[x]],
         \A x \in Requests : Shape(req[x])' /\ RequestInv(req[x])',
         \A b : Alerting(b)' \subseteq Alerting(b),
         \A c : Inserting(c)' \subseteq Inserting(c)
  PROVE  IInv'
<1>1. ShapeInv'
  BY DEF IInv, ShapeInv, budgets
<1>2. \A c \in Cells : BudgetsOf(c)' = BudgetsOf(c)
  BY DEF BudgetsOf, budgets
<1>3. \A b \in Budgets : unread'[b] = unread[b] /\ unread[b] \in Nat
  BY DEF IInv, ShapeInv
<1>4. CountInv'
  BY <1>2, <1>3, FewerCounts
<1> QED  BY <1>1, <1>4 DEF IInv

LEMMA CreateExpenseStep ==
  ASSUME IInv, NEW r \in Requests, NEW e \in Expenses, NEW c \in Cells, NEW a \in Amounts,
         CreateExpense(r, e, c, a)
  PROVE  IInv'
<1> DEFINE row == [cell |-> c, amount |-> a]
           new == [Start("create", "added", c) EXCEPT !.expense = e, !.alone = TRUE]
<1>1. row \in ExpenseRows \cup {None} /\ row.cell \in {c} /\ expense[e] = None
  BY DEF ExpenseRows, CreateExpense, FreeExpense
<1>2. /\ Frame({c}) /\ RowsInv'
      /\ expense' \in [Expenses -> ExpenseRows \cup {None}]
      /\ held' = [d \in Cells |-> held'[d]]
  <2>1. Remember /\ UNCHANGED <<budgets, unread>> /\ expense' = [expense EXCEPT ![e] = row]
    BY DEF CreateExpense
  <2> HIDE DEF row
  <2> QED  BY <1>1, <2>1, ExpenseChange
<1>3. Step(r, new, {c}) /\ req'[r] = new
  BY StepFacts DEF CreateExpense
<1>4. /\ Shape(new) /\ ~new.raise /\ new.stage = "added" /\ new.kind = "create"
      /\ new.cell = c /\ new.expense = e
  BY DEF Shape, Start, Idle
<1> HIDE DEF new
<1>5. RequestInv(req[r])'
  BY <1>3, <1>4 DEF RequestInv, Computing
<1>6. /\ req' = [x \in Requests |-> req'[x]]
      /\ \A x \in Requests : Shape(req[x])' /\ RequestInv(req[x])'
  BY <1>2, <1>3, <1>4, <1>5, StepKeeps
<1>7. (\A b : Alerting(b)' \subseteq Alerting(b)) /\ (\A d : Inserting(d)' \subseteq Inserting(d))
  BY <1>2, <1>3, <1>4, FewerAdders
<1>8. UNCHANGED <<budgets, unread>>
  BY DEF CreateExpense
<1> QED  BY <1>2, <1>6, <1>7, <1>8, ExpenseStep

LEMMA UpdateExpenseStep ==
  ASSUME IInv, NEW e \in Expenses, NEW c \in Cells, NEW a \in Amounts, UpdateExpense(e, c, a)
  PROVE  IInv'
<1> DEFINE row == [cell |-> c, amount |-> a]
           C == {c, expense[e].cell}
<1>1. row \in ExpenseRows \cup {None} /\ row.cell \in C /\ expense[e].cell \in C
  BY DEF ExpenseRows
<1>2. /\ Frame(C) /\ RowsInv'
      /\ expense' \in [Expenses -> ExpenseRows \cup {None}]
      /\ held' = [d \in Cells |-> held'[d]]
  <2>1. Remember /\ UNCHANGED <<budgets, unread>> /\ expense' = [expense EXCEPT ![e] = row]
    BY DEF UpdateExpense
  <2> HIDE DEF row, C
  <2> QED  BY <1>1, <2>1, ExpenseChange
<1>3. Disturb(C) /\ UNCHANGED <<budgets, unread>>
  BY DEF UpdateExpense
<1> HIDE DEF C
<1>4. /\ req' = [x \in Requests |-> req'[x]]
      /\ \A x \in Requests : Shape(req[x])' /\ RequestInv(req[x])'
      /\ \A b : Alerting(b)' \subseteq Alerting(b)
      /\ \A d : Inserting(d)' \subseteq Inserting(d)
  BY <1>2, <1>3, DisturbKeeps
<1> QED  BY <1>2, <1>3, <1>4, ExpenseStep

LEMMA DeleteExpenseStep ==
  ASSUME IInv, NEW r \in Requests, DeleteExpense(r)
  PROVE  IInv'
<1> DEFINE e == req[r].expense
           new == [Start("delete", "written", req[r].cell) EXCEPT !.alone = TRUE]
<1>1. /\ req[r].cell \in Cells /\ e \in Expenses \cup {None}
      /\ Remember /\ UNCHANGED <<budgets, unread>>
  BY DEF DeleteExpense, IInv, ShapeInv, Shape, RequestInv
<1>2. /\ Shape(new) /\ ~new.raise /\ new.stage = "written" /\ new.kind = "delete"
      /\ new.cell \in Cells
  BY <1>1 DEF Shape, Start, Idle
<1>3. ASSUME UNCHANGED expense PROVE UNCHANGED <<tables, held>>
  <2>1. \A c \in Cells : Total(c)' = Total(c) /\ Total(c) \in held[c]
    BY <1>3 DEF Total, SumOf, ExpensesOf, IInv, RowsInv
  <2>2. \A c \in Cells : held'[c] = held[c]
    BY <1>1, <2>1 DEF Remember
  <2>3. held' = held
    BY <1>1, <2>2 DEF Remember, IInv, ShapeInv
  <2> QED  BY <1>1, <1>3, <2>3 DEF tables
<1>4. CASE Fail(r) /\ UNCHANGED expense
  BY <1>3, <1>4, FailStep
<1>5. CASE Step(r, new, {}) /\ UNCHANGED expense
  <2>1. req'[r] = new
    BY <1>5, StepFacts
  <2> HIDE DEF new
  <2>2. RequestInv(req[r])'
    BY <1>2, <2>1 DEF RequestInv, Computing
  <2> QED  BY <1>2, <1>3, <1>5, <2>2, IdleStep
<1>6. CASE /\ expense[e] # None /\ e \in Expenses
           /\ expense' = [expense EXCEPT ![e] = None]
           /\ Step(r, new, {req[r].cell, expense[e].cell})
  <2> DEFINE C == {req[r].cell, expense[e].cell}
  <2>1. /\ Frame(C) /\ RowsInv'
        /\ expense' \in [Expenses -> ExpenseRows \cup {None}]
        /\ held' = [d \in Cells |-> held'[d]]
    <3>1. expense[e].cell \in C
      OBVIOUS
    <3> HIDE DEF C
    <3> QED  BY <1>1, <1>6, <3>1, ExpenseChange
  <2>2. req'[r] = new
    BY <1>6, StepFacts
  <2> HIDE DEF new
  <2>3. RequestInv(req[r])'
    BY <1>2, <2>2 DEF RequestInv, Computing
  <2>4. Step(r, new, C)
    BY <1>6
  <2> HIDE DEF C
  <2>5. /\ req' = [x \in Requests |-> req'[x]]
        /\ \A x \in Requests : Shape(req[x])' /\ RequestInv(req[x])'
    BY <1>2, <2>1, <2>3, <2>4, StepKeeps
  <2>6. (\A b : Alerting(b)' \subseteq Alerting(b)) /\ (\A d : Inserting(d)' \subseteq Inserting(d))
    BY <1>2, <2>1, <2>4, FewerAdders
  <2> QED  BY <1>1, <2>1, <2>5, <2>6, ExpenseStep
<1>7. e \in Expenses
  BY DEF DeleteExpense, IInv, RequestInv
<1> QED  BY <1>4, <1>5, <1>6, <1>7 DEF DeleteExpense

-----------------------------------------------------------------------------
(* The commit of a recomputed sum *)

LEMMA SameTotals ==
  ASSUME UNCHANGED expense
  PROVE  \A c : Total(c)' = Total(c)
BY DEF Total, SumOf, ExpensesOf

LEMMA CommitStep ==
  ASSUME IInv, NEW r \in Requests, Commit(r)
  PROVE  IInv'
<1> DEFINE q == req[r]
           bb == q.budget
           cc == q.cell
<1>1. /\ Shape(q) /\ RequestInv(q) /\ q.stage = "checked"
      /\ UNCHANGED <<expense, budget, limit, held>>
  BY DEF IInv, ShapeInv, Commit
<1>2. /\ cc \in Cells /\ bb \in Budgets /\ q.sum \in held[cc]
      /\ budget[bb] # None => budget[bb] = cc
  BY <1>1 DEF RequestInv, Computing
<1>3. CASE Fail(r) /\ UNCHANGED <<spent, unread>>
  BY <1>1, <1>3, FailStep DEF tables, budgets
<1>4. CASE /\ RowsTake(r)
           /\ spent' = IF Changed(r) THEN [spent EXCEPT ![bb] = q.sum] ELSE spent
           /\ unread' = IF q.raise THEN [unread EXCEPT ![bb] = @ + 1] ELSE unread
           /\ Succeed(r, {cc})
  <2>1. Step(r, Idle(FALSE), {cc}) /\ req'[r] = Idle(FALSE)
    BY <1>4, StepFacts DEF Succeed
  <2>2. /\ Shape(Idle(FALSE)) /\ ~Idle(FALSE).raise /\ Idle(FALSE).stage = "idle"
    BY DEF Shape, Idle
  <2>3. RequestInv(req[r])'
    BY <2>1 DEF RequestInv, Idle, Computing
  <2>4. /\ \A b \in Budgets : spent'[b] # spent[b] => b = bb /\ budget[b] = cc /\ spent'[b] = q.sum
        /\ spent' = [b \in Budgets |-> spent'[b]]
    BY <1>2, <1>4 DEF RowsTake, Changed, IInv, ShapeInv
  <2>5. /\ unread' \in [Budgets -> Nat]
        /\ \A b \in Budgets : unread'[b] = IF q.raise /\ b = bb THEN unread[b] + 1 ELSE unread[b]
    BY <1>2, <1>4 DEF IInv, ShapeInv
  <2>6. q.raise => budget[bb] # None
    BY <1>4 DEF RowsTake
  <2>7. \A c : Total(c)' = Total(c) /\ BudgetsOf(c)' = BudgetsOf(c)
    BY <1>1, SameTotals DEF BudgetsOf
  <2>8. Frame({cc})
    BY <1>1, <2>4, <2>7 DEF Frame, BudgetsOf
  <2>9. RowsInv'
    <3>1. \A c \in Cells : {0, Total(c)'} \subseteq held'[c]
      BY <1>1, <2>7 DEF IInv, RowsInv
    <3>2. \A b \in Budgets : budget'[b] = None => spent'[b] = 0
      BY <1>1, <1>2, <2>4, NoneAssumption DEF IInv, RowsInv
    <3>3. ShownWasTrue'
      BY <1>1, <1>2, <2>4 DEF IInv, RowsInv, ShownWasTrue
    <3>4. AlertsHaveBudget'
      BY <1>1, <2>5, <2>6 DEF IInv, RowsInv, AlertsHaveBudget
    <3> QED  BY <3>1, <3>2, <3>3, <3>4 DEF RowsInv
  <2>10. ShapeInv' /\ \A x \in Requests : RequestInv(req[x])'
    BY <1>1, <2>1, <2>2, <2>3, <2>4, <2>5, <2>8, StepKeeps DEF IInv, ShapeInv
  <2>11. \A b : Alerting(b)' = Alerting(b) \ {r}
    BY <2>1, <2>2, <2>8, StepCounts DEF Alerts
  <2>12. CountInv'
    <3>1. ASSUME NEW b \in Budgets
          PROVE  unread'[b] + Cardinality(Alerting(b)') <= Cardinality(Requests)
      <4>1. /\ Alerting(b) \in SUBSET Requests
            /\ unread[b] \in Nat
            /\ unread[b] + Cardinality(Alerting(b)) <= Cardinality(Requests)
        BY DEF Alerting, IInv, ShapeInv, CountInv, AlertsBounded
      <4>2. /\ Cardinality(Requests) \in Nat
            /\ Cardinality(Alerting(b)) \in 0 .. Cardinality(Requests)
            /\ Cardinality(Alerting(b) \ {r}) = IF r \in Alerting(b) THEN Cardinality(Alerting(b)) - 1
                                                ELSE Cardinality(Alerting(b))
        BY <4>1, Cards
      <4>3. Cardinality(Alerting(b)') = Cardinality(Alerting(b) \ {r})
        BY <2>11
      <4>4. q.raise /\ b = bb => r \in Alerting(b)
        BY <1>1 DEF Alerting
      <4>5. unread'[b] = IF q.raise /\ b = bb THEN unread[b] + 1 ELSE unread[b]
        BY <2>5
      <4> QED  BY <4>1, <4>2, <4>3, <4>4, <4>5
    <3>2. ASSUME NEW c \in Cells PROVE Inserting(c)' = Inserting(c)
      <4>1. r \notin Inserting(c)
        BY <1>1 DEF Inserting
      <4>2. ~Inserts(Idle(FALSE), c)
        BY <2>2 DEF Inserts
      <4>3. Inserting(c)' = Inserting(c) \ {r}
        BY <2>1, <2>8, <4>2, StepCounts
      <4> QED  BY <4>1, <4>3
    <3> QED  BY <2>7, <3>1, <3>2 DEF CountInv, AlertsBounded, DuplicatesBounded, IInv
  <2> QED  BY <2>9, <2>10, <2>12 DEF IInv
<1> QED  BY <1>3, <1>4 DEF Commit

-----------------------------------------------------------------------------
(* Steps that commit to the budgets and alerts tables *)

(* A step that neither adds an alert nor inserts a budget. *)
LEMMA BudgetStep ==
  ASSUME IInv, UNCHANGED expense, RowsInv',
         \A b \in Budgets : budget'[b] \in {budget[b], None},
         budget' \in [Budgets -> Cells \cup {None}],
         limit' = [b \in Budgets |-> limit'[b]],
         spent' = [b \in Budgets |-> spent'[b]],
         unread' \in [Budgets -> Nat],
         held' = [c \in Cells |-> held'[c]],
         \A b \in Budgets : unread'[b] <= unread[b],
         req' = [x \in Requests |-> req'[x]],
         \A x \in Requests : Shape(req[x])' /\ RequestInv(req[x])',
         \A b : Alerting(b)' \subseteq Alerting(b),
         \A c : Inserting(c)' \subseteq Inserting(c)
  PROVE  IInv'
<1>1. ShapeInv'
  BY DEF IInv, ShapeInv
<1>2. \A c \in Cells : BudgetsOf(c)' \subseteq BudgetsOf(c)
  BY NoneAssumption DEF BudgetsOf
<1>3. CountInv'
  BY <1>2, FewerCounts
<1> QED  BY <1>1, <1>3 DEF IInv

LEMMA EditLimitStep ==
  ASSUME IInv, NEW b \in Budgets, NEW l \in Limits, EditLimit(b, l)
  PROVE  IInv'
<1>1. /\ Disturb({budget[b]}) /\ UNCHANGED <<expense, budget, spent, unread, held>>
      /\ limit' = [limit EXCEPT ![b] = l]
  BY DEF EditLimit
<1>2. Frame({budget[b]}) /\ RowsInv'
  <2>1. \A c : Total(c)' = Total(c) /\ BudgetsOf(c)' = BudgetsOf(c)
    BY <1>1, SameTotals DEF BudgetsOf
  <2> QED  BY <1>1, <2>1 DEF Frame, IInv, RowsInv, ShownWasTrue, AlertsHaveBudget
<1>3. /\ limit' = [x \in Budgets |-> limit'[x]]
      /\ budget \in [Budgets -> Cells \cup {None}] /\ unread \in [Budgets -> Nat]
      /\ spent = [x \in Budgets |-> spent[x]] /\ held = [c \in Cells |-> held[c]]
  BY <1>1 DEF IInv, ShapeInv
<1>4. \A x \in Budgets : unread'[x] <= unread[x]
  BY <1>1, <1>3
<1> QED  BY <1>1, <1>2, <1>3, <1>4, DisturbKeeps, BudgetStep

LEMMA EditSpentStep ==
  ASSUME IInv, NEW b \in Budgets, NEW a \in Typed, EditSpent(b, a)
  PROVE  IInv'
<1> DEFINE c == budget[b]
<1>1. /\ Disturb({c}) /\ UNCHANGED <<expense, budget, limit, unread>>
      /\ spent' = [spent EXCEPT ![b] = a] /\ held' = [held EXCEPT ![c] = @ \cup {a}]
      /\ c # None
  BY DEF EditSpent
<1>2. /\ budget \in [Budgets -> Cells \cup {None}] /\ unread \in [Budgets -> Nat]
      /\ spent = [x \in Budgets |-> spent[x]] /\ held = [d \in Cells |-> held[d]]
      /\ limit = [x \in Budgets |-> limit[x]]
  BY DEF IInv, ShapeInv
<1>3. c \in Cells
  BY <1>1, <1>2
<1>4. /\ \A x \in Budgets : spent'[x] = IF x = b THEN a ELSE spent[x]
      /\ \A d \in Cells : held'[d] = IF d = c THEN held[d] \cup {a} ELSE held[d]
      /\ spent' = [x \in Budgets |-> spent'[x]] /\ held' = [d \in Cells |-> held'[d]]
  BY <1>1, <1>2, <1>3
<1>5. Frame({c}) /\ RowsInv'
  <2>1. \A d : Total(d)' = Total(d) /\ BudgetsOf(d)' = BudgetsOf(d)
    BY <1>1, SameTotals DEF BudgetsOf
  <2>2. Frame({c})
    BY <1>1, <1>4, <2>1 DEF Frame, BudgetsOf
  <2>3. RowsInv'
    BY <1>1, <1>2, <1>4, <2>1 DEF IInv, RowsInv, ShownWasTrue, AlertsHaveBudget
  <2> QED  BY <2>2, <2>3
<1>6. \A x \in Budgets : unread'[x] <= unread[x]
  BY <1>1, <1>2
<1> QED  BY <1>1, <1>2, <1>4, <1>5, <1>6, DisturbKeeps, BudgetStep

LEMMA DeleteBudgetStep ==
  ASSUME IInv, NEW b \in Budgets, DeleteBudget(b)
  PROVE  IInv'
<1> DEFINE c == budget[b]
<1>1. /\ Disturb({c}) /\ UNCHANGED <<expense, held>>
      /\ budget' = [budget EXCEPT ![b] = None] /\ limit' = [limit EXCEPT ![b] = 0]
      /\ spent' = [spent EXCEPT ![b] = 0] /\ unread' = [unread EXCEPT ![b] = 0]
  BY DEF DeleteBudget
<1>2. /\ budget \in [Budgets -> Cells \cup {None}] /\ unread \in [Budgets -> Nat]
      /\ spent = [x \in Budgets |-> spent[x]] /\ held = [d \in Cells |-> held[d]]
      /\ limit = [x \in Budgets |-> limit[x]]
  BY DEF IInv, ShapeInv
<1>3. /\ \A x \in Budgets : budget'[x] = IF x = b THEN None ELSE budget[x]
      /\ \A x \in Budgets : spent'[x] = IF x = b THEN 0 ELSE spent[x]
      /\ \A x \in Budgets : unread'[x] = IF x = b THEN 0 ELSE unread[x]
      /\ spent' = [x \in Budgets |-> spent'[x]] /\ limit' = [x \in Budgets |-> limit'[x]]
      /\ budget' \in [Budgets -> Cells \cup {None}] /\ unread' \in [Budgets -> Nat]
  BY <1>1, <1>2
<1>4. \A d : Total(d)' = Total(d)
  BY <1>1, SameTotals
<1>5. Frame({c})
  BY <1>1, <1>3, <1>4, NoneAssumption DEF Frame, BudgetsOf
<1>6. RowsInv'
  BY <1>1, <1>3, <1>4 DEF IInv, RowsInv, ShownWasTrue, AlertsHaveBudget
<1>7. \A x \in Budgets : unread'[x] <= unread[x]
  BY <1>2, <1>3
<1> QED  BY <1>1, <1>2, <1>3, <1>5, <1>6, <1>7, DisturbKeeps, BudgetStep

LEMMA ReadAlertStep ==
  ASSUME IInv, NEW b \in Budgets, ReadAlert(b)
  PROVE  IInv'
<1>1. /\ UNCHANGED <<expense, budgets, req, held>> /\ unread[b] > 0
      /\ unread' = [unread EXCEPT ![b] = @ - 1]
  BY DEF ReadAlert
<1>2. unread \in [Budgets -> Nat] /\ ShapeInv
  BY DEF IInv, ShapeInv
<1>3. /\ unread' \in [Budgets -> Nat]
      /\ \A x \in Budgets : unread'[x] <= unread[x] /\ (unread'[x] > 0 => unread[x] > 0)
  BY <1>1, <1>2
<1>4. \A c : Total(c)' = Total(c) /\ BudgetsOf(c)' = BudgetsOf(c) /\ Inserting(c)' = Inserting(c)
  BY <1>1, SameTotals DEF BudgetsOf, Inserting, budgets
<1>5. \A x : Alerting(x)' = Alerting(x)
  BY <1>1 DEF Alerting
<1>6. ShapeInv' /\ RowsInv'
  BY <1>1, <1>2, <1>3, <1>4 DEF ShapeInv, budgets, IInv, RowsInv, ShownWasTrue, AlertsHaveBudget
<1>7. \A x \in Requests : RequestInv(req[x])'
  BY <1>1, <1>4 DEF IInv, RequestInv, budgets
<1>8. CountInv'
  BY <1>3, <1>4, <1>5, FewerCounts
<1> QED  BY <1>6, <1>7, <1>8 DEF IInv

LEMMA InsertBudgetStep ==
  ASSUME IInv, NEW r \in Requests, NEW new \in Budgets, NEW c, NEW l,
         c = req[r].cell, req[r].stage = "insert", FreeBudget(new),
         budget' = [budget EXCEPT ![new] = c], limit' = [limit EXCEPT ![new] = l],
         Succeed(r, {c}), UNCHANGED <<expense, spent, unread, held>>
  PROVE  IInv'
<1>1. /\ Step(r, Idle(FALSE), {c}) /\ req'[r] = Idle(FALSE)
      /\ Shape(Idle(FALSE)) /\ ~Idle(FALSE).raise /\ Idle(FALSE).stage = "idle"
  BY StepFacts DEF Succeed, Shape, Idle
<1>2. RequestInv(req[r])'
  BY <1>1 DEF RequestInv, Idle, Computing
<1>3. /\ budget \in [Budgets -> Cells \cup {None}] /\ unread \in [Budgets -> Nat]
      /\ spent = [x \in Budgets |-> spent[x]] /\ held = [d \in Cells |-> held[d]]
      /\ limit = [x \in Budgets |-> limit[x]]
      /\ expense \in [Expenses -> ExpenseRows \cup {None}]
  BY DEF IInv, ShapeInv
<1>4. c \in Cells /\ c # None /\ budget[new] = None
  BY NoneAssumption DEF IInv, RequestInv, FreeBudget
<1>5. /\ \A b \in Budgets : budget'[b] = IF b = new THEN c ELSE budget[b]
      /\ budget' \in [Budgets -> Cells \cup {None}]
      /\ limit' = [b \in Budgets |-> limit'[b]]
  BY <1>3, <1>4
<1>6. /\ BudgetsOf(c)' = BudgetsOf(c) \cup {new} /\ new \notin BudgetsOf(c)
      /\ \A d \in Cells \ {c} : BudgetsOf(d)' = BudgetsOf(d)
  BY <1>4, <1>5, NoneAssumption DEF BudgetsOf
<1>7. Frame({c})
  BY <1>5, <1>6, SameTotals DEF Frame
<1>8. RowsInv'
  <2>1. \A d : Total(d)' = Total(d)
    BY SameTotals
  <2>2. spent[new] = 0 /\ 0 \in held[c]
    BY <1>4 DEF IInv, RowsInv
  <2>3. ShownWasTrue' /\ AlertsHaveBudget'
    BY <1>4, <1>5, <2>2 DEF IInv, RowsInv, ShownWasTrue, AlertsHaveBudget
  <2>4. \A b \in Budgets : budget'[b] = None => spent'[b] = 0
    BY <1>5, <2>2 DEF IInv, RowsInv
  <2> QED  BY <2>1, <2>3, <2>4 DEF IInv, RowsInv
<1>9. ShapeInv' /\ \A x \in Requests : RequestInv(req[x])'
  BY <1>1, <1>2, <1>3, <1>5, <1>7, StepKeeps DEF ShapeInv
<1>10. CountInv'
  <2>1. ASSUME NEW b \in Budgets
        PROVE  unread'[b] + Cardinality(Alerting(b)') <= Cardinality(Requests)
    <3>1. Alerting(b)' \in SUBSET Alerting(b) /\ Alerting(b) \in SUBSET Requests
      BY <1>1, <1>7, FewerAdders DEF Alerting
    <3>2. /\ Cardinality(Requests) \in Nat
          /\ Cardinality(Alerting(b)) \in 0 .. Cardinality(Requests)
          /\ Cardinality(Alerting(b)') \in 0 .. Cardinality(Alerting(b))
      BY <3>1, CardsFewer
    <3>3. unread[b] \in Nat /\ unread[b] + Cardinality(Alerting(b)) <= Cardinality(Requests)
      BY <1>3 DEF IInv, CountInv, AlertsBounded
    <3> QED  BY <3>2, <3>3
  <2>2. ASSUME NEW d \in Cells
        PROVE  /\ IsFiniteSet(BudgetsOf(d)')
               /\ Cardinality(BudgetsOf(d)') + Cardinality(Inserting(d)') <= Cardinality(Requests)
    <3>1. /\ IsFiniteSet(BudgetsOf(d)) /\ Cardinality(BudgetsOf(d)) \in Nat
          /\ Cardinality(BudgetsOf(d)) + Cardinality(Inserting(d)) <= Cardinality(Requests)
      BY FS_CardinalityType DEF IInv, CountInv, DuplicatesBounded
    <3>2. Inserting(d) \in SUBSET Requests /\ (r \in Inserting(d) <=> d = c)
      BY DEF Inserting
    <3>3. Inserting(d)' = Inserting(d) \ {r}
      <4>1. ~Inserts(Idle(FALSE), d)
        BY <1>1 DEF Inserts
      <4> QED  BY <1>1, <1>7, <4>1, StepCounts
    <3>4. /\ Cardinality(Requests) \in Nat
          /\ Cardinality(Inserting(d)) \in 0 .. Cardinality(Requests)
          /\ Cardinality(Inserting(d) \ {r}) = IF r \in Inserting(d) THEN Cardinality(Inserting(d)) - 1
                                               ELSE Cardinality(Inserting(d))
      BY <3>2, Cards
    <3>5. CASE d = c
      <4>1. IsFiniteSet(BudgetsOf(d)') /\ Cardinality(BudgetsOf(d)') = Cardinality(BudgetsOf(d)) + 1
        BY <1>6, <3>1, <3>5, FS_AddElement
      <4> QED  BY <3>1, <3>2, <3>3, <3>4, <3>5, <4>1
    <3>6. CASE d # c
      BY <1>6, <3>1, <3>2, <3>3, <3>4, <3>6
    <3> QED  BY <3>5, <3>6
  <2> QED  BY <2>1, <2>2 DEF CountInv, AlertsBounded, DuplicatesBounded
<1> QED  BY <1>8, <1>9, <1>10 DEF IInv

LEMMA SetBudgetStep ==
  ASSUME IInv, NEW r \in Requests, SetBudget(r)
  PROVE  IInv'
<1> DEFINE c == req[r].cell
           b == req[r].budget
           l == req[r].limit
<1>1. UNCHANGED <<expense, spent, unread, held>>
  BY DEF SetBudget
<1>2. ASSUME NEW new \in Budgets, req[r].stage = "insert", FreeBudget(new),
             budget' = [budget EXCEPT ![new] = c], limit' = [limit EXCEPT ![new] = l],
             Succeed(r, {c})
      PROVE  IInv'
  BY <1>1, <1>2, InsertBudgetStep
<1>3. CASE /\ limit' = IF l = req[r].seen THEN limit ELSE [limit EXCEPT ![b] = l]
           /\ Succeed(r, {c})
           /\ UNCHANGED budget
  <2>1. /\ Step(r, Idle(FALSE), {c}) /\ req'[r] = Idle(FALSE)
        /\ Shape(Idle(FALSE)) /\ ~Idle(FALSE).raise /\ Idle(FALSE).stage = "idle"
    BY <1>3, StepFacts DEF Succeed, Shape, Idle
  <2>2. RequestInv(req[r])'
    BY <2>1 DEF RequestInv, Idle, Computing
  <2>3. Frame({c}) /\ RowsInv'
    <3>1. \A d : Total(d)' = Total(d) /\ BudgetsOf(d)' = BudgetsOf(d)
      BY <1>1, <1>3, SameTotals DEF BudgetsOf
    <3> QED  BY <1>1, <1>3, <3>1 DEF Frame, IInv, RowsInv, ShownWasTrue, AlertsHaveBudget
  <2>4. /\ limit' = [x \in Budgets |-> limit'[x]]
        /\ budget \in [Budgets -> Cells \cup {None}] /\ unread \in [Budgets -> Nat]
        /\ spent = [x \in Budgets |-> spent[x]] /\ held = [d \in Cells |-> held[d]]
    BY <1>3 DEF IInv, ShapeInv
  <2>5. /\ \A x \in Budgets : unread'[x] <= unread[x]
    BY <1>1, <2>4
  <2> HIDE DEF c
  <2>6. /\ req' = [x \in Requests |-> req'[x]]
        /\ \A x \in Requests : Shape(req[x])' /\ RequestInv(req[x])'
    BY <2>1, <2>2, <2>3, StepKeeps
  <2>7. /\ \A x : Alerting(x)' \subseteq Alerting(x)
        /\ \A x : Inserting(x)' \subseteq Inserting(x)
    BY <2>1, <2>3, FewerAdders
  <2> QED  BY <1>1, <1>3, <2>3, <2>4, <2>5, <2>6, <2>7, BudgetStep
<1>4. CASE Fail(r) /\ UNCHANGED <<budget, limit>>
  BY <1>1, <1>4, FailStep DEF tables, budgets
<1> QED  BY <1>2, <1>3, <1>4 DEF SetBudget

-----------------------------------------------------------------------------

LEMMA StutterStep == IInv /\ UNCHANGED vars => IInv'
<1> SUFFICES ASSUME IInv, UNCHANGED vars PROVE IInv'
  OBVIOUS
<1>1. UNCHANGED <<expense, budget, limit, spent, unread, req, held>>
  BY DEF vars, tables, budgets
<1>2. \A c : /\ Total(c)' = Total(c) /\ BudgetsOf(c)' = BudgetsOf(c)
             /\ Inserting(c)' = Inserting(c) /\ Alerting(c)' = Alerting(c)
  BY <1>1, SameTotals DEF BudgetsOf, Inserting, Alerting
<1>3. ShapeInv' /\ RowsInv' /\ CountInv'
  BY <1>1, <1>2 DEF IInv, ShapeInv, RowsInv, ShownWasTrue, AlertsHaveBudget, CountInv,
                    AlertsBounded, DuplicatesBounded
<1>4. \A x \in Requests : RequestInv(req[x])'
  BY <1>1, <1>2 DEF IInv, RequestInv
<1> QED  BY <1>3, <1>4 DEF IInv

LEMMA NextIInv == IInv /\ [Next]_vars => IInv'
<1> SUFFICES ASSUME IInv, [Next]_vars PROVE IInv'
  OBVIOUS
<1>1. CASE \E r \in Requests, e \in Expenses :
             DeleteLookup(r, e) \/ \E c \in Cells, a \in Amounts : CreateExpense(r, e, c, a)
  BY <1>1, DeleteLookupStep, CreateExpenseStep
<1>2. CASE \E r \in Requests :
             \/ RefreshExpense(r) \/ DeleteExpense(r) \/ FindBudget(r) \/ SumExpenses(r) \/ CheckAlert(r)
             \/ Commit(r) \/ Interrupt(r) \/ SetBudget(r)
  BY <1>2, RefreshExpenseStep, DeleteExpenseStep, FindBudgetStep, SumExpensesStep, CheckAlertStep, CommitStep,
     InterruptStep, SetBudgetStep
<1>3. CASE \E r \in Requests, c \in Budgeted, l \in Limits : SetBudgetLookup(r, c, l)
  BY <1>3, CellsAssumption, SetBudgetLookupStep
<1>4. CASE \E e \in Expenses, c \in Cells, a \in Amounts : UpdateExpense(e, c, a)
  BY <1>4, UpdateExpenseStep
<1>5. CASE \E b \in Budgets : DeleteBudget(b) \/ ReadAlert(b)
  BY <1>5, DeleteBudgetStep, ReadAlertStep
<1>6. CASE \E b \in Budgets, l \in Limits : EditLimit(b, l)
  BY <1>6, EditLimitStep
<1>7. CASE \E b \in Budgets, a \in Typed : EditSpent(b, a)
  BY <1>7, EditSpentStep
<1>8. CASE UNCHANGED vars
  BY <1>8, StutterStep
<1> QED  BY <1>1, <1>2, <1>3, <1>4, <1>5, <1>6, <1>7, <1>8 DEF Next

(* Every reachable state satisfies the inductive invariant: what a request *)
(* in flight carries stays consistent with the tables, and the requests    *)
(* about to add a row are counted with the rows that are there.            *)
THEOREM Inductive == Spec => []IInv
BY InitIInv, NextIInv, PTL DEF Spec

(* However many requests overlap, a budget only ever shows a total that    *)
(* was true at some time, or an amount that was typed in: recomputing the  *)
(* cache with SUM can make it stale but never wrong in another way         *)
(* (_update_budget_after_expense, BudgetRepository.update).                *)
THEOREM ShownWasTrueAlways == Spec => []ShownWasTrue
<1>1. IInv => ShownWasTrue
  BY DEF IInv, RowsInv
<1> QED  BY <1>1, Inductive, PTL

(* The unread alerts of a budget are at most as many as the requests that  *)
(* can be in flight together, for any number of requests                   *)
(* (_check_budget_alert).                                                  *)
THEOREM AlertsAreBounded == Spec => []AlertsBounded
<1>1. IInv => AlertsBounded
  BY DEF IInv, CountInv
<1> QED  BY <1>1, Inductive, PTL

(* So are the budgets of one category and month                            *)
(* (BudgetRepository.create).                                              *)
THEOREM DuplicatesAreBounded == Spec => []DuplicatesBounded
<1>1. IInv => DuplicatesBounded
  BY DEF IInv, CountInv
<1> QED  BY <1>1, Inductive, PTL

(* No alert outlives its budget (the foreign key of budget_alerts).        *)
THEOREM AlertsAreOwned == Spec => []AlertsHaveBudget
<1>1. IInv => AlertsHaveBudget
  BY DEF IInv, RowsInv
<1> QED  BY <1>1, Inductive, PTL

-----------------------------------------------------------------------------
(***************************************************************************)
(* The numbers.  There are only so many rows, so the total of a cell is a  *)
(* number; and every amount shown or carried comes from such a total, from *)
(* a row or from a client.                                                 *)
(***************************************************************************)
Rows == {e \in Expenses : expense[e] # None}

Numbers(q) ==
  /\ q.seen \in Nat /\ q.limit \in Nat /\ q.sum \in Nat
  /\ q.stage \in {"insert", "edit"} => q.limit \in Limits

NumbersInv ==
  /\ IsFiniteSet(Rows)
  /\ \A c \in Cells : held[c] \subseteq Nat
  /\ limit \in [Budgets -> Limits \cup {0}]
  /\ \A x \in Requests : Numbers(req[x])

LEMMA TotalNat ==
  ASSUME IInv, IsFiniteSet(Rows), NEW c
  PROVE  Total(c) \in Nat
<1> DEFINE amount == [e \in ExpensesOf(c) |-> expense[e].amount]
<1>1. ExpensesOf(c) \subseteq Rows
  BY DEF ExpensesOf, Rows
<1>2. IsFiniteSet(ExpensesOf(c))
  BY <1>1, FS_Subset
<1>3. \A e \in ExpensesOf(c) : amount[e] \in Nat
  BY AmountsAssumption DEF ExpensesOf, IInv, ShapeInv, ExpenseRows
<1>4. Total(c) = SumFunctionOnSet(amount, ExpensesOf(c))
  BY DEF Total, SumOf, SumFunction
<1> HIDE DEF amount
<1> QED  BY <1>2, <1>3, <1>4, SumNat

LEMMA TotalsNat == IInv /\ IsFiniteSet(Rows) => \A c \in Cells : Total(c) \in Nat
BY TotalNat

LEMMA SpentNat ==
  ASSUME IInv, NumbersInv, NEW b \in Budgets
  PROVE  spent[b] \in Nat
<1>1. CASE budget[b] = None
  BY <1>1 DEF IInv, RowsInv
<1>2. CASE budget[b] # None
  BY <1>2 DEF IInv, ShapeInv, RowsInv, ShownWasTrue, NumbersInv
<1> QED  BY <1>1, <1>2

LEMMA StepNumbers ==
  ASSUME IInv, NumbersInv, NEW r \in Requests, NEW new, NEW C, Step(r, new, C), Numbers(new)
  PROVE  \A x \in Requests : Numbers(req'[x])
<1>1. \A x \in Requests : req'[x] = IF x = r THEN new
                                    ELSE IF req[x].cell \in C THEN [req[x] EXCEPT !.alone = FALSE]
                                    ELSE req[x]
  BY DEF Step
<1>2. \A x \in Requests : Shape(req[x]) /\ Numbers(req[x])
  BY DEF IInv, ShapeInv, NumbersInv
<1>3. \A x \in Requests : Numbers([req[x] EXCEPT !.alone = FALSE])
  BY <1>2 DEF Shape, Numbers
<1> QED  BY <1>1, <1>2, <1>3

LEMMA IdleNumbers ==
  ASSUME NEW failed PROVE Numbers(Idle(failed))
BY DEF Numbers, Idle

LEMMA DisturbNumbers ==
  ASSUME IInv, NumbersInv, NEW C, Disturb(C)
  PROVE  \A x \in Requests : Numbers(req'[x])
<1>1. \A x \in Requests : req'[x] = IF req[x].cell \in C THEN [req[x] EXCEPT !.alone = FALSE]
                                    ELSE req[x]
  BY DEF Disturb
<1>2. \A x \in Requests : Shape(req[x]) /\ Numbers(req[x])
  BY DEF IInv, ShapeInv, NumbersInv
<1>3. \A x \in Requests : Numbers([req[x] EXCEPT !.alone = FALSE])
  BY <1>2 DEF Shape, Numbers
<1> QED  BY <1>1, <1>2, <1>3

(* A step that commits nothing but moves a request. *)
LEMMA QuietNumbers ==
  ASSUME IInv, NumbersInv, NEW r \in Requests, NEW new, NEW C, Step(r, new, C), Numbers(new),
         UNCHANGED <<expense, limit, held>>
  PROVE  NumbersInv'
<1>1. \A x \in Requests : Numbers(req[x])'
  BY StepNumbers DEF Numbers
<1> QED  BY <1>1 DEF NumbersInv, Rows

LEMMA FailNumbers ==
  ASSUME IInv, NumbersInv, NEW r \in Requests, Fail(r), UNCHANGED <<expense, limit, held>>
  PROVE  NumbersInv'
BY IdleNumbers, QuietNumbers DEF Fail

(* A step that changes one row of the expenses. *)
LEMMA RowNumbers ==
  ASSUME IInv, IInv', NumbersInv, NEW e, \A x \in Expenses \ {e} : expense'[x] = expense[x],
         Remember, UNCHANGED limit, \A x \in Requests : Numbers(req'[x])
  PROVE  NumbersInv'
<1>1. Rows' \subseteq Rows \cup {e}
  BY DEF Rows
<1>2. IsFiniteSet(Rows')
  BY <1>1, FS_AddElement, FS_Subset DEF NumbersInv
<1>3. \A c \in Cells : Total(c)' \in Nat
  <2>1. (IInv /\ IsFiniteSet(Rows) => \A c \in Cells : Total(c) \in Nat)'
    BY TotalsNat, PTL
  <2> QED  BY <1>2, <2>1
<1>4. \A c \in Cells : held'[c] \subseteq Nat
  BY <1>3 DEF NumbersInv, Remember
<1>5. \A x \in Requests : Numbers(req[x])'
  BY DEF Numbers
<1> QED  BY <1>2, <1>4, <1>5 DEF NumbersInv

-----------------------------------------------------------------------------

LEMMA InitNumbers == Init => NumbersInv
<1> SUFFICES ASSUME Init PROVE NumbersInv
  OBVIOUS
<1>1. Rows = {} /\ \A c \in Cells : ExpensesOf(c) = {}
  BY DEF Init, Rows, ExpensesOf
<1>2. IsFiniteSet(Rows)
  BY <1>1, FS_EmptySet
<1>3. \A c \in Cells : Total(c) \in Nat
  BY <1>2, InitIInv, TotalNat
<1>4. \A c \in Cells : held[c] \subseteq Nat
  BY <1>3 DEF Init
<1>5. \A x \in Requests : Numbers(req[x])
  BY IdleNumbers DEF Init
<1> QED  BY <1>2, <1>4, <1>5 DEF Init, NumbersInv

LEMMA NextNumbers == IInv /\ IInv' /\ NumbersInv /\ [Next]_vars => NumbersInv'
<1> SUFFICES ASSUME IInv, IInv', NumbersInv, [Next]_vars PROVE NumbersInv'
  OBVIOUS
<1> USE DEF tables, budgets
<1>1. \A x \in Requests : Shape(req[x]) /\ RequestInv(req[x]) /\ Numbers(req[x])
  BY DEF IInv, ShapeInv, NumbersInv
<1>2. ASSUME NEW r \in Requests, NEW e \in Expenses, DeleteLookup(r, e)
      PROVE  NumbersInv'
  <2>1. Numbers([Start("delete", "found", expense[e].cell) EXCEPT !.expense = e])
    BY DEF Numbers, Start, Idle
  <2> QED  BY <1>2, <2>1, QuietNumbers, FailNumbers DEF DeleteLookup
<1>3. ASSUME NEW r \in Requests, NEW e \in Expenses, NEW c \in Cells, NEW a \in Amounts, CreateExpense(r, e, c, a)
      PROVE  NumbersInv'
  <2>1. Numbers([Start("create", "added", c) EXCEPT !.expense = e, !.alone = TRUE])
    BY DEF Numbers, Start, Idle
  <2>2. \A x \in Requests : Numbers(req'[x])
    BY <1>3, <2>1, StepNumbers DEF CreateExpense
  <2>3. \A x \in Expenses \ {e} : expense'[x] = expense[x]
    BY <1>3 DEF CreateExpense, IInv, ShapeInv
  <2>4. Remember /\ UNCHANGED limit
    BY <1>3 DEF CreateExpense
  <2> QED  BY <2>2, <2>3, <2>4, RowNumbers
<1>4. ASSUME NEW r \in Requests, DeleteExpense(r)
      PROVE  NumbersInv'
  <2> DEFINE new == [Start("delete", "written", req[r].cell) EXCEPT !.alone = TRUE]
  <2>1. Numbers(new)
    BY DEF Numbers, Start, Idle
  <2>2. Fail(r) \/ \E C : Step(r, new, C)
    BY <1>4 DEF DeleteExpense
  <2>3. \A x \in Requests : Numbers(req'[x])
    <3> HIDE DEF new
    <3> QED  BY <2>1, <2>2, StepNumbers, IdleNumbers DEF Fail
  <2>4. PICK e : \A x \in Expenses \ {e} : expense'[x] = expense[x]
    BY <1>4 DEF DeleteExpense, IInv, ShapeInv
  <2>5. Remember /\ UNCHANGED limit
    BY <1>4 DEF DeleteExpense
  <2> QED  BY <2>3, <2>4, <2>5, RowNumbers
<1>5. ASSUME NEW r \in Requests, FindBudget(r)
      PROVE  NumbersInv'
  <2>1. CASE Succeed(r, {}) \/ Fail(r)
    BY <1>5, <2>1, QuietNumbers, IdleNumbers, FailNumbers DEF FindBudget, Succeed
  <2>2. ASSUME NEW b \in Budgets, NEW l, l = (IF req[r].kind = "create" THEN limit[b] ELSE 0),
               Step(r, [req[r] EXCEPT !.stage = "loaded", !.budget = b, !.seen = spent[b], !.limit = l], {})
        PROVE  NumbersInv'
    <3>1. spent[b] \in Nat
      BY SpentNat
    <3>2. l \in Nat
      BY <2>2, AmountsAssumption DEF NumbersInv
    <3>3. Numbers([req[r] EXCEPT !.stage = "loaded", !.budget = b, !.seen = spent[b], !.limit = l])
      BY <1>1, <3>1, <3>2 DEF Numbers, Shape
    <3> QED  BY <1>5, <2>2, <3>3, QuietNumbers DEF FindBudget
  <2> QED  BY <1>5, <2>1, <2>2 DEF FindBudget
<1>6. ASSUME NEW r \in Requests, SumExpenses(r)
      PROVE  NumbersInv'
  <2> DEFINE new == [req[r] EXCEPT !.sum = Total(req[r].cell),
                                   !.stage = IF req[r].kind = "create" THEN "summed" ELSE "checked"]
  <2>1. Total(req[r].cell) \in Nat
    BY TotalNat DEF NumbersInv
  <2>2. Numbers(new)
    BY <1>1, <2>1 DEF Numbers, Shape
  <2>3. Step(r, new, {}) /\ UNCHANGED <<expense, limit, held>>
    BY <1>6 DEF SumExpenses
  <2> HIDE DEF new
  <2> QED  BY <2>2, <2>3, QuietNumbers
<1>7. ASSUME NEW r \in Requests, CheckAlert(r)
      PROVE  NumbersInv'
  <2> DEFINE new(raise) == [req[r] EXCEPT !.stage = "checked", !.raise = raise,
                                          !.limit = IF raise THEN @ ELSE 0]
  <2>1. \A raise : Numbers(new(raise))
    BY <1>1 DEF Numbers, Shape
  <2>2. Fail(r) \/ \E raise : Step(r, new(raise), {})
    BY <1>7 DEF CheckAlert
  <2>3. UNCHANGED <<expense, limit, held>>
    BY <1>7 DEF CheckAlert
  <2> HIDE DEF new
  <2> QED  BY <2>1, <2>2, <2>3, QuietNumbers, FailNumbers
<1>8. ASSUME NEW r \in Requests, Commit(r) \/ Interrupt(r)
      PROVE  NumbersInv'
  BY <1>8, QuietNumbers, IdleNumbers, FailNumbers DEF Commit, Interrupt, Succeed
<1>9. ASSUME NEW r \in Requests, SetBudget(r)
      PROVE  NumbersInv'
  <2>1. Fail(r) \/ \E C : Succeed(r, C)
    BY <1>9 DEF SetBudget
  <2>2. \A x \in Requests : Numbers(req'[x])
    BY <2>1, StepNumbers, IdleNumbers DEF Fail, Succeed
  <2>3. req[r].stage \in {"insert", "edit"} /\ req[r].limit \in Limits
    BY <1>1, <1>9 DEF SetBudget, Numbers
  <2>4. limit' \in [Budgets -> Limits \cup {0}]
    BY <1>9, <2>3 DEF SetBudget, NumbersInv
  <2>5. UNCHANGED <<expense, held>>
    BY <1>9 DEF SetBudget
  <2>6. \A x \in Requests : Numbers(req[x])'
    BY <2>2 DEF Numbers
  <2> QED  BY <2>4, <2>5, <2>6 DEF NumbersInv, Rows
<1>10. ASSUME NEW r \in Requests, NEW c \in Cells, NEW l \in Limits, SetBudgetLookup(r, c, l)
       PROVE  NumbersInv'
  <2> DEFINE start(stage) == [Start("budget", stage, c) EXCEPT !.limit = l]
  <2>1. Numbers(start("insert")) /\ \A b \in Budgets : Numbers([start("edit") EXCEPT !.budget = b, !.seen = limit[b]])
    BY AmountsAssumption DEF Numbers, Start, Idle, NumbersInv
  <2>2. \/ Fail(r) \/ Step(r, start("insert"), {})
        \/ \E b \in Budgets : Step(r, [start("edit") EXCEPT !.budget = b, !.seen = limit[b]], {})
    BY <1>10 DEF SetBudgetLookup
  <2>3. UNCHANGED <<expense, limit, held>>
    BY <1>10 DEF SetBudgetLookup
  <2> HIDE DEF start
  <2> QED  BY <2>1, <2>2, <2>3, QuietNumbers, FailNumbers
<1>11. ASSUME NEW e \in Expenses, NEW c \in Cells, NEW a \in Amounts, UpdateExpense(e, c, a)
       PROVE  NumbersInv'
  <2>1. \A x \in Requests : Numbers(req'[x])
    BY <1>11, DisturbNumbers DEF UpdateExpense
  <2>2. \A x \in Expenses \ {e} : expense'[x] = expense[x]
    BY <1>11 DEF UpdateExpense, IInv, ShapeInv
  <2>3. Remember /\ UNCHANGED limit
    BY <1>11 DEF UpdateExpense
  <2> QED  BY <2>1, <2>2, <2>3, RowNumbers
<1>12. ASSUME NEW b \in Budgets, DeleteBudget(b) \/ \E l \in Limits : EditLimit(b, l)
       PROVE  NumbersInv'
  <2>1. \A x \in Requests : Numbers(req[x])'
    BY <1>12, DisturbNumbers DEF DeleteBudget, EditLimit, Numbers
  <2>2. limit' \in [Budgets -> Limits \cup {0}]
    BY <1>12 DEF DeleteBudget, EditLimit, NumbersInv
  <2> QED  BY <1>12, <2>1, <2>2 DEF DeleteBudget, EditLimit, NumbersInv, Rows
<1>13. ASSUME NEW b \in Budgets, NEW a \in Typed, EditSpent(b, a)
       PROVE  NumbersInv'
  <2>1. \A x \in Requests : Numbers(req[x])'
    BY <1>13, DisturbNumbers DEF EditSpent, Numbers
  <2>2. \A c \in Cells : held'[c] \subseteq held[c] \cup {a}
    BY <1>13 DEF EditSpent, IInv, ShapeInv
  <2>3. \A c \in Cells : held'[c] \subseteq Nat
    BY <2>2, AmountsAssumption DEF NumbersInv
  <2> QED  BY <1>13, <2>1, <2>3 DEF EditSpent, NumbersInv, Rows
<1>14. ASSUME NEW b \in Budgets, ReadAlert(b)
       PROVE  NumbersInv'
  BY <1>14 DEF ReadAlert, NumbersInv, Rows, Numbers
<1>15. CASE UNCHANGED vars
  BY <1>15 DEF vars, NumbersInv, Rows, Numbers
<1>16. ASSUME NEW r \in Requests, RefreshExpense(r)
       PROVE  NumbersInv'
  <2> DEFINE new == [req[r] EXCEPT !.stage = "written", !.cell = expense[req[r].expense].cell]
  <2>1. Numbers(new)
    BY <1>1 DEF Numbers, Shape
  <2>2. Step(r, new, {}) \/ Fail(r)
    BY <1>16 DEF RefreshExpense
  <2>3. UNCHANGED <<expense, limit, held>>
    BY <1>16 DEF RefreshExpense
  <2> HIDE DEF new
  <2> QED  BY <2>1, <2>2, <2>3, QuietNumbers, FailNumbers
<1> QED
  BY <1>2, <1>3, <1>4, <1>5, <1>6, <1>7, <1>8, <1>9, <1>10, <1>11, <1>12, <1>13, <1>14, <1>15, <1>16, CellsAssumption
  DEF Next

(* The state keeps its types: no sum, no amount shown, carried or given to *)
(* a budget is anything but a number, however many expenses there are      *)
(* (ExpenseRepository, BudgetRepository).                                  *)
THEOREM TypeCorrect == Spec => []TypeOK
<1>1. IInv /\ NumbersInv => TypeOK
  <2> SUFFICES ASSUME IInv, NumbersInv PROVE TypeOK
    OBVIOUS
  <2>1. \A b \in Budgets : spent[b] \in Nat
    BY SpentNat
  <2>2. spent \in [Budgets -> Nat]
    BY <2>1 DEF IInv, ShapeInv
  <2>3. ASSUME NEW x \in Requests PROVE req[x] \in RequestStates
    BY DEF IInv, ShapeInv, Shape, NumbersInv, Numbers, RequestStates
  <2>4. req \in [Requests -> RequestStates]
    BY <2>3 DEF IInv, ShapeInv
  <2>5. DOMAIN held = Cells
    BY DEF IInv, ShapeInv
  <2> QED  BY <2>2, <2>4, <2>5 DEF IInv, ShapeInv, NumbersInv, TypeOK
<1> QED  BY <1>1, InitIInv, NextIInv, InitNumbers, NextNumbers, PTL DEF Spec

-----------------------------------------------------------------------------
(* Repair *)

LEMMA StageKept ==
  ASSUME IInv, NEW x \in Requests, NEW C, Follows(x, C)
  PROVE  req'[x].stage = req[x].stage
BY DEF IInv, ShapeInv, Shape, Follows

LEMMA FailIsNotSuccess ==
  ASSUME IInv, NEW r \in Requests, Fail(r)
  PROVE  req'[r] # Idle(FALSE)
<1>1. req'[r] = Idle(TRUE)
  BY StepFacts DEF Fail
<1> QED  BY <1>1 DEF Idle

(* A request that reports success in this step ran its last step: it found *)
(* no budget, or it committed the sum, or it set a budget.                 *)
LEMMA Success ==
  ASSUME IInv, [Next]_vars, NEW r \in Requests,
         req[r].stage # "idle", req'[r] = Idle(FALSE)
  PROVE  FindBudget(r) \/ Commit(r) \/ SetBudget(r)
<1>1. req'[r].stage = "idle"
  BY DEF Idle
<1>2. ASSUME NEW s \in Requests, NEW new, NEW C, Step(s, new, C) PROVE r = s
  <2>1. ASSUME r # s PROVE FALSE
    <3>1. Follows(r, C)
      BY <1>2, <2>1, StepFacts
    <3> QED  BY <1>1, <3>1, StageKept
  <2> QED  BY <2>1
<1>3. ASSUME NEW s \in Requests, Step(s, Idle(TRUE), {}) PROVE FALSE
  <2>1. r = s
    BY <1>2, <1>3
  <2> QED  BY <1>3, <2>1, FailIsNotSuccess DEF Fail
<1>4. ASSUME NEW s \in Requests, NEW new, NEW C, Step(s, new, C), new.stage # "idle" PROVE FALSE
  <2>1. r = s /\ req'[s] = new
    BY <1>2, <1>4, StepFacts
  <2> QED  BY <1>1, <1>4, <2>1
<1>5. ASSUME NEW C, Disturb(C) PROVE FALSE
  <2>1. Follows(r, C)
    BY <1>5 DEF Disturb, Follows
  <2> QED  BY <1>1, <2>1, StageKept
<1>6. \A x \in Requests : Shape(req[x])
  BY DEF IInv, ShapeInv
<1>7. ASSUME NEW s \in Requests, NEW e \in Expenses, DeleteLookup(s, e) PROVE FALSE
  <2>1. CASE Step(s, [Start("delete", "found", expense[e].cell) EXCEPT !.expense = e], {})
    <3>1. [Start("delete", "found", expense[e].cell) EXCEPT !.expense = e].stage = "found"
      BY DEF Start, Idle
    <3> QED  BY <1>4, <2>1, <3>1
  <2> QED  BY <1>3, <1>7, <2>1 DEF DeleteLookup, Fail
<1>8. ASSUME NEW s \in Requests, NEW e \in Expenses, NEW c \in Cells, NEW a \in Amounts,
             CreateExpense(s, e, c, a)
      PROVE  FALSE
  <2>1. [Start("create", "added", c) EXCEPT !.expense = e, !.alone = TRUE].stage = "added"
    BY DEF Start, Idle
  <2> QED  BY <1>4, <1>8, <2>1 DEF CreateExpense
<1>9. ASSUME NEW s \in Requests, DeleteExpense(s) PROVE FALSE
  <2>1. [Start("delete", "written", req[s].cell) EXCEPT !.alone = TRUE].stage = "written"
    BY DEF Start, Idle
  <2> QED  BY <1>3, <1>4, <1>9, <2>1 DEF DeleteExpense, Fail
<1>10. ASSUME NEW s \in Requests, SumExpenses(s) PROVE FALSE
  <2> DEFINE new == [req[s] EXCEPT !.sum = Total(req[s].cell),
                       !.stage = IF req[s].kind = "create" THEN "summed" ELSE "checked"]
  <2>1. new.stage # "idle" /\ Step(s, new, {})
    BY <1>6, <1>10 DEF Shape, SumExpenses
  <2> QED  BY <1>4, <2>1
<1>11. ASSUME NEW s \in Requests, CheckAlert(s) PROVE FALSE
  <2> DEFINE raise == NearLimit(s) /\ unread[req[s].budget] = 0
             new == [req[s] EXCEPT !.stage = "checked", !.raise = raise,
                                   !.limit = IF raise THEN @ ELSE 0]
  <2>1. new.stage # "idle"
    BY <1>6 DEF Shape
  <2>2. Step(s, new, {}) \/ Step(s, Idle(TRUE), {})
    BY <1>11 DEF CheckAlert, Fail
  <2> QED  BY <1>3, <1>4, <2>1, <2>2
<1>12. ASSUME NEW s \in Requests, NEW c \in Budgeted, NEW l \in Limits, SetBudgetLookup(s, c, l)
       PROVE  FALSE
  <2>1. ASSUME NEW stage, stage # "idle" PROVE [Start("budget", stage, c) EXCEPT !.limit = l].stage # "idle"
    BY <2>1 DEF Start, Idle
  <2>2. ASSUME NEW b \in Budgets
        PROVE  [[Start("budget", "edit", c) EXCEPT !.limit = l]
                  EXCEPT !.budget = b, !.seen = limit[b]].stage # "idle"
    BY DEF Start, Idle
  <2>3. CASE Step(s, [Start("budget", "insert", c) EXCEPT !.limit = l], {})
    BY <1>4, <2>1, <2>3
  <2>4. ASSUME NEW b \in Budgets,
               Step(s, [[Start("budget", "edit", c) EXCEPT !.limit = l]
                          EXCEPT !.budget = b, !.seen = limit[b]], {})
        PROVE  FALSE
    BY <1>4, <2>2, <2>4
  <2> QED  BY <1>3, <1>12, <2>3, <2>4 DEF SetBudgetLookup, Fail
<1>13. ASSUME NEW s \in Requests, FindBudget(s) \/ Commit(s) \/ SetBudget(s)
       PROVE  r = s
  <2>1. ASSUME FindBudget(s) PROVE r = s
    BY <1>2, <2>1 DEF FindBudget, Succeed, Fail
  <2>2. ASSUME Commit(s) PROVE r = s
    BY <1>2, <2>2 DEF Commit, Succeed, Fail
  <2>3. ASSUME SetBudget(s) PROVE r = s
    BY <1>2, <2>3 DEF SetBudget, Succeed, Fail
  <2> QED  BY <1>13, <2>1, <2>2, <2>3
<1>14. ASSUME UNCHANGED req PROVE FALSE
  BY <1>1, <1>14
<1>15. ASSUME \E e \in Expenses, c \in Cells, a \in Amounts : UpdateExpense(e, c, a) PROVE FALSE
  BY <1>5, <1>15 DEF UpdateExpense
<1>16. ASSUME \E b \in Budgets : \/ DeleteBudget(b) \/ ReadAlert(b)
                                 \/ \E l \in Limits : EditLimit(b, l)
                                 \/ \E a \in Typed : EditSpent(b, a)
       PROVE  FALSE
  BY <1>5, <1>14, <1>16 DEF DeleteBudget, ReadAlert, EditLimit, EditSpent
<1>17. ASSUME NEW s \in Requests, Interrupt(s) PROVE FALSE
  BY <1>3, <1>17 DEF Interrupt, Fail
<1>18. ASSUME UNCHANGED vars PROVE FALSE
  BY <1>14, <1>18 DEF vars
<1>19. ASSUME NEW s \in Requests, RefreshExpense(s) PROVE FALSE
  <2> DEFINE new == [req[s] EXCEPT !.stage = "written", !.cell = expense[req[s].expense].cell]
  <2>1. new.stage # "idle"
    BY <1>6 DEF Shape
  <2>2. Step(s, new, {}) \/ Step(s, Idle(TRUE), {})
    BY <1>19 DEF RefreshExpense, Fail
  <2> QED  BY <1>3, <1>4, <2>1, <2>2
<1> QED  BY <1>7, <1>8, <1>9, <1>10, <1>11, <1>12, <1>13, <1>15, <1>16, <1>17, <1>18, <1>19 DEF Next

(* A create or a delete that nobody disturbed in its category and month    *)
(* leaves the cached amount of every budget there equal to the sum of the  *)
(* expenses, whatever the cache held before.                               *)
THEOREM RepairIsExact == Spec => RepairAlone
<1>1. ASSUME IInv, [Next]_vars, NEW r \in Requests, NEW c \in Cells,
             req[r].kind \in {"create", "delete"}, req[r].cell = c, req[r].alone,
             req[r].stage # "idle", req'[r] = Idle(FALSE), NEW b \in BudgetsOf(c)
      PROVE  spent'[b] = Total(c)'
  <2>1. FindBudget(r) \/ Commit(r) \/ SetBudget(r)
    BY <1>1, Success
  <2>2. RequestInv(req[r]) /\ ~Fail(r)
    BY <1>1, FailIsNotSuccess DEF IInv
  <2>3. ~SetBudget(r)
    BY <1>1, <2>2 DEF SetBudget, RequestInv
  <2>4. ~FindBudget(r)
    <3>1. ASSUME NEW d \in Budgets,
                 Step(r, [req[r] EXCEPT !.stage = "loaded", !.budget = d, !.seen = spent[d],
                            !.limit = IF req[r].kind = "create" THEN limit[d] ELSE 0], {})
          PROVE  FALSE
      <4> DEFINE new == [req[r] EXCEPT !.stage = "loaded", !.budget = d, !.seen = spent[d],
                           !.limit = IF req[r].kind = "create" THEN limit[d] ELSE 0]
      <4>1. req'[r] = new
        BY <1>1, <3>1, StepFacts
      <4>2. new.stage = "loaded"
        BY <1>1 DEF IInv, ShapeInv, Shape
      <4>3. req'[r].stage = "idle"
        BY <1>1 DEF Idle
      <4> QED  BY <4>1, <4>2, <4>3
    <3> QED  BY <1>1, <2>2, <3>1 DEF FindBudget
  <2>5. /\ req[r].stage = "checked" /\ RowsTake(r) /\ UNCHANGED expense
        /\ spent' = IF Changed(r) THEN [spent EXCEPT ![req[r].budget] = req[r].sum] ELSE spent
    BY <2>1, <2>2, <2>3, <2>4 DEF Commit
  <2>6. /\ BudgetsOf(c) = {req[r].budget} /\ spent[req[r].budget] = req[r].seen
        /\ req[r].sum = Total(c)
    BY <1>1, <2>2, <2>5 DEF RequestInv, Computing
  <2>7. spent'[b] = req[r].sum
    <3>1. spent = [x \in Budgets |-> spent[x]] /\ b \in Budgets
      BY <1>1 DEF IInv, ShapeInv, BudgetsOf
    <3> QED  BY <1>1, <2>5, <2>6, <3>1 DEF Changed
  <2>8. Total(c)' = Total(c)
    BY <2>5, SameTotals
  <2> QED  BY <2>6, <2>7, <2>8
<1>2. IInv /\ [Next]_vars =>
        [\A r \in Requests, c \in Cells :
           /\ req[r].kind \in {"create", "delete"}
           /\ req[r].cell = c
           /\ req[r].alone
           /\ req[r].stage # "idle"
           /\ req'[r] = Idle(FALSE)
           => \A b \in BudgetsOf(c) : spent'[b] = Total(c)']_vars
  BY <1>1
<1> QED  BY <1>2, Inductive, PTL DEF Spec, RepairAlone
=============================================================================
