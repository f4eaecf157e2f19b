----------------------------- MODULE SavingsProofs -----------------------------
(***************************************************************************)
(* Proofs about goals and notifications, for any number of goals, of rows  *)
(* and of overlapping requests, any amounts, targets, dates and page size: *)
(* a completed goal had earned it, an announced milestone had been         *)
(* reached, waiting is no progress, and a client that pages misses         *)
(* nothing.                                                                *)
(*                                                                         *)
(* A request on a goal decides on the row it has loaded, which may be      *)
(* older than the one it writes.  What stays true of both is their place   *)
(* between the least target and the highest amount that the goal ever had; *)
(* a goal that was deleted never comes back, so its history is not begun   *)
(* again.                                                                  *)
(***************************************************************************)
EXTENDS MCSavings, FiniteSums, Sequences

Columns == [status : Statuses \cup {"new", "deleted"}, target : Nat, amount : Nat,
            due : Nat, born : Nat]
Histories == [low : Nat, top : Nat, chosen : BOOLEAN]

(* The types, as far as the other parts need them. *)
ShapeInv ==
  /\ goals \in [Goals -> Columns]
  /\ past \in [Goals -> Histories]
  /\ notices \in [Goals -> [Kinds -> Nat]]
  /\ day \in Nat
  /\ DOMAIN req = Requests

(* A row lies between the least target and the highest amount of its goal. *)
Within(row, g) == past[g].low <= row.target /\ row.amount <= past[g].top

RowsInv == \A g \in Goals : Exists(g) => Within(goals[g], g)

(* A copy that a request works on lies there as well, however old it is.   *)
CopyOf(x) ==
  /\ x.goal \in Goals /\ goals[x.goal].status # "new"
  /\ x.row \in Columns /\ Within(x.row, x.goal)

CopiesInv == \A r \in Requests : req[r].at = "loaded" => CopyOf(req[r])

(* A milestone between its check and its notice. *)
Reached(g, m) == past[g].top * 100 >= m * past[g].low

Announcing(x) ==
  /\ x.goal \in Goals /\ goals[x.goal].status # "new"
  /\ x.milestone \in Milestones \cup {0}
  /\ x.milestone # 0 => Reached(x.goal, x.milestone)

AnnouncingInv == \A r \in Requests : req[r].at = "milestone" => Announcing(req[r])

(* No milestone was announced of a goal before it was set up. *)
NewIsSilent == \A g \in Goals, m \in Milestones : goals[g].status = "new" => notices[g][m] = 0

IInv ==
  /\ ShapeInv /\ RowsInv /\ CopiesInv /\ AnnouncingInv /\ NewIsSilent
  /\ CompletionEarned /\ AnnouncedWasReached

-----------------------------------------------------------------------------
(* What a step may do to the goals that are set up: none becomes new, and  *)
(* their histories only widen.                                             *)
Onward ==
  \A g \in Goals : goals[g].status # "new" =>
    /\ goals'[g].status # "new"
    /\ past'[g].low <= past[g].low /\ past[g].top <= past'[g].top

LEMMA Extremes ==
  ASSUME NEW a \in Nat, NEW b \in Nat
  PROVE  /\ Min({a, b}) \in Nat /\ Min({a, b}) <= a /\ Min({a, b}) <= b
         /\ Max({a, b}) \in Nat /\ a <= Max({a, b}) /\ b <= Max({a, b})
  <1>1. \E x \in {a, b} : \A y \in {a, b} : x =< y
    <2>1. CASE a <= b
      BY <2>1
    <2>2. CASE b <= a
      BY <2>2
    <2> QED BY <2>1, <2>2
  <1>2. \E x \in {a, b} : \A y \in {a, b} : x >= y
    <2>1. CASE a <= b
      BY <2>1
    <2>2. CASE b <= a
      BY <2>2
    <2> QED BY <2>1, <2>2
  <1>3. Min({a, b}) \in {a, b} /\ \A y \in {a, b} : Min({a, b}) =< y
    BY <1>1 DEF Min
  <1>4. Max({a, b}) \in {a, b} /\ \A y \in {a, b} : Max({a, b}) >= y
    BY <1>2 DEF Max
  <1> QED BY <1>3, <1>4

(* A milestone that was reached stays so while the history widens. *)
LEMMA ReachedStays ==
  ASSUME ShapeInv, ShapeInv', NEW g \in Goals, NEW m \in Milestones, Reached(g, m),
         past'[g].low <= past[g].low, past[g].top <= past'[g].top
  PROVE  Reached(g, m)'
  <1>1. /\ past[g].low \in Nat /\ past[g].top \in Nat
        /\ past'[g].low \in Nat /\ past'[g].top \in Nat
    BY DEF ShapeInv, Histories
  <1>2. past[g].top * 100 <= past'[g].top * 100
    BY <1>1
  <1>3. m * past'[g].low <= m * past[g].low
    <2>1. m = 25 \/ m = 50 \/ m = 75 \/ m = 100
      BY DEF Milestones
    <2> QED BY <1>1, <2>1
  <1>4. m \in Nat
    BY DEF Milestones
  <1>5. past[g].top * 100 >= m * past[g].low
    BY DEF Reached
  <1>6. past'[g].top * 100 \in Nat /\ m * past'[g].low \in Nat /\ m * past[g].low \in Nat
        /\ past[g].top * 100 \in Nat
    <2>1. m = 25 \/ m = 50 \/ m = 75 \/ m = 100
      BY DEF Milestones
    <2> QED BY <1>1, <2>1
  <1>7. past'[g].top * 100 >= m * past'[g].low
    BY <1>2, <1>3, <1>5, <1>6
  <1> QED BY <1>7 DEF Reached

(* What a request carries keeps its meaning while others step. *)
LEMMA CarriedStays ==
  ASSUME IInv, ShapeInv', Onward, NEW r \in Requests, req'[r] = req[r]
  PROVE  /\ req'[r].at = "loaded" => CopyOf(req[r])'
         /\ req'[r].at = "milestone" => Announcing(req[r])'
  <1>1. ASSUME req[r].at = "loaded" PROVE CopyOf(req[r])'
    <2>1. CopyOf(req[r])
      BY <1>1 DEF IInv, CopiesInv
    <2> DEFINE g == req[r].goal
    <2>2. g \in Goals /\ goals[g].status # "new" /\ req[r].row \in Columns /\ Within(req[r].row, g)
      BY <2>1 DEF CopyOf
    <2>3. goals'[g].status # "new" /\ past'[g].low <= past[g].low /\ past[g].top <= past'[g].top
      BY <2>2 DEF Onward
    <2>4. /\ past[g] \in Histories /\ past'[g] \in Histories
      BY <2>2 DEF IInv, ShapeInv
    <2>5. past'[g].low <= req[r].row.target /\ req[r].row.amount <= past'[g].top
      BY <2>2, <2>3, <2>4 DEF Within, Columns, Histories
    <2> QED BY <2>2, <2>3, <2>5 DEF CopyOf, Within
  <1>2. ASSUME req[r].at = "milestone" PROVE Announcing(req[r])'
    <2>1. Announcing(req[r])
      BY <1>2 DEF IInv, AnnouncingInv
    <2> DEFINE g == req[r].goal
    <2>2. g \in Goals /\ goals[g].status # "new"
      BY <2>1 DEF Announcing
    <2>3. goals'[g].status # "new" /\ past'[g].low <= past[g].low /\ past[g].top <= past'[g].top
      BY <2>2 DEF Onward
    <2>4. ASSUME req[r].milestone # 0 PROVE Reached(g, req[r].milestone)'
      <3>1. req[r].milestone \in Milestones /\ Reached(g, req[r].milestone)
        BY <2>1, <2>4 DEF Announcing
      <3>2. ShapeInv
        BY DEF IInv
      <3>3. PICK h \in Goals, m \in Milestones : h = g /\ m = req[r].milestone
        BY <2>2, <3>1
      <3>4. Reached(h, m) /\ past'[h].low <= past[h].low /\ past[h].top <= past'[h].top
        BY <2>3, <3>1, <3>3
      <3>5. Reached(h, m)'
        BY <3>2, <3>4, ReachedStays
      <3>6. h = req'[r].goal /\ m = req'[r].milestone
        BY <3>3
      <3> QED BY <3>5, <3>6 DEF Reached
    <2> QED BY <1>2, <2>1, <2>2, <2>3, <2>4 DEF Announcing
  <1> QED BY <1>1, <1>2

(* Remember widens the history of one goal around its row. *)
LEMMA RememberWidens ==
  ASSUME ShapeInv, NEW g \in Goals, NEW row, row.target \in Nat, row.amount \in Nat,
         NEW chosen \in BOOLEAN, Remember(g, row, chosen)
  PROVE  /\ past' \in [Goals -> Histories]
         /\ \A h \in Goals \ {g} : past'[h] = past[h]
         /\ past'[g].low <= past[g].low /\ past'[g].low <= row.target
         /\ past[g].top <= past'[g].top /\ row.amount <= past'[g].top
         /\ past'[g].chosen = IF row.status # goals[g].status THEN chosen ELSE past[g].chosen
  <1> DEFINE new == [low |-> Min({past[g].low, row.target}), top |-> Max({past[g].top, row.amount}),
                     chosen |-> IF row.status # goals[g].status THEN chosen ELSE past[g].chosen]
  <1>1. past \in [Goals -> Histories] /\ past[g].low \in Nat /\ past[g].top \in Nat /\ past[g].chosen \in BOOLEAN
    BY DEF ShapeInv, Histories
  <1>2. /\ new.low \in Nat /\ new.low <= past[g].low /\ new.low <= row.target
        /\ new.top \in Nat /\ past[g].top <= new.top /\ row.amount <= new.top
    BY <1>1, Extremes
  <1>3. new.chosen = (IF row.status # goals[g].status THEN chosen ELSE past[g].chosen)
    OBVIOUS
  <1>4. new.chosen \in BOOLEAN
    BY <1>1
  <1>5. new \in Histories
    BY <1>2, <1>4 DEF Histories
  <1>6. past' = [past EXCEPT ![g] = new]
    BY DEF Remember
  <1> HIDE DEF new
  <1> QED BY <1>1, <1>2, <1>3, <1>5, <1>6

(* A step that leaves rows and histories alone, and hands a request that   *)
(* is not a copy, keeps the row parts.                                     *)
LEMMA RowsStay ==
  ASSUME IInv, UNCHANGED <<goals, past>>
  PROVE  RowsInv' /\ CompletionEarned' /\ Onward
  <1>1. ShapeInv /\ RowsInv /\ CompletionEarned
    BY DEF IInv
  <1>2. RowsInv'
    BY <1>1 DEF RowsInv, Within, Exists
  <1>3. CompletionEarned'
    BY <1>1 DEF CompletionEarned
  <1>4. Onward
    BY <1>1 DEF Onward, ShapeInv, Histories
  <1> QED BY <1>2, <1>3, <1>4

(* The request that stepped is idle again, or carries what `Carried' says. *)
LEMMA RequestsStay ==
  ASSUME IInv, ShapeInv', Onward, NEW r \in Requests, NEW next, Continue(r, next),
         req'[r].at = "loaded" => CopyOf(req[r])',
         req'[r].at = "milestone" => Announcing(req[r])'
  PROVE  CopiesInv' /\ AnnouncingInv'
  <1>1. \A q \in Requests \ {r} : req'[q] = req[q]
    BY DEF Continue, IInv, ShapeInv
  <1>2. \A q \in Requests : /\ req'[q].at = "loaded" => CopyOf(req[q])'
                            /\ req'[q].at = "milestone" => Announcing(req[q])'
    BY <1>1, CarriedStays
  <1> QED BY <1>2 DEF CopiesInv, AnnouncingInv

(* A step that creates no notice keeps the announcements. *)
LEMMA AnnouncedStays ==
  ASSUME IInv, ShapeInv', Onward, UNCHANGED notices,
         \A g \in Goals : goals'[g].status = "new" => goals[g].status = "new"
  PROVE  AnnouncedWasReached' /\ NewIsSilent'
  <1>1. ShapeInv /\ AnnouncedWasReached /\ NewIsSilent
    BY DEF IInv
  <1>2. ASSUME NEW g \in Goals, NEW m \in Milestones, notices'[g][m] > 0
        PROVE  Reached(g, m)'
    <2>1. notices[g][m] > 0 /\ Reached(g, m)
      BY <1>1, <1>2 DEF AnnouncedWasReached, Reached
    <2>2. goals[g].status # "new"
      BY <1>1, <2>1 DEF NewIsSilent
    <2> QED BY <1>1, <2>1, <2>2, ReachedStays DEF Onward
  <1>3. AnnouncedWasReached'
    BY <1>2 DEF AnnouncedWasReached, Reached
  <1>4. NewIsSilent'
    BY <1>1 DEF NewIsSilent
  <1> QED BY <1>3, <1>4

-----------------------------------------------------------------------------
(* The steps *)

LEMMA InitHolds ==
  ASSUME GoalAssumption, Init PROVE IInv
  <1>1. ShapeInv
    BY DEF Init, ShapeInv, NoGoal, Columns, Histories
  <1>2. \A g \in Goals : goals[g].status = "new"
    BY DEF Init, NoGoal
  <1>3. \A r \in Requests : req[r].at = "idle"
    BY DEF Init, Idle
  <1>4. \A g \in Goals, m \in Milestones : notices[g][m] = 0
    BY DEF Init, Kinds
  <1>5. RowsInv /\ CompletionEarned
    BY <1>2 DEF RowsInv, CompletionEarned, Exists, Statuses
  <1>6. CopiesInv /\ AnnouncingInv
    BY <1>3 DEF CopiesInv, AnnouncingInv
  <1>7. NewIsSilent /\ AnnouncedWasReached
    BY <1>4 DEF NewIsSilent, AnnouncedWasReached
  <1> QED BY <1>1, <1>5, <1>6, <1>7 DEF IInv

LEMMA CreateGoalHolds ==
  ASSUME GoalAssumption, IInv, NEW r \in Requests, NEW g \in Goals, NEW t \in Targets, NEW due \in Dues,
         CreateGoal(r, g, t, due)
  PROVE  IInv'
  <1> DEFINE row == [status |-> "active", target |-> t, amount |-> 0, due |-> due, born |-> day]
             begun == [low |-> t, top |-> 0, chosen |-> FALSE]
  <1>1. ShapeInv /\ RowsInv /\ CompletionEarned /\ AnnouncedWasReached /\ NewIsSilent
    BY DEF IInv
  <1>2. row \in Columns /\ begun \in Histories
    BY <1>1 DEF GoalAssumption, ShapeInv, Columns, Histories, Statuses
  <1>3. goals' = [goals EXCEPT ![g] = row] /\ past' = [past EXCEPT ![g] = begun] /\ goals[g].status = "new"
        /\ UNCHANGED <<req, day, notices>>
    BY DEF CreateGoal
  <1>4. ShapeInv'
    BY <1>1, <1>2, <1>3 DEF ShapeInv
  <1>5. goals'[g] = row /\ past'[g] = begun
        /\ \A h \in Goals \ {g} : goals'[h] = goals[h] /\ past'[h] = past[h]
    BY <1>1, <1>3 DEF ShapeInv
  <1>6. Onward
    BY <1>1, <1>3, <1>5 DEF Onward, ShapeInv, Histories
  <1>7. RowsInv'
    <2>1. Within(goals[g], g)'
      BY <1>2, <1>5 DEF Within, Columns, GoalAssumption
    <2>2. \A h \in Goals \ {g} : Exists(h)' => Within(goals[h], h)'
      BY <1>1, <1>5 DEF RowsInv, Within, Exists
    <2> QED BY <2>1, <2>2 DEF RowsInv
  <1>8. CompletionEarned'
    BY <1>1, <1>5 DEF CompletionEarned
  <1>9. CopiesInv' /\ AnnouncingInv'
    BY <1>3, <1>4, <1>6, CarriedStays DEF CopiesInv, AnnouncingInv
  <1>10. \A h \in Goals : goals'[h].status = "new" => goals[h].status = "new"
    BY <1>5
  <1>11. AnnouncedWasReached' /\ NewIsSilent'
    BY <1>3, <1>4, <1>6, <1>10, AnnouncedStays
  <1> QED BY <1>4, <1>7, <1>8, <1>9, <1>11 DEF IInv

LEMMA LoadGoalHolds ==
  ASSUME IInv, NEW r \in Requests, NEW g \in Goals, LoadGoal(r, g)
  PROVE  IInv'
  <1> DEFINE next == [at |-> "loaded", goal |-> g, row |-> goals[g]]
  <1>1. Continue(r, next) /\ Exists(g) /\ UNCHANGED <<goals, day, notices, past>>
    BY DEF LoadGoal
  <1>2. ShapeInv'
    BY <1>1 DEF IInv, ShapeInv, Continue
  <1>3. RowsInv' /\ CompletionEarned' /\ Onward
    BY <1>1, RowsStay
  <1>4. AnnouncedWasReached' /\ NewIsSilent'
    BY <1>1, <1>2, <1>3, AnnouncedStays
  <1>5. req'[r] = next
    BY <1>1 DEF Continue, IInv, ShapeInv
  <1>6. CopyOf(req[r])'
    <2>1. goals[g] \in Columns /\ Within(goals[g], g) /\ goals[g].status # "new"
      BY <1>1 DEF IInv, ShapeInv, RowsInv, Exists, Statuses
    <2> QED BY <1>1, <1>5, <2>1 DEF CopyOf, Within
  <1>7. CopiesInv' /\ AnnouncingInv'
    <2>1. req'[r].at # "milestone"
      BY <1>5
    <2> HIDE DEF next
    <2> QED BY <1>1, <1>2, <1>3, <1>6, <2>1, RequestsStay
  <1> QED BY <1>2, <1>3, <1>4, <1>7 DEF IInv

(* A row written over the present one from a copy: it may be any edit; one *)
(* that is not the client's choice only completes a goal that has reached  *)
(* the target of the copy.                                                 *)
LEMMA CommitRowHolds ==
  ASSUME IInv, NEW r \in Requests, req[r].at = "loaded", NEW new \in Columns, NEW chosen \in BOOLEAN,
         new.status = req[r].row.status \/ new.status \in Statuses,
         ~chosen => /\ new.target = req[r].row.target
                    /\ \/ new.status = req[r].row.status
                       \/ new.status = "completed" /\ new.amount >= new.target,
         CommitRow(r, new, chosen)
  PROVE  IInv'
  <1> DEFINE g == req[r].goal
             old == req[r].row
             row == Written(goals[g], old, new)
  <1>1. g \in Goals /\ goals[g].status # "new" /\ old \in Columns /\ Within(old, g)
    BY DEF IInv, CopiesInv, CopyOf
  <1>2. ShapeInv /\ RowsInv /\ CompletionEarned
    BY DEF IInv
  <1>3. Continue(r, Idle) /\ UNCHANGED <<day, notices>>
    BY DEF CommitRow
  <1>4. req'[r] = Idle /\ DOMAIN req' = Requests
    BY <1>2, <1>3 DEF Continue, ShapeInv
  <1>5. req'[r].at # "loaded" /\ req'[r].at # "milestone"
    BY <1>4 DEF Idle
  <1>6. CASE ~Exists(g)
    <2>1. UNCHANGED <<goals, past>>
      BY <1>6 DEF CommitRow
    <2>2. ShapeInv'
      BY <1>2, <1>3, <1>4, <2>1 DEF ShapeInv
    <2>3. RowsInv' /\ CompletionEarned' /\ Onward
      BY <2>1, RowsStay
    <2>4. AnnouncedWasReached' /\ NewIsSilent'
      BY <1>3, <2>1, <2>2, <2>3, AnnouncedStays
    <2>5. CopiesInv' /\ AnnouncingInv'
      BY <1>3, <1>5, <2>2, <2>3, RequestsStay
    <2> QED BY <2>2, <2>3, <2>4, <2>5 DEF IInv
  <1>7. CASE Exists(g)
    <2>1. goals' = [goals EXCEPT ![g] = row] /\ Remember(g, row, chosen)
      BY <1>7 DEF CommitRow
    <2>2. goals[g] \in Columns /\ Within(goals[g], g)
      BY <1>1, <1>2, <1>7 DEF ShapeInv, RowsInv
    <2>3. DOMAIN goals[g] = {"status", "target", "amount", "due", "born"}
      BY <2>2 DEF Columns
    <2>4. /\ row.status = IF new.status # old.status THEN new.status ELSE goals[g].status
          /\ row.target = IF new.target # old.target THEN new.target ELSE goals[g].target
          /\ row.amount = IF new.amount # old.amount THEN new.amount ELSE goals[g].amount
          /\ row.due = IF new.due # old.due THEN new.due ELSE goals[g].due
          /\ row.born = IF new.born # old.born THEN new.born ELSE goals[g].born
          /\ row = [status |-> row.status, target |-> row.target, amount |-> row.amount,
                    due |-> row.due, born |-> row.born]
      BY <2>3 DEF Written
    <2>5. row \in Columns /\ row.status # "new"
      <3>1. /\ row.status \in Statuses \cup {"new", "deleted"} /\ row.status # "new"
            /\ row.target \in Nat /\ row.amount \in Nat /\ row.due \in Nat /\ row.born \in Nat
        BY <1>1, <2>2, <2>4 DEF Columns, Statuses
      <3> QED BY <2>4, <3>1 DEF Columns
    <2>6. row.target \in Nat /\ row.amount \in Nat
      BY <2>5 DEF Columns
    <2>7. /\ past' \in [Goals -> Histories]
          /\ \A h \in Goals \ {g} : past'[h] = past[h]
          /\ past'[g].low <= past[g].low /\ past'[g].low <= row.target
          /\ past[g].top <= past'[g].top /\ row.amount <= past'[g].top
          /\ past'[g].chosen = IF row.status # goals[g].status THEN chosen ELSE past[g].chosen
      <3> HIDE DEF row, g
      <3> QED BY <1>1, <1>2, <2>1, <2>6, RememberWidens
    <2>8. goals'[g] = row /\ \A h \in Goals \ {g} : goals'[h] = goals[h]
      BY <1>1, <1>2, <2>1 DEF ShapeInv
    <2>9. ShapeInv'
      BY <1>2, <1>3, <1>4, <2>1, <2>5, <2>7 DEF ShapeInv
    <2>10. Onward
      BY <1>2, <2>5, <2>7, <2>8, SMTT(30) DEF Onward, ShapeInv, Histories
    <2>11. \A h \in Goals : goals'[h].status = "new" => goals[h].status = "new"
      BY <2>5, <2>8
    <2>12. AnnouncedWasReached' /\ NewIsSilent'
      BY <1>3, <2>9, <2>10, <2>11, AnnouncedStays
    <2>13. CopiesInv' /\ AnnouncingInv'
      BY <1>3, <1>5, <2>9, <2>10, RequestsStay
    <2>14. RowsInv'
      <3>1. past'[g].low <= goals'[g].target /\ goals'[g].amount <= past'[g].top
        BY <2>7, <2>8
      <3>2. \A h \in Goals \ {g} : Exists(h)' => past'[h].low <= goals'[h].target /\ goals'[h].amount <= past'[h].top
        BY <1>2, <2>7, <2>8 DEF RowsInv, Within, Exists
      <3> HIDE DEF g
      <3> QED BY <3>1, <3>2 DEF RowsInv, Within
    <2>15. CompletionEarned'
      <3>1. ASSUME row.status = "completed", ~past'[g].chosen PROVE past'[g].top >= past'[g].low
        <4>1. /\ past[g].low \in Nat /\ past[g].top \in Nat
              /\ past'[g].low \in Nat /\ past'[g].top \in Nat
          BY <1>1, <1>2, <2>7 DEF ShapeInv, Histories
        <4>2. CASE goals[g].status = "completed"
          <5>1. past[g].top >= past[g].low
            BY <1>1, <1>2, <2>7, <3>1, <4>2 DEF CompletionEarned
          <5> QED BY <2>7, <4>1, <5>1
        <4>3. CASE goals[g].status # "completed"
          <5>1. ~chosen /\ new.status # old.status
            BY <2>4, <2>7, <3>1, <4>3
          <5>2. new.target = old.target /\ new.amount >= old.target
            BY <5>1
          <5>3. past[g].low <= old.target /\ old.amount <= past[g].top
            BY <1>1 DEF Within
          <5>4. old.target \in Nat /\ old.amount \in Nat /\ new.amount \in Nat
            BY <1>1 DEF Columns
          <5>5. CASE new.amount # old.amount
            BY <2>4, <2>7, <4>1, <5>2, <5>3, <5>4, <5>5
          <5>6. CASE new.amount = old.amount
            BY <2>7, <4>1, <5>2, <5>3, <5>4, <5>6
          <5> QED BY <5>5, <5>6
        <4> QED BY <4>2, <4>3
      <3>2. \A h \in Goals \ {g} :
              (goals'[h].status = "completed" /\ ~past'[h].chosen) => past'[h].top >= past'[h].low
        BY <1>2, <2>7, <2>8 DEF CompletionEarned
      <3> QED BY <2>8, <3>1, <3>2 DEF CompletionEarned
    <2> QED BY <2>9, <2>12, <2>13, <2>14, <2>15 DEF IInv
  <1> QED BY <1>6, <1>7

LEMMA CommitEditHolds ==
  ASSUME GoalAssumption, IInv, NEW r \in Requests, req[r].at = "loaded",
         NEW edit \in Edits(req[r].row), CommitEdit(r, edit)
  PROVE  IInv'
  <1>1. req[r].row \in Columns
    BY DEF IInv, CopiesInv, CopyOf
  <1>2. edit \in Columns /\ (edit.status = req[r].row.status \/ edit.status \in Statuses)
    BY <1>1 DEF Edits, Columns, GoalAssumption
  <1>3. CommitRow(r, edit, TRUE)
    BY DEF CommitEdit
  <1> QED BY <1>2, <1>3, CommitRowHolds

LEMMA CommitProgressHolds ==
  ASSUME GoalAssumption, IInv, NEW r \in Requests, NEW amount \in Amounts, CommitProgress(r, amount)
  PROVE  IInv'
  <1> DEFINE old == req[r].row
             row == [old EXCEPT !.amount = amount]
             new == IF Achieved(old, amount) THEN [row EXCEPT !.status = "completed"] ELSE row
  <1>1. req[r].at = "loaded" /\ CommitRow(r, new, FALSE)
    BY DEF CommitProgress
  <1>2. old \in Columns
    BY <1>1 DEF IInv, CopiesInv, CopyOf
  <1>3. amount \in Nat
    BY DEF GoalAssumption
  <1>4. row \in Columns /\ row.status = old.status /\ row.target = old.target /\ row.amount = amount
    BY <1>2, <1>3 DEF Columns
  <1>5. CASE Achieved(old, amount)
    <2>1. new = [row EXCEPT !.status = "completed"]
      BY <1>5
    <2>2. /\ new \in Columns /\ new.status = "completed" /\ new.status \in Statuses
          /\ new.target = old.target /\ new.amount = amount
      BY <1>4, <2>1 DEF Columns, Statuses
    <2>3. new.amount >= new.target
      BY <1>5, <2>2 DEF Achieved
    <2> HIDE DEF new
    <2> QED BY <1>1, <2>2, <2>3, CommitRowHolds
  <1>6. CASE ~Achieved(old, amount)
    <2>1. new = row
      BY <1>6
    <2>2. new \in Columns /\ new.status = old.status /\ new.target = old.target
      BY <1>4, <2>1
    <2> HIDE DEF new
    <2> QED BY <1>1, <2>2, CommitRowHolds
  <1> QED BY <1>5, <1>6

LEMMA CommitDeleteHolds ==
  ASSUME IInv, NEW r \in Requests, CommitDelete(r)
  PROVE  IInv'
  <1>1. PICK g \in Goals : g = req[r].goal /\ goals[g].status # "new"
    BY DEF CommitDelete, IInv, CopiesInv, CopyOf
  <1>2. /\ goals' = [goals EXCEPT ![g] = NoGoal("deleted")]
        /\ Continue(r, Idle) /\ UNCHANGED <<day, notices, past>>
    BY <1>1 DEF CommitDelete
  <1>3. ShapeInv /\ RowsInv /\ CompletionEarned
    BY DEF IInv
  <1>4. goals'[g].status = "deleted" /\ \A h \in Goals \ {g} : goals'[h] = goals[h]
    BY <1>2, <1>3 DEF NoGoal, ShapeInv
  <1>5. ShapeInv'
    BY <1>2, <1>3 DEF ShapeInv, NoGoal, Columns, Continue
  <1>6. Onward
    BY <1>2, <1>3, <1>4 DEF Onward, ShapeInv, Histories
  <1>7. RowsInv' /\ CompletionEarned'
    BY <1>2, <1>3, <1>4 DEF RowsInv, CompletionEarned, Within, Exists, Statuses
  <1>8. \A h \in Goals : goals'[h].status = "new" => goals[h].status = "new"
    BY <1>4
  <1>9. AnnouncedWasReached' /\ NewIsSilent'
    BY <1>2, <1>5, <1>6, <1>8, AnnouncedStays
  <1>10. req'[r].at # "loaded" /\ req'[r].at # "milestone"
    BY <1>2, <1>3 DEF Continue, ShapeInv, Idle
  <1>11. CopiesInv' /\ AnnouncingInv'
    BY <1>2, <1>5, <1>6, <1>10, RequestsStay
  <1> QED BY <1>5, <1>7, <1>9, <1>11 DEF IInv

(* A step that changes neither rows nor notices and carries no copy. *)
LEMMA ReadingHolds ==
  ASSUME IInv, NEW r \in Requests, NEW next, Continue(r, next), next.at # "loaded",
         next.at = "milestone" => Announcing(next),
         UNCHANGED <<goals, day, notices, past>>
  PROVE  IInv'
  <1>1. ShapeInv'
    BY DEF IInv, ShapeInv, Continue
  <1>2. RowsInv' /\ CompletionEarned' /\ Onward
    BY RowsStay
  <1>3. AnnouncedWasReached' /\ NewIsSilent'
    BY <1>1, <1>2, AnnouncedStays
  <1>4. req'[r] = next
    BY DEF Continue, IInv, ShapeInv
  <1>5. next.at = "milestone" => Announcing(req[r])'
    BY <1>4 DEF Announcing, Reached
  <1>6. CopiesInv' /\ AnnouncingInv'
    BY <1>1, <1>2, <1>4, <1>5, RequestsStay
  <1> QED BY <1>1, <1>2, <1>3, <1>6 DEF IInv

(* Milestone finds one of the milestones, and the row has reached it. *)
LEMMA MilestoneIsReached ==
  ASSUME NEW row \in Columns, Milestone(row) # 0
  PROVE  Milestone(row) \in Milestones /\ row.amount * 100 >= Milestone(row) * row.target
  <1> DEFINE reached == {m \in Milestones : row.amount * 100 >= m * row.target}
  <1>1. Milestone(row) = Max(reached) /\ reached # {}
    BY DEF Milestone
  <1>2. row.amount * 100 \in Int /\ reached \subseteq {25, 50, 75, 100}
    BY DEF Columns, Milestones
  <1>3. \E x \in reached : \A y \in reached : x >= y
    BY <1>1, <1>2
  <1>4. Max(reached) \in reached
    BY <1>3 DEF Max
  <1> QED BY <1>1, <1>4

LEMMA CheckMilestoneHolds ==
  ASSUME IInv, NEW r \in Requests, NEW g \in Goals, CheckMilestone(r, g)
  PROVE  IInv'
  <1> DEFINE next == [at |-> "milestone", goal |-> g, milestone |-> Milestone(goals[g])]
  <1>1. Continue(r, next) /\ Exists(g) /\ UNCHANGED <<goals, day, notices, past>>
    BY DEF CheckMilestone
  <1>2. goals[g] \in Columns /\ past[g] \in Histories /\ Within(goals[g], g) /\ goals[g].status # "new"
    BY <1>1 DEF IInv, ShapeInv, RowsInv, Exists, Statuses
  <1>3. Milestone(goals[g]) \in Milestones \cup {0}
    BY <1>2, MilestoneIsReached
  <1>4. ASSUME Milestone(goals[g]) # 0 PROVE Reached(g, Milestone(goals[g]))
    <2>1. PICK m \in Milestones : m = Milestone(goals[g])
      BY <1>2, <1>4, MilestoneIsReached
    <2>2. goals[g].amount * 100 >= m * goals[g].target
      BY <1>2, <1>4, <2>1, MilestoneIsReached
    <2>3. /\ goals[g].amount \in Nat /\ goals[g].target \in Nat
          /\ past[g].low \in Nat /\ past[g].top \in Nat
          /\ past[g].low <= goals[g].target /\ goals[g].amount <= past[g].top
      BY <1>2 DEF Columns, Histories, Within
    <2>4. m = 25 \/ m = 50 \/ m = 75 \/ m = 100
      BY DEF Milestones
    <2>5. past[g].top * 100 >= m * past[g].low
      BY <2>2, <2>3, <2>4
    <2> QED BY <2>1, <2>5 DEF Reached
  <1>5. Announcing(next)
    BY <1>2, <1>3, <1>4 DEF Announcing
  <1>6. next.at = "milestone"
    OBVIOUS
  <1> HIDE DEF next
  <1> QED BY <1>1, <1>5, <1>6, ReadingHolds

LEMMA CheckOnTrackHolds ==
  ASSUME IInv, NEW r \in Requests, CheckOnTrack(r)
  PROVE  IInv'
  <1>1. PICK behind : Continue(r, [at |-> "alert", behind |-> behind]) /\ UNCHANGED <<goals, day, notices, past>>
    BY DEF CheckOnTrack
  <1>2. [at |-> "alert", behind |-> behind].at = "alert"
    OBVIOUS
  <1> DEFINE next == [at |-> "alert", behind |-> behind]
  <1>3. Continue(r, next) /\ next.at = "alert"
    BY <1>1
  <1> HIDE DEF next
  <1> QED BY <1>1, <1>3, ReadingHolds

(* A notice changes what was announced and nothing else. *)
LEMMA NoticeHolds ==
  ASSUME IInv, NEW r \in Requests, NEW next, Continue(r, next),
         next.at \notin {"loaded", "milestone"}, UNCHANGED <<goals, day, past>>,
         NEW g \in Goals, NEW k \in Kinds, Notify(g, k),
         k \in Milestones => Reached(g, k) /\ goals[g].status # "new"
  PROVE  IInv'
  <1>1. ShapeInv /\ AnnouncedWasReached /\ NewIsSilent
    BY DEF IInv
  <1>2. /\ notices' \in [Goals -> [Kinds -> Nat]]
        /\ \A h \in Goals, m \in Kinds : (h # g \/ m # k) => notices'[h][m] = notices[h][m]
    BY <1>1 DEF Notify, ShapeInv
  <1>3. ShapeInv'
    BY <1>1, <1>2 DEF ShapeInv, Continue
  <1>4. RowsInv' /\ CompletionEarned' /\ Onward
    BY RowsStay
  <1>5. Milestones \subseteq Kinds
    BY DEF Kinds
  <1>6. AnnouncedWasReached'
    BY <1>1, <1>2, <1>5 DEF AnnouncedWasReached, Reached
  <1>7. NewIsSilent'
    BY <1>1, <1>2, <1>5 DEF NewIsSilent
  <1>8. req'[r] = next
    BY <1>1 DEF Continue, ShapeInv
  <1>9. CopiesInv' /\ AnnouncingInv'
    BY <1>3, <1>4, <1>8, RequestsStay
  <1> QED BY <1>3, <1>4, <1>6, <1>7, <1>9 DEF IInv

LEMMA SendMilestoneHolds ==
  ASSUME IInv, NEW r \in Requests, SendMilestone(r)
  PROVE  IInv'
  <1>1. Continue(r, Idle) /\ UNCHANGED <<goals, day, past>> /\ Idle.at = "idle"
    BY DEF SendMilestone, Idle
  <1>2. CASE req[r].milestone = 0
    <2>1. UNCHANGED notices
      BY <1>2 DEF SendMilestone
    <2> QED BY <1>1, <2>1, ReadingHolds
  <1>3. CASE req[r].milestone # 0
    <2>1. Announcing(req[r])
      BY DEF SendMilestone, IInv, AnnouncingInv
    <2>2. PICK g \in Goals, m \in Milestones : g = req[r].goal /\ m = req[r].milestone
      BY <1>3, <2>1 DEF Announcing
    <2>3. Reached(g, m) /\ goals[g].status # "new"
      BY <1>3, <2>1, <2>2 DEF Announcing
    <2>4. Notify(g, m) /\ m \in Kinds
      BY <1>3, <2>2 DEF SendMilestone, Kinds
    <2> QED BY <1>1, <2>3, <2>4, NoticeHolds
  <1> QED BY <1>2, <1>3

LEMMA SendAlertHolds ==
  ASSUME IInv, NEW r \in Requests, NEW g \in Goals, SendAlert(r, g)
  PROVE  IInv'
  <1> DEFINE next == IF req[r].behind = {g} THEN Idle ELSE [req[r] EXCEPT !.behind = @ \ {g}]
  <1>1. /\ req[r].at = "alert" /\ Continue(r, next) /\ Notify(g, OffTrack)
        /\ UNCHANGED <<goals, day, past>>
    BY DEF SendAlert
  <1>2. next.at \notin {"loaded", "milestone"}
    <2>1. CASE req[r].behind = {g}
      BY <2>1 DEF Idle
    <2>2. CASE req[r].behind # {g}
      BY <1>1, <2>2
    <2> QED BY <2>1, <2>2
  <1>3. OffTrack \in Kinds /\ OffTrack \notin Milestones
    BY DEF OffTrack, Kinds, Milestones
  <1> HIDE DEF next
  <1> QED BY <1>1, <1>2, <1>3, NoticeHolds

LEMMA QuietHolds ==
  ASSUME IInv, UNCHANGED vars \/ DayPasses
  PROVE  IInv'
  <1>1. UNCHANGED <<goals, req, notices, past>> /\ day' \in Nat
    BY DEF vars, DayPasses, IInv, ShapeInv
  <1>2. ShapeInv'
    BY <1>1 DEF IInv, ShapeInv
  <1>3. RowsInv' /\ CompletionEarned' /\ Onward
    BY <1>1, RowsStay
  <1>4. CopiesInv' /\ AnnouncingInv'
    BY <1>1, <1>2, <1>3, CarriedStays DEF CopiesInv, AnnouncingInv
  <1>5. AnnouncedWasReached' /\ NewIsSilent'
    BY <1>1, <1>2, <1>3, AnnouncedStays
  <1> QED BY <1>2, <1>3, <1>4, <1>5 DEF IInv

-----------------------------------------------------------------------------
(* The inductive invariant, of every request of the goal routes and every  *)
(* announcement of GoalNotificationService.                                *)
THEOREM GoalInductive == Spec => []IInv
  <1>1. GoalAssumption /\ Init => IInv
    BY InitHolds
  <1>2. GoalAssumption /\ IInv /\ [Next]_vars => IInv'
    <2> SUFFICES ASSUME GoalAssumption, IInv, [Next]_vars PROVE IInv'
      OBVIOUS
    <2>1. CASE UNCHANGED vars \/ DayPasses
      BY <2>1, QuietHolds
    <2>2. ASSUME NEW r \in Requests, Serve(r) PROVE IInv'
      <3>1. ASSUME NEW g \in Goals, NEW t \in Targets, NEW d \in Dues, CreateGoal(r, g, t, d) PROVE IInv'
        BY <3>1, CreateGoalHolds
      <3>2. ASSUME NEW g \in Goals, LoadGoal(r, g) PROVE IInv'
        BY <3>2, LoadGoalHolds
      <3>3. ASSUME req[r].at = "loaded", NEW edit \in Edits(req[r].row), CommitEdit(r, edit) PROVE IInv'
        BY <3>3, CommitEditHolds
      <3>4. ASSUME NEW a \in Amounts, CommitProgress(r, a) PROVE IInv'
        BY <3>4, CommitProgressHolds
      <3>5. CASE CommitDelete(r)
        BY <3>5, CommitDeleteHolds
      <3> QED BY <2>2, <3>1, <3>2, <3>3, <3>4, <3>5 DEF Serve
    <2>3. ASSUME NEW r \in Requests, Announce(r) PROVE IInv'
      <3>1. ASSUME NEW g \in Goals, CheckMilestone(r, g) PROVE IInv'
        BY <3>1, CheckMilestoneHolds
      <3>2. CASE SendMilestone(r)
        BY <3>2, SendMilestoneHolds
      <3>3. CASE CheckOnTrack(r)
        BY <3>3, CheckOnTrackHolds
      <3>4. ASSUME NEW g \in Goals, SendAlert(r, g) PROVE IInv'
        BY <3>4, SendAlertHolds
      <3> QED BY <2>3, <3>1, <3>2, <3>3, <3>4 DEF Announce
    <2> QED BY <2>1, <2>2, <2>3 DEF Next
  <1> QED BY <1>1, <1>2, GoalAssumption, PTL DEF Spec

(* update_goal_progress completes a goal by the target it has loaded, which*)
(* another request may have replaced, and nothing takes the status back:   *)
(* the amount had nevertheless reached a target that the goal had.         *)
THEOREM CompletionIsEarned == Spec => []CompletionEarned
  <1>1. IInv => CompletionEarned
    BY DEF IInv
  <1> QED BY <1>1, GoalInductive, PTL

(* send_milestone_notification tells of a milestone that was read before,  *)
(* while the goal may be edited or deleted: it had been reached.           *)
THEOREM AnnouncementsAreTrue == Spec => []AnnouncedWasReached
  <1>1. IInv => AnnouncedWasReached
    BY DEF IInv
  <1> QED BY <1>1, GoalInductive, PTL

-----------------------------------------------------------------------------
(* What is expected of a goal only grows as days pass. *)
LEMMA QuotientGrows ==
  ASSUME NEW a \in Int, NEW b \in Int, a <= b, NEW n \in Nat, n > 0
  PROVE  a \div n \in Int /\ b \div n \in Int /\ a \div n <= b \div n
  <1>1. a \div n \in Int /\ n * (a \div n) <= a
    OBVIOUS
  <1>2. b \div n \in Int /\ b < n * (b \div n) + n
    OBVIOUS
  <1> DEFINE p == a \div n
             q == b \div n
  <1> HIDE DEF p, q
  <1>3. p \in Int /\ q \in Int /\ n * p < n * q + n
    BY <1>1, <1>2 DEF p, q
  <1>4. ~(p >= q + 1)
    <2> SUFFICES ASSUME p >= q + 1 PROVE FALSE
      OBVIOUS
    <2>1. n * p >= n * (q + 1)
      BY <1>3
    <2> QED BY <1>3, <2>1
  <1> QED BY <1>3, <1>4 DEF p, q

(* Waiting does not bring a goal back on track: the share of the time that *)
(* has passed grows, and check_goals_on_track compares the same progress.  *)
THEOREM WaitingIsNoProgress == Spec => BehindStaysBehind
  <1>1. IInv /\ IInv' /\ [Next]_vars =>
          [\A g \in Goals : (day' > day /\ Exists(g) /\ ~OnTrack(goals[g])) => ~OnTrack(goals[g])']_vars
    <2> SUFFICES ASSUME IInv, [Next]_vars, NEW g \in Goals, day' > day, ~OnTrack(goals[g])
                 PROVE  ~OnTrack(goals[g])'
      OBVIOUS
    <2>1. day \in Nat /\ goals[g] \in Columns
      BY DEF IInv, ShapeInv
    <2>2. DayPasses
      <3>1. day' # day
        BY <2>1
      <3> QED BY <3>1 DEF Next, vars, Serve, Announce, CreateGoal, LoadGoal, CommitEdit, CommitProgress,
                      CommitRow, CommitDelete, CheckMilestone, SendMilestone, CheckOnTrack, SendAlert
    <2>3. day' = day + 1 /\ goals' = goals
      BY <2>2 DEF DayPasses
    <2> DEFINE row == goals[g]
               c == CappedPercent(row)
               e == Expected(row)
               f == IF row.due <= row.born THEN 100 ELSE ((day' - row.born) * 100) \div (row.due - row.born)
    <2>4. c \in Int
      <3>1. row.target \in Nat /\ row.amount \in Nat
        BY <2>1 DEF Columns
      <3>2. CASE row.target = 0
        BY <3>2 DEF CappedPercent
      <3>3. CASE row.target # 0
        <4>1. (row.amount * 100) \div row.target \in Nat
          BY <3>1, <3>3
        <4>2. Min({100, (row.amount * 100) \div row.target}) \in Nat
          BY <4>1, Extremes
        <4> QED BY <3>3, <4>2 DEF CappedPercent
      <3> QED BY <3>2, <3>3
    <2>5. e \in Int /\ f \in Int /\ e <= f
      <3>1. row.due \in Nat /\ row.born \in Nat
        BY <2>1 DEF Columns
      <3>2. CASE row.due <= row.born
        BY <3>2 DEF Expected
      <3>3. CASE ~(row.due <= row.born)
        <4>1. row.due - row.born \in Nat /\ row.due - row.born > 0
          BY <3>1, <3>3
        <4>2. (day - row.born) * 100 \in Int /\ (day' - row.born) * 100 \in Int
              /\ (day - row.born) * 100 <= (day' - row.born) * 100
          BY <2>1, <2>3, <3>1
        <4> QED BY <3>3, <4>1, <4>2, QuotientGrows DEF Expected
      <3> QED BY <3>2, <3>3
    <2>6. ~(c >= e - 10)
      BY DEF OnTrack
    <2>7. ~(c >= f - 10)
      <3> HIDE DEF c, e, f
      <3> QED BY <2>4, <2>5, <2>6
    <2>8. OnTrack(goals[g])' <=> c >= f - 10
      BY <2>3 DEF OnTrack, CappedPercent, Expected
    <2> QED BY <2>7, <2>8
  <1> QED BY <1>1, GoalInductive, PTL DEF Spec, BehindStaysBehind

-----------------------------------------------------------------------------
(* The types of rows, requests and notices. *)
Kept ==
  {Idle} \cup [at : {"loaded"}, goal : Goals, row : Rows]
         \cup [at : {"milestone"}, goal : Goals, milestone : Milestones \cup {0}]
         \cup [at : {"alert"}, behind : SUBSET Goals]

GoalTypes ==
  /\ goals \in [Goals -> Rows]
  /\ req \in [Requests -> Kept]
  /\ day \in 0 .. MaxDay
  /\ notices \in [Goals -> [Kinds -> 0 .. MaxNotices]]
  /\ past \in [Goals -> Histories]

LEMMA KeptParts ==
  ASSUME NEW x \in Kept
  PROVE  /\ x.at = "loaded" => x.goal \in Goals /\ x.row \in Rows
         /\ x.at = "milestone" => x.goal \in Goals /\ x.milestone \in Milestones \cup {0}
         /\ x.at = "alert" => x = [at |-> "alert", behind |-> x.behind] /\ x.behind \in SUBSET Goals
  <1>1. CASE x = Idle
    BY <1>1 DEF Idle
  <1>2. CASE x \in [at : {"loaded"}, goal : Goals, row : Rows]
    BY <1>2
  <1>3. CASE x \in [at : {"milestone"}, goal : Goals, milestone : Milestones \cup {0}]
    BY <1>3
  <1>4. CASE x \in [at : {"alert"}, behind : SUBSET Goals]
    BY <1>4
  <1> QED BY <1>1, <1>2, <1>3, <1>4 DEF Kept

LEMMA KeptRows ==
  ASSUME NEW g \in Goals, NEW row \in Rows
  PROVE  [at |-> "loaded", goal |-> g, row |-> row] \in Kept
  <1>1. [at |-> "loaded", goal |-> g, row |-> row] \in [at : {"loaded"}, goal : Goals, row : Rows]
    OBVIOUS
  <1> QED BY <1>1, Zenon DEF Kept

LEMMA KeptMilestones ==
  ASSUME NEW g \in Goals, NEW m \in Milestones \cup {0}
  PROVE  [at |-> "milestone", goal |-> g, milestone |-> m] \in Kept
  <1>1. [at |-> "milestone", goal |-> g, milestone |-> m]
          \in [at : {"milestone"}, goal : Goals, milestone : Milestones \cup {0}]
    OBVIOUS
  <1> QED BY <1>1, Zenon DEF Kept

LEMMA KeptAlerts ==
  ASSUME NEW B \in SUBSET Goals
  PROVE  [at |-> "alert", behind |-> B] \in Kept
  <1>1. [at |-> "alert", behind |-> B] \in [at : {"alert"}, behind : SUBSET Goals]
    OBVIOUS
  <1> QED BY <1>1, Zenon DEF Kept

LEMMA KeptIdle == Idle \in Kept
  BY DEF Kept

LEMMA GoalTypesBegin == GoalAssumption /\ Init => GoalTypes
  <1> SUFFICES ASSUME GoalAssumption, Init PROVE GoalTypes
    OBVIOUS
  <1>1. NoGoal("new") \in Rows
    BY DEF NoGoal, Rows, GoalAssumption
  <1> QED BY <1>1, KeptIdle DEF Init, GoalTypes, GoalAssumption, Histories

(* A commit keeps the types, since each column comes from a typed row. *)
LEMMA CommitRowTyped ==
  ASSUME GoalTypes, NEW r \in Requests, req[r].at = "loaded", NEW new \in Rows, NEW chosen \in BOOLEAN,
         CommitRow(r, new, chosen)
  PROVE  GoalTypes'
  <1>1. PICK g \in Goals : g = req[r].goal
    BY KeptParts DEF GoalTypes
  <1>2. PICK old \in Rows : old = req[r].row
    BY KeptParts DEF GoalTypes
  <1> DEFINE row == Written(goals[g], old, new)
  <1>3. goals[g] \in Rows /\ past[g] \in Histories
    BY DEF GoalTypes
  <1>4. /\ Continue(r, Idle) /\ UNCHANGED <<day, notices>>
        /\ \/ goals' = [goals EXCEPT ![g] = row] /\ Remember(g, row, chosen)
           \/ UNCHANGED <<goals, past>>
    BY <1>1, <1>2 DEF CommitRow
  <1>5. req' \in [Requests -> Kept]
    BY <1>4, KeptIdle DEF Continue, GoalTypes
  <1>6. DOMAIN goals[g] = {"status", "target", "amount", "due", "born"}
    BY <1>3 DEF Rows
  <1>7. /\ row.status \in {new.status, goals[g].status}
        /\ row.target \in {new.target, goals[g].target}
        /\ row.amount \in {new.amount, goals[g].amount}
        /\ row.due \in {new.due, goals[g].due}
        /\ row.born \in {new.born, goals[g].born}
        /\ row = [status |-> row.status, target |-> row.target, amount |-> row.amount,
                  due |-> row.due, born |-> row.born]
    BY <1>6 DEF Written
  <1>8. row \in Rows
    <2> HIDE DEF row
    <2>1. /\ row.status \in Statuses \cup {"new", "deleted"} /\ row.target \in Nat /\ row.amount \in Nat
          /\ row.due \in Nat /\ row.born \in 0 .. MaxDay
      BY <1>3, <1>7 DEF Rows
    <2> QED BY <1>7, <2>1 DEF Rows
  <1> HIDE DEF row
  <1>9. ASSUME Remember(g, row, chosen) PROVE past' \in [Goals -> Histories]
    <2> DEFINE low == Min({past[g].low, row.target})
               top == Max({past[g].top, row.amount})
               mark == IF row.status # goals[g].status THEN chosen ELSE past[g].chosen
    <2>1. low \in Nat /\ top \in Nat /\ mark \in BOOLEAN
      <3>1. past[g].low \in Nat /\ past[g].top \in Nat /\ past[g].chosen \in BOOLEAN
        BY <1>3 DEF Histories
      <3>2. row.target \in Nat /\ row.amount \in Nat
        BY <1>8 DEF Rows
      <3>3. low \in Nat /\ top \in Nat
        BY <3>1, <3>2, Extremes
      <3> QED BY <3>1, <3>3
    <2>2. past' = [past EXCEPT ![g] = [low |-> low, top |-> top, chosen |-> mark]]
      BY <1>9 DEF Remember
    <2> HIDE DEF low, top, mark
    <2> QED BY <2>1, <2>2 DEF GoalTypes, Histories
  <1> QED BY <1>4, <1>5, <1>8, <1>9 DEF GoalTypes

LEMMA ServeTyped ==
  ASSUME GoalAssumption, GoalTypes, NEW r \in Requests, Serve(r)
  PROVE  GoalTypes'
  <1>1. ASSUME NEW g \in Goals, NEW t \in Targets, NEW d \in Dues, CreateGoal(r, g, t, d) PROVE GoalTypes'
    <2> DEFINE row == [status |-> "active", target |-> t, amount |-> 0, due |-> d, born |-> day]
               begun == [low |-> t, top |-> 0, chosen |-> FALSE]
    <2>1. row \in Rows /\ begun \in Histories
      BY DEF GoalAssumption, GoalTypes, Rows, Statuses, Histories
    <2>2. goals' = [goals EXCEPT ![g] = row] /\ past' = [past EXCEPT ![g] = begun] /\ UNCHANGED <<req, day, notices>>
      BY <1>1 DEF CreateGoal
    <2> HIDE DEF row, begun
    <2> QED BY <2>1, <2>2 DEF GoalTypes
  <1>2. ASSUME NEW g \in Goals, LoadGoal(r, g) PROVE GoalTypes'
    <2>1. [at |-> "loaded", goal |-> g, row |-> goals[g]] \in Kept
      BY KeptRows DEF GoalTypes
    <2> QED BY <1>2, <2>1 DEF LoadGoal, Continue, GoalTypes
  <1>3. ASSUME req[r].at = "loaded", NEW edit \in Edits(req[r].row), CommitEdit(r, edit) PROVE GoalTypes'
    <2>1. req[r].row \in Rows
      BY <1>3, KeptParts DEF GoalTypes
    <2>2. edit \in Rows
      BY <2>1 DEF Edits, Rows, Statuses, GoalAssumption
    <2>3. CommitRow(r, edit, TRUE)
      BY <1>3 DEF CommitEdit
    <2> QED BY <1>3, <2>2, <2>3, CommitRowTyped
  <1>4. ASSUME NEW a \in Amounts, CommitProgress(r, a) PROVE GoalTypes'
    <2> DEFINE row == [req[r].row EXCEPT !.amount = a]
               new == IF Achieved(req[r].row, a) THEN [row EXCEPT !.status = "completed"] ELSE row
    <2>1. req[r].at = "loaded" /\ CommitRow(r, new, FALSE)
      BY <1>4 DEF CommitProgress
    <2>2. req[r].row \in Rows
      BY <2>1, KeptParts DEF GoalTypes
    <2>3. row \in Rows
      BY <2>2 DEF Rows, GoalAssumption
    <2>4. [row EXCEPT !.status = "completed"] \in Rows
      BY <2>3 DEF Rows, Statuses
    <2>5. new \in Rows
      BY <2>3, <2>4
    <2> HIDE DEF new
    <2> QED BY <2>1, <2>5, CommitRowTyped
  <1>5. CASE CommitDelete(r)
    <2>1. NoGoal("deleted") \in Rows
      BY DEF NoGoal, Rows, GoalAssumption
    <2> QED BY <1>5, <2>1, KeptIdle DEF CommitDelete, Continue, GoalTypes
  <1> QED BY <1>1, <1>2, <1>3, <1>4, <1>5 DEF Serve

LEMMA AnnounceTyped ==
  ASSUME GoalAssumption, GoalTypes, NEW r \in Requests, Announce(r)
  PROVE  GoalTypes'
  <1>1. ASSUME NEW g \in Goals, NEW k \in Kinds, Quiet(g, k), Notify(g, k)
        PROVE  notices' \in [Goals -> [Kinds -> 0 .. MaxNotices]]
    <2>1. notices[g][k] + 1 \in 0 .. MaxNotices
      BY <1>1 DEF Quiet, GoalTypes, GoalAssumption
    <2> QED BY <1>1, <2>1 DEF Notify, GoalTypes
  <1>2. ASSUME NEW g \in Goals, CheckMilestone(r, g) PROVE GoalTypes'
    <2>1. goals[g] \in Columns
      BY DEF GoalTypes, Rows, Columns, GoalAssumption
    <2>2. Milestone(goals[g]) \in Milestones \cup {0}
      BY <2>1, MilestoneIsReached
    <2>3. [at |-> "milestone", goal |-> g, milestone |-> Milestone(goals[g])] \in Kept
      BY <2>2, KeptMilestones
    <2> QED BY <1>2, <2>3 DEF CheckMilestone, Continue, GoalTypes
  <1>3. CASE SendMilestone(r)
    <2>1. req[r].goal \in Goals /\ req[r].milestone \in Milestones \cup {0}
      BY <1>3, KeptParts DEF SendMilestone, GoalTypes
    <2>2. notices' \in [Goals -> [Kinds -> 0 .. MaxNotices]]
      <3>1. CASE req[r].milestone = 0
        BY <1>3, <3>1 DEF SendMilestone, GoalTypes
      <3>2. CASE req[r].milestone # 0
        BY <1>1, <1>3, <2>1, <3>2 DEF SendMilestone, Kinds
      <3> QED BY <3>1, <3>2
    <2> QED BY <1>3, <2>2, KeptIdle DEF SendMilestone, Continue, GoalTypes
  <1>4. CASE CheckOnTrack(r)
    <2>1. PICK B \in SUBSET Goals : Continue(r, [at |-> "alert", behind |-> B]) /\ UNCHANGED <<goals, day, notices, past>>
      BY <1>4 DEF CheckOnTrack
    <2>2. [at |-> "alert", behind |-> B] \in Kept
      BY KeptAlerts
    <2> QED BY <2>1, <2>2 DEF Continue, GoalTypes
  <1>5. ASSUME NEW g \in Goals, SendAlert(r, g) PROVE GoalTypes'
    <2> DEFINE next == IF req[r].behind = {g} THEN Idle ELSE [req[r] EXCEPT !.behind = @ \ {g}]
    <2>1. req[r] = [at |-> "alert", behind |-> req[r].behind] /\ req[r].behind \in SUBSET Goals
      BY <1>5, KeptParts DEF SendAlert, GoalTypes
    <2>2. [req[r] EXCEPT !.behind = @ \ {g}] = [at |-> "alert", behind |-> req[r].behind \ {g}]
      BY <2>1
    <2>3. next \in Kept
      BY <2>1, <2>2, KeptIdle, KeptAlerts
    <2>4. OffTrack \in Kinds
      BY DEF OffTrack, Kinds
    <2>5. Continue(r, next) /\ UNCHANGED <<goals, day, past>> /\ Quiet(g, OffTrack) /\ Notify(g, OffTrack)
      BY <1>5 DEF SendAlert
    <2> HIDE DEF next
    <2>6. notices' \in [Goals -> [Kinds -> 0 .. MaxNotices]]
      BY <1>1, <2>4, <2>5
    <2> QED BY <2>3, <2>5, <2>6 DEF Continue, GoalTypes
  <1> QED BY <1>2, <1>3, <1>4, <1>5 DEF Announce

LEMMA GoalTypesStay == GoalAssumption /\ GoalTypes /\ [Next]_vars => GoalTypes'
  <1> SUFFICES ASSUME GoalAssumption, GoalTypes, [Next]_vars PROVE GoalTypes'
    OBVIOUS
  <1>1. CASE UNCHANGED vars
    BY <1>1 DEF vars, GoalTypes
  <1>2. CASE DayPasses
    BY <1>2 DEF DayPasses, GoalTypes, GoalAssumption
  <1> QED BY <1>1, <1>2, ServeTyped, AnnounceTyped DEF Next

-----------------------------------------------------------------------------
(* What the routes, the tool and the notifier show of the rows. *)
LEMMA ReachedPercent ==
  ASSUME NEW t \in Nat, t > 0, NEW a \in Nat, t <= a
  PROVE  (a * 100) \div t >= 100
  <1>1. a * 100 \in Int /\ t * 100 \in Int /\ t * 100 <= a * 100
    OBVIOUS
  <1>2. (t * 100) \div t = 100
    <2>1. t * 100 = 100 * t
      OBVIOUS
    <2> QED BY <2>1
  <1>3. (a * 100) \div t \in Int
    OBVIOUS
  <1> QED BY <1>1, <1>2, <1>3, QuotientGrows

LEMMA CappedIsPercent ==
  ASSUME NEW row \in Columns
  PROVE  CappedPercent(row) \in Nat /\ CappedPercent(row) <= 100
  <1>1. row.target \in Nat /\ row.amount \in Nat
    BY DEF Columns
  <1>2. CASE row.target = 0
    BY <1>2 DEF CappedPercent
  <1>3. CASE row.target # 0
    <2>1. PICK n \in Nat : n = (row.amount * 100) \div row.target
      BY <1>1, <1>3
    <2>2. CappedPercent(row) = Min({100, n})
      BY <1>3, <2>1 DEF CappedPercent
    <2> QED BY <2>2, Extremes
  <1> QED BY <1>2, <1>3

LEMMA GoalsShown ==
  ASSUME GoalAssumption, goals \in [Goals -> Columns], day \in Nat
  PROVE  Shown
  <1> DEFINE G == {g \in Goals : Exists(g)}
             f == [g \in G |-> CappedPercent(goals[g])]
             name == [g \in G |-> [goal |-> g, percent |-> Percent(g)]]
  <1>1. IsFiniteSet(G) /\ G \subseteq Goals
    BY FS_Subset DEF GoalAssumption
  <1>2. NotifierSummary.active = GoalsSummary.count
    <2>1. {g \in G : goals[g].status = "active"} = {g \in Goals : goals[g].status = "active"}
      BY DEF Exists, Statuses
    <2> HIDE DEF G
    <2>2. NotifierSummary.active = Cardinality({g \in {g \in Goals : Exists(g)} : goals[g].status = "active"})
      BY DEF NotifierSummary
    <2>3. GoalsSummary.count = Cardinality({g \in Goals : goals[g].status = "active"})
      BY DEF GoalsSummary
    <2> QED BY <2>1, <2>2, <2>3 DEF G
  <1>3. NotifierSummary.total = Cardinality(ToolGoals)
    <2>1. NotifierSummary.total = Cardinality(G)
      BY DEF NotifierSummary
    <2>2. ToolGoals = {name[g] : g \in G}
      BY DEF ToolGoals
    <2>3. \A g, h \in G : name[g] = name[h] => g = h
      OBVIOUS
    <2> HIDE DEF G, name
    <2> QED BY <1>1, <2>1, <2>2, <2>3, CountRenamed
  <1>4. ASSUME NEW x \in ToolGoals, GoalProgress(x.goal).remaining = 0
        PROVE  x.percent >= 100 \/ goals[x.goal].target = 0
    <2>1. PICK g \in Goals : x = [goal |-> g, percent |-> Percent(g)]
      BY DEF ToolGoals
    <2>2. PICK t \in Nat, a \in Nat : t = goals[g].target /\ a = goals[g].amount
      BY DEF Columns
    <2>3. x.goal = g /\ x.percent = Percent(g)
      BY <2>1
    <2>4. Max({0, t - a}) = 0
      BY <1>4, <2>2, <2>3 DEF GoalProgress
    <2>5. ASSUME t > 0 PROVE t <= a
      <3> SUFFICES ASSUME t > a PROVE FALSE
        OBVIOUS
      <3>1. PICK n \in Nat : n = t - a
        OBVIOUS
      <3>2. n > 0 /\ n <= Max({0, n})
        BY <3>1, Extremes
      <3> QED BY <2>4, <3>1, <3>2
    <2>6. ASSUME t > 0 PROVE Percent(g) >= 100
      <3>1. Percent(g) = (a * 100) \div t
        BY <2>2, <2>6 DEF Percent
      <3> QED BY <2>5, <2>6, <3>1, ReachedPercent
    <2> QED BY <2>2, <2>3, <2>6
  <1>5. NotifierSummary.average <= 100
    <2>1. CASE G = {}
      BY <2>1 DEF NotifierSummary
    <2>2. CASE G # {}
      <3>1. NotifierSummary.average = SumFunction(f) \div Cardinality(G)
        BY <2>2 DEF NotifierSummary
      <3>2. SumFunction(f) = SumFunctionOnSet(f, DOMAIN f)
        BY Zenon DEF SumFunction
      <3>3. DOMAIN f = G
        OBVIOUS
      <3>4. \A g \in G : f[g] \in Nat /\ f[g] <= 100
        BY <1>1, CappedIsPercent
      <3> HIDE DEF f, G
      <3>5. PICK n \in Nat : n = Cardinality(G) /\ n # 0
        BY <1>1, <2>2, FS_CardinalityType, FS_EmptySet
      <3>6. SumFunctionOnSet(f, G) <= 100 * n /\ SumFunctionOnSet(f, G) \in Nat
        BY <1>1, <3>4, <3>5, SumAtMost, SumNat
      <3>7. (100 * n) \div n = 100
        BY <3>5
      <3>8. SumFunctionOnSet(f, G) \div n <= (100 * n) \div n
        BY <3>5, <3>6, QuotientGrows
      <3> QED BY <3>1, <3>2, <3>3, <3>5, <3>7, <3>8
    <2> QED BY <2>1, <2>2
  <1> QED BY <1>2, <1>3, <1>4, <1>5 DEF Shown

(* Rows, requests and notices have their types, and what the routes, the   *)
(* assistant and the notifier show of the same rows fits together, for any *)
(* number of goals.                                                        *)
THEOREM GoalTypeCorrect == Spec => []TypeOK
  <1>1. GoalAssumption /\ GoalTypes => TypeOK
    <2> SUFFICES ASSUME GoalAssumption, GoalTypes PROVE TypeOK
      OBVIOUS
    <2>1. goals \in [Goals -> Columns] /\ day \in Nat
      BY DEF GoalTypes, Rows, Columns, GoalAssumption
    <2> QED BY <2>1, GoalsShown DEF GoalTypes, TypeOK, Kept, Histories
  <1> QED BY <1>1, GoalTypesBegin, GoalTypesStay, GoalAssumption, PTL DEF Spec

-----------------------------------------------------------------------------
(* The notifications, and the client that pages through them.  What stays  *)
(* true of a walk that no read and no deletion disturbs: a notification    *)
(* that was there at its start and has not been seen is still in the list, *)
(* at the offset of the next page or behind it, since new ones come before *)
(* the others and move them away from the client, never past it.  So what  *)
(* is left when a page reaches the total is at an offset that the count    *)
(* had not reached: there are no more of these than arrived since.         *)

Notification == [kind : Box!Kinds, read : BOOLEAN, day : 0 .. MaxDay]
Alerting == {p \in Shares \cup {0} : Box!Level(p) # "none"}

Work ==
  {Box!Idle} \cup [at : {"loaded"}, id : Nat]
             \cup [at : {"answered"}, code : Nat]
             \cup [at : {"unread", "old"}, ids : SUBSET Nat]
             \cup [at : {"remind"}, kind : Box!Kinds]
             \cup [at : {"budget", "alert"}, share : Alerting]

RowsTyped ==
  /\ rows \in [Box!Ids -> Notification]
  /\ made \in [Box!Kinds -> Nat]
  /\ Box!Made \in 0 .. MaxRows /\ Box!Ids \subseteq 1 .. Box!Made

BoxTypes ==
  /\ RowsTyped
  /\ alerts \in Seq({"medium", "high", "critical"})
  /\ loan \in [status : {"active", "closed"}, due : 0 .. MaxDay]
  /\ spent \in Shares \cup {0}
  /\ day \in 0 .. MaxDay
  /\ req \in [Requests -> Work]

Walks == [on : {TRUE}, stage : {"count", "page", "done"}, filter : Filters, skip : Nat, total : Nat,
          late : Int, start : SUBSET Nat, seen : SUBSET Nat, disturbed : BOOLEAN]

Ahead(w) ==
  /\ w.start \subseteq Box!Chosen(w.filter)
  /\ \A n \in w.start \ w.seen : w.skip <= Box!Place(n, w.filter)
  /\ w.total <= Cardinality(Box!Ids)
  /\ w.stage = "done" => Cardinality(w.start \ w.seen) <= w.late

WalkInv ==
  /\ walk \in {Box!NoWalk} \cup Walks
  /\ walk.on /\ ~walk.disturbed => Ahead(walk)

LEMMA WorkParts ==
  ASSUME NEW x \in Work
  PROVE  /\ x.at \in {"idle", "loaded", "unread", "old", "remind", "budget", "alert", "answered"}
         /\ x.at = "remind" => x.kind \in Box!Kinds
         /\ x.at \in {"budget", "alert"} => x = [at |-> x.at, share |-> x.share] /\ x.share \in Alerting
  <1>1. CASE x = Box!Idle
    BY <1>1 DEF Box!Idle
  <1>2. CASE x \in [at : {"loaded"}, id : Nat]
    BY <1>2
  <1>3. CASE x \in [at : {"answered"}, code : Nat]
    BY <1>3
  <1>4. CASE x \in [at : {"unread", "old"}, ids : SUBSET Nat]
    BY <1>4
  <1>5. CASE x \in [at : {"remind"}, kind : Box!Kinds]
    BY <1>5
  <1>6. CASE x \in [at : {"budget", "alert"}, share : Alerting]
    BY <1>6
  <1> QED BY <1>1, <1>2, <1>3, <1>4, <1>5, <1>6 DEF Work

LEMMA WorkIdle == Box!Idle \in Work
  BY DEF Work

LEMMA WorkRecords ==
  /\ \A n \in Nat : [at |-> "loaded", id |-> n] \in Work
  /\ [at |-> "answered", code |-> 404] \in Work
  /\ \A N \in SUBSET Nat : [at |-> "unread", ids |-> N] \in Work /\ [at |-> "old", ids |-> N] \in Work
  /\ \A k \in Box!Kinds : [at |-> "remind", kind |-> k] \in Work
  /\ \A p \in Alerting : [at |-> "budget", share |-> p] \in Work /\ [at |-> "alert", share |-> p] \in Work
  <1>1. ASSUME NEW n \in Nat PROVE [at |-> "loaded", id |-> n] \in Work
    <2>1. [at |-> "loaded", id |-> n] \in [at : {"loaded"}, id : Nat]
      OBVIOUS
    <2> QED BY <2>1, Zenon DEF Work
  <1>2. [at |-> "answered", code |-> 404] \in Work
    <2>1. [at |-> "answered", code |-> 404] \in [at : {"answered"}, code : Nat]
      OBVIOUS
    <2> QED BY <2>1, Zenon DEF Work
  <1>3. ASSUME NEW N \in SUBSET Nat, NEW a \in {"unread", "old"} PROVE [at |-> a, ids |-> N] \in Work
    <2>1. [at |-> a, ids |-> N] \in [at : {"unread", "old"}, ids : SUBSET Nat]
      OBVIOUS
    <2> QED BY <2>1, Zenon DEF Work
  <1>4. ASSUME NEW k \in Box!Kinds PROVE [at |-> "remind", kind |-> k] \in Work
    <2>1. [at |-> "remind", kind |-> k] \in [at : {"remind"}, kind : Box!Kinds]
      OBVIOUS
    <2> QED BY <2>1, Zenon DEF Work
  <1>5. ASSUME NEW p \in Alerting, NEW a \in {"budget", "alert"} PROVE [at |-> a, share |-> p] \in Work
    <2>1. [at |-> a, share |-> p] \in [at : {"budget", "alert"}, share : Alerting]
      OBVIOUS
    <2> QED BY <2>1, Zenon DEF Work
  <1> QED BY <1>1, <1>2, <1>3, <1>4, <1>5

(* The steps of a request, but for rows and walk, keep the types. *)
LEMMA WorkStays ==
  ASSUME req \in [Requests -> Work], NEW r \in Requests, NEW next \in Work, Box!Continue(r, next)
  PROVE  req' \in [Requests -> Work]
  BY DEF Box!Continue

(* The counters add up to the number of rows ever created. *)
LEMMA KindsFinite == IsFiniteSet(Box!Kinds)
  <1>1. Box!Kinds = (({} \cup {"loan_reminder"}) \cup {"loan_overdue_alert"}) \cup {"budget_alert"}
    BY DEF Box!Kinds
  <1> QED BY <1>1, FS_EmptySet, FS_AddElement

LEMMA MadeIsSum == Box!Made = SumFunctionOnSet(made, DOMAIN made)
  BY DEF Box!Made, Box!SumFunction, Box!SumFunctionOnSet, SumFunctionOnSet,
     Box!FoldFunctionOnSet, FoldFunctionOnSet, Box!MapThenFoldSet, MapThenFoldSet

LEMMA Created ==
  ASSUME Box!InboxAssumption, RowsTyped, day \in 0 .. MaxDay, NEW k \in Box!Kinds, Box!CreateNotification(k)
  PROVE  /\ RowsTyped'
         /\ \A n \in Box!Ids : n \in Box!Ids' /\ rows'[n] = rows[n]
  <1>1. PICK c \in Nat : c = Box!Made
    BY DEF RowsTyped
  <1>2. c + 1 <= MaxRows
    BY <1>1 DEF Box!CreateNotification, Box!InboxAssumption
  <1>3. made' \in [Box!Kinds -> Nat] /\ made'[k] = made[k] + 1 /\ \A j \in Box!Kinds \ {k} : made'[j] = made[j]
    BY DEF RowsTyped, Box!CreateNotification
  <1>4. Box!Made' = c + 1
    <2>1. (Box!Made = SumFunctionOnSet(made, DOMAIN made))'
      BY MadeIsSum, PTL
    <2>2. Box!Made' = SumFunctionOnSet(made', Box!Kinds) /\ c = SumFunctionOnSet(made, Box!Kinds)
      BY <1>1, <1>3, <2>1, MadeIsSum DEF RowsTyped
    <2>3. \A j \in Box!Kinds : made[j] \in Int /\ made'[j] \in Int
      BY <1>3 DEF RowsTyped
    <2>4. SumFunctionOnSet(made', Box!Kinds) = SumFunctionOnSet(made, Box!Kinds) - made[k] + made'[k]
      BY <1>3, <2>3, KindsFinite, SumChanged
    <2> QED BY <1>1, <1>3, <2>2, <2>3, <2>4
  <1> DEFINE new == [kind |-> k, read |-> FALSE, day |-> day]
  <1>5. rows' = [n \in Box!Ids \cup {c + 1} |-> IF n \in Box!Ids THEN rows[n] ELSE new]
    BY <1>1 DEF Box!CreateNotification
  <1>6. new \in Notification
    BY DEF Notification
  <1> HIDE DEF new
  <1>7. Box!Ids' = Box!Ids \cup {c + 1} /\ \A n \in Box!Ids : rows'[n] = rows[n]
    BY <1>5 DEF Box!Ids
  <1>8. rows' \in [Box!Ids' -> Notification]
    BY <1>5, <1>6, <1>7 DEF RowsTyped
  <1>9. Box!Ids' \subseteq 1 .. (c + 1)
    BY <1>1, <1>7 DEF RowsTyped
  <1> QED BY <1>1, <1>2, <1>3, <1>4, <1>7, <1>8, <1>9 DEF RowsTyped, Box!InboxAssumption

LEMMA BoxTypesBegin == Box!InboxAssumption /\ Box!Init => BoxTypes /\ WalkInv
  <1> SUFFICES ASSUME Box!InboxAssumption, Box!Init PROVE BoxTypes /\ WalkInv
    OBVIOUS
  <1>1. made \in [Box!Kinds -> Nat] /\ \A k \in Box!Kinds : made[k] = 0
    BY DEF Box!Init
  <1>2. Box!Made = 0
    BY <1>1, KindsFinite, MadeIsSum, SumZero
  <1>3. Box!Ids = {} /\ rows \in [{} -> Notification]
    BY DEF Box!Init, Box!Ids
  <1>4. RowsTyped
    BY <1>1, <1>2, <1>3 DEF RowsTyped, Box!InboxAssumption
  <1>5. req \in [Requests -> Work]
    BY WorkIdle DEF Box!Init
  <1>6. alerts \in Seq({"medium", "high", "critical"})
    BY DEF Box!Init
  <1>7. BoxTypes
    BY <1>4, <1>5, <1>6 DEF BoxTypes, Box!Init, Box!InboxAssumption
  <1>8. WalkInv
    BY DEF Box!Init, Box!NoWalk, WalkInv
  <1> QED BY <1>7, <1>8

(* Steps that mark or delete rows. *)
LEMMA Fewer ==
  ASSUME RowsTyped, made' = made,
         \/ rows' = rows
         \/ \E N : rows' = Box!Marked(N)
         \/ \E N : rows' = Box!Restrict(rows, N) /\ N \subseteq Box!Ids
  PROVE  RowsTyped'
  <1>1. Box!Made' = Box!Made
    BY DEF Box!Made
  <1>2. CASE rows' = rows
    BY <1>1, <1>2 DEF RowsTyped, Box!Ids
  <1>3. ASSUME NEW N, rows' = Box!Marked(N) PROVE RowsTyped'
    <2>1. \A n \in Box!Ids : [rows[n] EXCEPT !.read = TRUE] \in Notification
      BY DEF RowsTyped, Notification
    <2>2. Box!Ids' = Box!Ids /\ rows' \in [Box!Ids -> Notification]
      BY <1>3, <2>1 DEF Box!Marked, Box!Ids, RowsTyped
    <2> QED BY <1>1, <2>2 DEF RowsTyped
  <1>4. ASSUME NEW N, rows' = Box!Restrict(rows, N), N \subseteq Box!Ids PROVE RowsTyped'
    <2>1. Box!Ids' = N /\ rows' \in [N -> Notification]
      BY <1>4 DEF Box!Restrict, Box!Ids, RowsTyped
    <2> QED BY <1>1, <1>4, <2>1 DEF RowsTyped
  <1> QED BY <1>2, <1>3, <1>4

LEMMA AlertingLevels ==
  ASSUME NEW p \in Alerting PROVE Box!Level(p) \in {"medium", "high", "critical"}
  BY DEF Alerting, Box!Level

(* A request of the routes, or a job, keeps the types. *)
LEMMA BoxServeTyped ==
  ASSUME Box!InboxAssumption, BoxTypes, NEW r \in Requests, Box!Serve(r)
  PROVE  BoxTypes'
  <1> USE DEF Box!Others
  <1>0. RowsTyped /\ Box!Ids \subseteq Nat /\ req[r] \in Work
    BY DEF BoxTypes, RowsTyped
  <1>1. ASSUME NEW next \in Work, Box!Continue(r, next), UNCHANGED <<rows, made, alerts, loan, spent, day>>
        PROVE  BoxTypes'
    BY <1>0, <1>1, Fewer, WorkStays DEF BoxTypes
  <1>2. ASSUME NEW next \in Work, Box!Continue(r, next), RowsTyped', UNCHANGED <<alerts, loan, spent, day>>
        PROVE  BoxTypes'
    BY <1>2, WorkStays DEF BoxTypes
  <1>3. ASSUME NEW id \in Box!Ids, Box!Load(r, id) PROVE BoxTypes'
    <2>1. [at |-> "loaded", id |-> id] \in Work
      BY <1>0, WorkRecords
    <2> QED BY <1>1, <1>3, <2>1 DEF Box!Load
  <1>4. CASE Box!CommitRead(r)
    <2>1. RowsTyped'
      BY <1>0, <1>4, Fewer DEF Box!CommitRead
    <2> QED BY <1>2, <1>4, <2>1, WorkIdle DEF Box!CommitRead
  <1>5. CASE Box!CommitDelete(r)
    <2>1. RowsTyped'
      BY <1>0, <1>5, Fewer DEF Box!CommitDelete
    <2> QED BY <1>2, <1>5, <2>1, WorkIdle DEF Box!CommitDelete
  <1>6. CASE Box!MarkAllRoute(r)
    BY <1>1, <1>6, WorkRecords DEF Box!MarkAllRoute
  <1>7. CASE Box!LoadUnread(r)
    <2>1. [at |-> "unread", ids |-> Box!Chosen("unread")] \in Work
      BY <1>0, WorkRecords DEF Box!Chosen
    <2> QED BY <1>1, <1>7, <2>1 DEF Box!LoadUnread
  <1>8. CASE Box!CommitAllRead(r)
    <2>1. RowsTyped'
      BY <1>0, <1>8, Fewer DEF Box!CommitAllRead
    <2> QED BY <1>2, <1>8, <2>1, WorkIdle DEF Box!CommitAllRead
  <1>9. CASE Box!LoadOld(r)
    <2> DEFINE N == {n \in Box!Ids : rows[n].day < day - Retention}
    <2>1. [at |-> "old", ids |-> N] \in Work
      BY <1>0, WorkRecords
    <2> QED BY <1>1, <1>9, <2>1 DEF Box!LoadOld
  <1>17. CASE Box!CommitOld(r)
    <2>1. RowsTyped'
      BY <1>0, <1>17, Fewer DEF Box!CommitOld
    <2> QED BY <1>2, <1>17, <2>1, WorkIdle DEF Box!CommitOld
  <1>10. CASE Box!CheckLoans(r)
    <2>1. [at |-> "remind", kind |-> "loan_reminder"] \in Work
      BY WorkRecords DEF Box!Kinds
    <2> QED BY <1>1, <1>10, <2>1 DEF Box!CheckLoans
  <1>11. CASE Box!CheckOverdue(r)
    <2>1. [at |-> "remind", kind |-> "loan_overdue_alert"] \in Work
      BY WorkRecords DEF Box!Kinds
    <2> QED BY <1>1, <1>11, <2>1 DEF Box!CheckOverdue
  <1>12. CASE Box!SendReminder(r)
    <2>1. req[r].kind \in Box!Kinds
      BY <1>0, <1>12, WorkParts DEF Box!SendReminder
    <2>2. RowsTyped'
      BY <1>0, <1>12, <2>1, Created DEF Box!SendReminder, BoxTypes
    <2> QED BY <1>2, <1>12, <2>2, WorkIdle DEF Box!SendReminder
  <1>13. CASE Box!CheckBudget(r)
    <2>1. spent \in Alerting
      BY <1>13 DEF Box!CheckBudget, BoxTypes, Alerting
    <2>2. [at |-> "budget", share |-> spent] \in Work
      BY <2>1, WorkRecords
    <2> QED BY <1>1, <1>13, <2>2 DEF Box!CheckBudget
  <1>14. CASE Box!NotifyBudget(r)
    <2>1. req[r] = [at |-> "budget", share |-> req[r].share] /\ req[r].share \in Alerting
      BY <1>0, <1>14, WorkParts DEF Box!NotifyBudget
    <2>2. [req[r] EXCEPT !.at = "alert"] = [at |-> "alert", share |-> req[r].share]
      BY <2>1
    <2>3. [req[r] EXCEPT !.at = "alert"] \in Work
      BY <2>1, <2>2, WorkRecords
    <2>4. "budget_alert" \in Box!Kinds
      BY DEF Box!Kinds
    <2>5. RowsTyped'
      BY <1>0, <1>14, <2>4, Created DEF Box!NotifyBudget, BoxTypes
    <2> QED BY <1>2, <1>14, <2>3, <2>5 DEF Box!NotifyBudget
  <1>15. CASE Box!AlertBudget(r)
    <2>1. req[r].share \in Alerting
      BY <1>0, <1>15, WorkParts DEF Box!AlertBudget
    <2>2. Box!Level(req[r].share) \in {"medium", "high", "critical"}
      BY <2>1, AlertingLevels
    <2>3. alerts' \in Seq({"medium", "high", "critical"})
      BY <1>15, <2>2 DEF Box!AlertBudget, BoxTypes
    <2>4. req' \in [Requests -> Work]
      BY <1>15, WorkIdle, WorkStays DEF Box!AlertBudget, BoxTypes
    <2>5. RowsTyped'
      BY <1>0, <1>15, Fewer DEF Box!AlertBudget
    <2> QED BY <1>15, <2>3, <2>4, <2>5 DEF Box!AlertBudget, BoxTypes
  <1>16. CASE Box!Finish(r)
    BY <1>1, <1>16, WorkIdle DEF Box!Finish
  <1> QED BY <1>3, <1>4, <1>5, <1>6, <1>7, <1>8, <1>9, <1>10, <1>11, <1>12, <1>13, <1>14, <1>15, <1>16, <1>17
          DEF Box!Serve

LEMMA BoxTypesStay == Box!InboxAssumption /\ BoxTypes /\ [Box!Next]_(Box!vars) => BoxTypes'
  <1> SUFFICES ASSUME Box!InboxAssumption, BoxTypes, [Box!Next]_(Box!vars) PROVE BoxTypes'
    OBVIOUS
  <1>0. ASSUME UNCHANGED <<rows, made>> PROVE RowsTyped'
    BY <1>0, Fewer DEF BoxTypes
  <1>1. CASE UNCHANGED Box!vars
    BY <1>0, <1>1 DEF Box!vars, BoxTypes
  <1>2. CASE (\E f \in Filters : Box!StartWalk(f)) \/ Box!CountRows \/ Box!ReadPage
    BY <1>0, <1>2 DEF Box!StartWalk, Box!CountRows, Box!ReadPage, Box!Others, BoxTypes
  <1>3. CASE Box!PayLoan
    <2>1. loan' \in [status : {"active", "closed"}, due : 0 .. MaxDay]
      BY <1>3 DEF Box!PayLoan, BoxTypes
    <2> QED BY <1>0, <1>3, <2>1 DEF Box!PayLoan, BoxTypes
  <1>4. CASE \E p \in Shares : Box!Spend(p)
    BY <1>0, <1>4 DEF Box!Spend, BoxTypes
  <1>5. CASE Box!DayPasses
    BY <1>0, <1>5 DEF Box!DayPasses, BoxTypes, Box!InboxAssumption
  <1> QED BY <1>1, <1>2, <1>3, <1>4, <1>5, BoxServeTyped DEF Box!Next

-----------------------------------------------------------------------------
(* The walk *)

LEMMA BoxCardinality == ASSUME NEW S PROVE Box!Cardinality(S) = Cardinality(S)
  BY Zenon DEF Box!Cardinality, Cardinality

Placed ==
  /\ Box!Ids \subseteq Nat /\ IsFiniteSet(Box!Ids) /\ Cardinality(Box!Ids) \in Nat
  /\ \A f : Box!Chosen(f) \subseteq Box!Ids
  /\ \A f, n : IsFiniteSet({m \in Box!Chosen(f) : m > n})
  /\ \A f, n : Box!Place(n, f) \in Nat

LEMMA PlacedRows == RowsTyped => Placed
  <1> SUFFICES ASSUME RowsTyped PROVE Placed
    OBVIOUS
  <1>1. Box!Ids \subseteq Nat /\ IsFiniteSet(Box!Ids)
    <2>1. PICK c \in Nat : c = Box!Made
      BY DEF RowsTyped
    <2>2. Box!Ids \in SUBSET (1 .. c)
      BY <2>1 DEF RowsTyped
    <2>3. IsFiniteSet(1 .. c)
      BY FS_Interval
    <2>4. IsFiniteSet(Box!Ids)
      BY <2>2, <2>3, FS_Subset
    <2> QED BY <2>2, <2>4
  <1>2. \A f : Box!Chosen(f) \subseteq Box!Ids
    BY DEF Box!Chosen
  <1>3. ASSUME NEW f, NEW n
        PROVE  IsFiniteSet({m \in Box!Chosen(f) : m > n}) /\ Box!Place(n, f) \in Nat
    <2>1. IsFiniteSet({m \in Box!Chosen(f) : m > n})
      BY <1>1, <1>2, FS_Subset
    <2>2. Box!Place(n, f) = Cardinality({m \in Box!Chosen(f) : m > n})
      BY BoxCardinality DEF Box!Place
    <2> QED BY <2>1, <2>2, FS_CardinalityType
  <1>4. Cardinality(Box!Ids) \in Nat
    BY <1>1, FS_CardinalityType
  <1> QED BY <1>1, <1>2, <1>3, <1>4 DEF Placed

LEMMA GreatestRow ==
  ASSUME NEW c \in Nat, NEW U \in SUBSET (1 .. c), U # {}
  PROVE  \E m \in U : \A n \in U : ~(n > m)
  <1> DEFINE N == {c - n : n \in U}
  <1>1. N \subseteq Nat /\ N # {}
    <2>1. \A n \in U : n \in Nat /\ c - n \in Nat
      OBVIOUS
    <2> QED BY <2>1
  <1>2. PICK k \in N : \A j \in N : ~(j < k)
    BY <1>1, LeastNumber
  <1>3. PICK m \in U : k = c - m
    BY <1>2
  <1>4. \A n \in U : ~(c - n < c - m)
    BY <1>2, <1>3
  <1> QED BY <1>4

(* Those whose place is t or more are, t rows aside, no more than there    *)
(* are rows.                                                               *)
LEMMA FewBehind ==
  ASSUME RowsTyped, NEW f, NEW U \in SUBSET Box!Chosen(f), NEW t \in Nat, t <= Cardinality(Box!Ids),
         \A n \in U : t <= Box!Place(n, f)
  PROVE  Cardinality(U) <= Cardinality(Box!Ids) - t
  <1>1. /\ Box!Ids \subseteq Nat /\ IsFiniteSet(Box!Ids) /\ Cardinality(Box!Ids) \in Nat
        /\ U \in SUBSET Box!Ids
    BY PlacedRows DEF Placed
  <1>2. CASE U = {}
    BY <1>1, <1>2, FS_EmptySet
  <1>3. CASE U # {}
    <2>1. PICK c \in Nat : c = Box!Made
      BY DEF RowsTyped
    <2>2. U \in SUBSET (1 .. c)
      BY <1>1, <2>1 DEF RowsTyped
    <2>3. PICK m \in U : \A n \in U : ~(n > m)
      BY <1>3, <2>2, GreatestRow
    <2> DEFINE P == {n \in Box!Chosen(f) : n > m}
    <2>4. P \in SUBSET Box!Ids /\ U \cap P = {} /\ U \cup P \in SUBSET Box!Ids
      BY <1>1, <2>3, PlacedRows DEF Placed
    <2>5. Box!Place(m, f) = Cardinality(P)
      BY BoxCardinality DEF Box!Place
    <2> HIDE DEF P
    <2>6. IsFiniteSet(U) /\ IsFiniteSet(P) /\ Cardinality(U) \in Nat /\ Cardinality(P) \in Nat
      BY <1>1, <2>4, FS_Subset, FS_CardinalityType
    <2>7. Cardinality(U \cup P) = Cardinality(U) + Cardinality(P)
      BY <2>4, <2>6, FS_Union, FS_EmptySet
    <2>8. Cardinality(U \cup P) <= Cardinality(Box!Ids)
      BY <1>1, <2>4, FS_Subset
    <2>9. t <= Cardinality(P)
      BY <2>3, <2>5
    <2> QED BY <1>1, <2>6, <2>7, <2>8, <2>9
  <1> QED BY <1>2, <1>3

(* Arrivals move nobody towards the front. *)
LEMMA PlacesGrow ==
  ASSUME RowsTyped, RowsTyped', NEW f, \A n \in Box!Ids : n \in Box!Ids' /\ rows'[n] = rows[n], NEW m
  PROVE  Box!Chosen(f) \subseteq Box!Chosen(f)' /\ Box!Place(m, f) <= Box!Place(m, f)'
  <1>1. Box!Chosen(f) \subseteq Box!Chosen(f)'
    BY DEF Box!Chosen, Box!Ids
  <1> DEFINE P == {n \in Box!Chosen(f) : n > m}
             Q == {n \in Box!Chosen(f)' : n > m}
  <1>2. P \subseteq Q
    BY <1>1
  <1>3. IsFiniteSet(Q)
    <2>1. (RowsTyped => Placed)'
      BY PlacedRows, PTL
    <2> QED BY <2>1 DEF Placed
  <1> HIDE DEF P, Q
  <1>4. Cardinality(P) <= Cardinality(Q)
    BY <1>2, <1>3, FS_Subset
  <1>5. Box!Place(m, f) = Cardinality(P) /\ Box!Place(m, f)' = Cardinality(Q)
    BY BoxCardinality DEF P, Q, Box!Place
  <1> QED BY <1>1, <1>4, <1>5

LEMMA StartHolds ==
  ASSUME RowsTyped, NEW f \in Filters, Box!StartWalk(f)
  PROVE  WalkInv'
  <1> DEFINE w == [on |-> TRUE, stage |-> "count", filter |-> f, skip |-> 0, total |-> 0, late |-> 0,
                   start |-> Box!Chosen(f), seen |-> {}, disturbed |-> FALSE]
  <1>1. walk' = w /\ rows' = rows
    BY DEF Box!StartWalk
  <1>2. w \in Walks
    <2>1. Box!Chosen(f) \in SUBSET Nat
      BY PlacedRows DEF Placed
    <2> QED BY <2>1 DEF Walks
  <1>3. Box!Ids' = Box!Ids /\ \A g : Box!Chosen(g)' = Box!Chosen(g)
    BY <1>1 DEF Box!Chosen, Box!Ids
  <1>4. \A n, g : Box!Place(n, g)' = Box!Place(n, g)
    BY <1>3 DEF Box!Place
  <1>5. 0 <= Cardinality(Box!Ids) /\ \A n \in Box!Chosen(f) : 0 <= Box!Place(n, f)
    BY PlacedRows DEF Placed
  <1>6. /\ w.on /\ w.filter = f /\ w.skip = 0 /\ w.seen = {} /\ w.start = Box!Chosen(f) /\ w.total = 0
        /\ w.stage = "count"
    OBVIOUS
  <1> HIDE DEF w
  <1>7. Ahead(walk)'
    BY <1>1, <1>3, <1>4, <1>5, <1>6 DEF Ahead
  <1> QED BY <1>1, <1>2, <1>7 DEF WalkInv

LEMMA CountHolds ==
  ASSUME RowsTyped, WalkInv, Box!CountRows
  PROVE  WalkInv'
  <1>1. walk.on /\ rows' = rows
    BY DEF Box!CountRows
  <1>2. walk \in Walks
    BY <1>1 DEF WalkInv, Box!NoWalk
  <1>3. PICK c \in Nat : c = Cardinality(Box!Ids)
    BY PlacedRows DEF Placed
  <1>4. walk' = [walk EXCEPT !.stage = "page", !.total = c]
    BY <1>3, BoxCardinality DEF Box!CountRows
  <1>5. walk' \in Walks
    BY <1>2, <1>4 DEF Walks
  <1>6. /\ walk'.stage = "page" /\ walk'.total = c
        /\ walk'.filter = walk.filter /\ walk'.skip = walk.skip /\ walk'.start = walk.start
        /\ walk'.seen = walk.seen /\ walk'.disturbed = walk.disturbed
    BY <1>2, <1>4 DEF Walks
  <1>7. Box!Ids' = Box!Ids /\ \A g : Box!Chosen(g)' = Box!Chosen(g)
    BY <1>1 DEF Box!Chosen, Box!Ids
  <1>8. \A n, g : Box!Place(n, g)' = Box!Place(n, g)
    BY <1>7 DEF Box!Place
  <1>9. Ahead(walk) => Ahead(walk)'
    BY <1>3, <1>6, <1>7, <1>8 DEF Ahead
  <1> QED BY <1>1, <1>5, <1>6, <1>9 DEF WalkInv

LEMMA PageHolds ==
  ASSUME Box!InboxAssumption, RowsTyped, WalkInv, Box!ReadPage
  PROVE  WalkInv'
  <1>1. walk.on /\ walk.stage = "page" /\ rows' = rows
    BY DEF Box!ReadPage
  <1>2. walk \in Walks
    BY <1>1 DEF WalkInv, Box!NoWalk
  <1>3. PICK f \in Filters, k \in Nat, t \in Nat : f = walk.filter /\ k = walk.skip /\ t = walk.total
    BY <1>2 DEF Walks
  <1>4. PICK c \in Nat : c = Cardinality(Box!Ids)
    BY PlacedRows DEF Placed
  <1> DEFINE P == Box!Page(f, k)
             next == IF k + Limit >= t THEN "done" ELSE "count"
  <1>5. walk' = [walk EXCEPT !.stage = next, !.skip = k + Limit, !.total = 0, !.late = c - t,
                             !.seen = walk.seen \cup P]
    <2>1. Box!ListResponse(f, k, t).notifications = P /\ Box!ListResponse(f, k, t).total = t
      BY DEF Box!ListResponse
    <2>2. Box!Cardinality(Box!Ids) = c
      BY <1>4, BoxCardinality
    <2> QED BY <1>3, <2>1, <2>2 DEF Box!ReadPage
  <1>6. P \in SUBSET Nat /\ Limit \in Nat /\ next \in {"count", "done"} /\ (next = "done" => k + Limit >= t)
    BY PlacedRows DEF Placed, Box!Page, Box!InboxAssumption
  <1>7. \A n \in Box!Chosen(f) : k <= Box!Place(n, f) /\ n \notin P => k + Limit <= Box!Place(n, f)
    <2>1. \A n \in Box!Chosen(f) : Box!Place(n, f) \in Nat
      BY PlacedRows DEF Placed
    <2> QED BY <1>6, <2>1 DEF Box!Page
  <1> HIDE DEF P, next
  <1>8. PICK s \in Nat, N \in SUBSET Nat, d \in Int : s = k + Limit /\ N = walk.seen \cup P /\ d = c - t
    <2>1. k + Limit \in Nat /\ c - t \in Int
      BY <1>6
    <2>2. walk.seen \cup P \in SUBSET Nat
      BY <1>2, <1>6 DEF Walks
    <2> QED BY <2>1, <2>2
  <1>9. walk' = [walk EXCEPT !.stage = next, !.skip = s, !.total = 0, !.late = d, !.seen = N]
    BY <1>5, <1>8
  <1>10. walk' \in Walks
    BY <1>2, <1>6, <1>9 DEF Walks
  <1>11. /\ walk'.on = walk.on /\ walk'.stage = next /\ walk'.filter = f /\ walk'.skip = s /\ walk'.total = 0
         /\ walk'.late = d /\ walk'.seen = N /\ walk'.disturbed = walk.disturbed /\ walk'.start = walk.start
    BY <1>2, <1>3, <1>9 DEF Walks
  <1>12. Box!Ids' = Box!Ids /\ \A g : Box!Chosen(g)' = Box!Chosen(g)
    BY <1>1 DEF Box!Chosen, Box!Ids
  <1>13. \A n, g : Box!Place(n, g)' = Box!Place(n, g)
    BY <1>12 DEF Box!Place
  <1>14. ASSUME ~walk.disturbed PROVE Ahead(walk)'
    <2>1. /\ walk.start \subseteq Box!Chosen(f) /\ \A n \in walk.start \ walk.seen : k <= Box!Place(n, f)
          /\ t <= c
      BY <1>1, <1>3, <1>4, <1>14 DEF WalkInv, Ahead
    <2>2. \A n \in walk.start \ N : s <= Box!Place(n, f)
      BY <1>7, <1>8, <2>1
    <2>3. ASSUME next = "done" PROVE Cardinality(walk.start \ N) <= d
      <3>1. t <= s
        BY <1>6, <1>8, <2>3
      <3>2. \A n \in walk.start \ N : t <= Box!Place(n, f)
        BY <2>1, <2>2, <3>1, PlacedRows DEF Placed
      <3>3. walk.start \ N \in SUBSET Box!Chosen(f)
        BY <2>1
      <3> QED BY <1>4, <1>8, <2>1, <3>2, <3>3, FewBehind
    <2> QED BY <1>4, <1>11, <1>12, <1>13, <2>1, <2>2, <2>3 DEF Ahead
  <1> QED BY <1>10, <1>11, <1>14 DEF WalkInv

(* Arrivals, and whatever leaves the rows alone. *)
LEMMA ArrivalHolds ==
  ASSUME RowsTyped, RowsTyped', WalkInv, walk' = walk,
         \A n \in Box!Ids : n \in Box!Ids' /\ rows'[n] = rows[n]
  PROVE  WalkInv'
  <1>1. ASSUME walk.on, ~walk.disturbed PROVE Ahead(walk)'
    <2>1. walk \in Walks /\ Ahead(walk)
      BY <1>1 DEF WalkInv, Box!NoWalk
    <2>2. PICK f \in Filters, k \in Nat : f = walk.filter /\ k = walk.skip
      BY <2>1 DEF Walks
    <2>3. walk.start \subseteq Box!Chosen(f)'
      BY <2>1, <2>2, PlacesGrow DEF Ahead
    <2>4. ASSUME NEW n \in walk.start \ walk.seen PROVE k <= Box!Place(n, f)'
      <3>1. k <= Box!Place(n, f) /\ Box!Place(n, f) \in Nat /\ Box!Place(n, f) <= Box!Place(n, f)'
        BY <2>1, <2>2, PlacedRows, PlacesGrow DEF Ahead, Placed
      <3>2. (RowsTyped => Placed)'
      BY PlacedRows, PTL
      <3>3. Box!Place(n, f)' \in Nat
        BY <3>2 DEF Placed
      <3> QED BY <3>1, <3>3
    <2>5. walk.total <= Cardinality(Box!Ids')
      <3>1. Box!Ids \subseteq Box!Ids' /\ walk.total \in Nat
        BY <2>1 DEF Walks
      <3>2. (RowsTyped => Placed)'
        BY PlacedRows, PTL
      <3>3. IsFiniteSet(Box!Ids') /\ Cardinality(Box!Ids') \in Nat
        BY <3>2 DEF Placed
      <3>4. Cardinality(Box!Ids) <= Cardinality(Box!Ids') /\ Cardinality(Box!Ids) \in Nat
        BY <3>1, <3>3, FS_Subset, FS_CardinalityType
      <3> QED BY <2>1, <3>1, <3>3, <3>4 DEF Ahead
    <2> QED BY <2>1, <2>2, <2>3, <2>4, <2>5 DEF Ahead
  <1> QED BY <1>1 DEF WalkInv

(* Whoever reads or deletes rows disturbs the walk. *)
LEMMA DisturbedHolds ==
  ASSUME WalkInv, Box!Disturb
  PROVE  WalkInv'
  <1>1. CASE walk.on
    <2>1. walk \in Walks
      BY <1>1 DEF WalkInv, Box!NoWalk
    <2>2. walk' = [walk EXCEPT !.disturbed = TRUE]
      BY <1>1 DEF Box!Disturb
    <2>3. walk' \in Walks /\ walk'.disturbed
      BY <2>1, <2>2 DEF Walks
    <2> QED BY <2>3 DEF WalkInv
  <1>2. CASE ~walk.on
    <2>1. walk' = walk
      BY <1>2 DEF Box!Disturb
    <2> QED BY <1>2, <2>1 DEF WalkInv
  <1> QED BY <1>1, <1>2

LEMMA WalkStays ==
  Box!InboxAssumption /\ BoxTypes /\ BoxTypes' /\ WalkInv /\ [Box!Next]_(Box!vars) => WalkInv'
  <1> SUFFICES ASSUME Box!InboxAssumption, BoxTypes, BoxTypes', WalkInv, [Box!Next]_(Box!vars) PROVE WalkInv'
    OBVIOUS
  <1>1. RowsTyped /\ RowsTyped'
    BY DEF BoxTypes
  <1>2. ASSUME UNCHANGED <<rows, walk>> PROVE WalkInv'
    BY <1>1, <1>2, ArrivalHolds DEF Box!Ids
  <1>3. ASSUME NEW r \in Requests, Box!Serve(r) PROVE WalkInv'
    <2>1. CASE \/ Box!CommitRead(r) \/ Box!CommitDelete(r) \/ Box!CommitAllRead(r) \/ Box!CommitOld(r)
      BY <2>1, DisturbedHolds DEF Box!CommitRead, Box!CommitDelete, Box!CommitAllRead, Box!CommitOld
    <2>2. ASSUME NEW k \in Box!Kinds, Box!CreateNotification(k), walk' = walk PROVE WalkInv'
      <3>1. \A n \in Box!Ids : n \in Box!Ids' /\ rows'[n] = rows[n]
        BY <1>1, <2>2, Created DEF BoxTypes
      <3> QED BY <1>1, <2>2, <3>1, ArrivalHolds
    <2>3. CASE Box!SendReminder(r)
      <3>1. req[r].kind \in Box!Kinds
        BY <2>3, WorkParts DEF Box!SendReminder, BoxTypes
      <3> QED BY <2>2, <2>3, <3>1 DEF Box!SendReminder
    <2>4. CASE Box!NotifyBudget(r)
      BY <2>2, <2>4 DEF Box!NotifyBudget, Box!Kinds
    <2>5. CASE \/ \E id \in Box!Ids : Box!Load(r, id)
               \/ Box!MarkAllRoute(r) \/ Box!LoadUnread(r) \/ Box!LoadOld(r) \/ Box!CheckLoans(r) \/ Box!CheckOverdue(r)
               \/ Box!CheckBudget(r) \/ Box!AlertBudget(r) \/ Box!Finish(r)
      BY <1>2, <2>5 DEF Box!Load, Box!MarkAllRoute, Box!LoadUnread, Box!LoadOld, Box!CheckLoans, Box!CheckOverdue,
         Box!CheckBudget, Box!AlertBudget, Box!Finish
    <2> QED BY <1>3, <2>1, <2>3, <2>4, <2>5 DEF Box!Serve
  <1>4. CASE UNCHANGED Box!vars \/ Box!PayLoan \/ (\E p \in Shares : Box!Spend(p)) \/ Box!DayPasses
    BY <1>2, <1>4 DEF Box!vars, Box!PayLoan, Box!Spend, Box!DayPasses
  <1>5. ASSUME NEW f \in Filters, Box!StartWalk(f) PROVE WalkInv'
    BY <1>1, <1>5, StartHolds
  <1>6. CASE Box!CountRows
    BY <1>1, <1>6, CountHolds
  <1>7. CASE Box!ReadPage
    BY <1>1, <1>7, PageHolds
  <1> QED BY <1>3, <1>4, <1>5, <1>6, <1>7 DEF Box!Next

(* Notifications, jobs and requests have their types, for any number of    *)
(* requests, rows and days, any page size and any filters.                 *)
THEOREM InboxTypeCorrect == Box!Spec => []Box!TypeOK
  <1>1. Box!InboxAssumption /\ BoxTypes => Box!TypeOK
    <2> SUFFICES ASSUME Box!InboxAssumption, BoxTypes PROVE Box!TypeOK
      OBVIOUS
    <2>1. Box!Ids \subseteq 1 .. MaxRows
      BY DEF BoxTypes, RowsTyped, Box!InboxAssumption
    <2>2. made \in [Box!Kinds -> 0 .. MaxRows]
      <3> SUFFICES ASSUME NEW k \in Box!Kinds PROVE made[k] \in 0 .. MaxRows
        BY DEF BoxTypes, RowsTyped
      <3>1. DOMAIN made = Box!Kinds /\ \A j \in Box!Kinds : made[j] \in Nat
        BY DEF BoxTypes, RowsTyped
      <3>2. Box!Made = made[k] + SumFunctionOnSet(made, Box!Kinds \ {k})
        BY <3>1, MadeIsSum, KindsFinite, SumRemove
      <3>3. IsFiniteSet(Box!Kinds \ {k})
        BY KindsFinite, FS_Subset
      <3>4. SumFunctionOnSet(made, Box!Kinds \ {k}) \in Nat
        BY <3>1, <3>3, SumNat
      <3> QED BY <3>1, <3>2, <3>4 DEF BoxTypes, RowsTyped, Box!InboxAssumption
    <2>3. \A r \in Requests : req[r].at \in {"idle", "loaded", "unread", "old", "remind", "budget", "alert", "answered"}
      BY WorkParts DEF BoxTypes
    <2> QED BY <2>1, <2>2, <2>3 DEF BoxTypes, RowsTyped, Notification, Box!TypeOK
  <1> QED BY <1>1, BoxTypesBegin, BoxTypesStay, InboxAssumption, PTL DEF Box!Spec, InboxAssumption

(* A client of GET /notifications that asks for page after page, by        *)
(* offsets into a list that grows meanwhile, misses no more of those that  *)
(* were there when it began than arrived between the two queries of its    *)
(* last request, unless one is read or deleted before it has come to the   *)
(* end: none, if none arrived just then.                                   *)
THEOREM PagesMissOnlyLate == Box!Spec => []WalkMissesOnlyLate
  <1>1. WalkInv => WalkMissesOnlyLate
    BY BoxCardinality DEF WalkInv, Ahead, WalkMissesOnlyLate, Box!WalkMissesOnlyLate
  <1> QED BY <1>1, BoxTypesBegin, BoxTypesStay, WalkStays, InboxAssumption, PTL DEF Box!Spec, InboxAssumption

-----------------------------------------------------------------------------
(* Goals and notifications run as their modules say; what else MCSavings   *)
(* asks of a step only bounds what TLC explores.                           *)
savingsVars == <<vars, service, boxVars>>

LEMMA SavingsRuns ==
  ASSUME [SavingsNext]_savingsVars
  PROVE  /\ service' = service
         /\ service = "goals" => [Next]_vars
         /\ service # "goals" => [Box!Next]_(Box!vars)
  <1>1. CASE UNCHANGED savingsVars
    BY <1>1 DEF savingsVars, vars, boxVars, Box!vars
  <1>2. CASE GoalStep
    BY <1>2 DEF GoalStep
  <1>3. CASE InboxStep \/ PagerStep
    BY <1>3 DEF InboxStep, PagerStep
  <1> QED BY <1>1, <1>2, <1>3 DEF SavingsNext

(* The composition adds nothing to the goals or to the notifications. *)
THEOREM SavingsAlone == SavingsSpec => (service = "goals" => Spec) /\ (~(service = "goals") => Box!Spec)
  <1>1. service = "goals" /\ [SavingsNext]_savingsVars => (service = "goals")' /\ [Next]_vars
    BY SavingsRuns
  <1>2. ~(service = "goals") /\ [SavingsNext]_savingsVars => ~(service = "goals")' /\ [Box!Next]_(Box!vars)
    BY SavingsRuns
  <1>3. SavingsInit => Init /\ Box!Init
    BY DEF SavingsInit
  <1> QED BY <1>1, <1>2, <1>3, PTL DEF SavingsSpec, savingsVars, Spec, Box!Spec

(* Whichever runs, rows and requests have their types. *)
THEOREM SavingsTypeCorrect == SavingsSpec => []SavingsTypeOK
  <1>1. service = "goals" /\ [SavingsNext]_savingsVars => (service = "goals")'
    BY SavingsRuns
  <1>2. ~(service = "goals") /\ [SavingsNext]_savingsVars => ~(service = "goals")'
    BY SavingsRuns
  <1>3. service = "goals" /\ TypeOK => SavingsTypeOK
    BY DEF SavingsTypeOK
  <1>4. ~(service = "goals") /\ Box!TypeOK => SavingsTypeOK
    BY DEF SavingsTypeOK
  <1> QED BY <1>1, <1>2, <1>3, <1>4, SavingsAlone, GoalTypeCorrect, InboxTypeCorrect, PTL DEF SavingsSpec, savingsVars
=============================================================================
