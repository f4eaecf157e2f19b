---------------------------- MODULE GoalTracker ----------------------------
(***************************************************************************)
(* One user's savings goals: GoalService behind the goal routes, and       *)
(* GoalNotificationService, which announces milestones and goals that lag  *)
(* behind.  The query and the commit of a request are two steps and        *)
(* nothing is locked.  GoalService's second half defines its methods a     *)
(* second time; those definitions count.                                   *)
(*                                                                         *)
(* Left out: names, types and priorities of goals, negative amounts, which *)
(* only an edit accepts, fractions of a percent, and e-mail, which is      *)
(* never sent since a profile has no address.                              *)
(***************************************************************************)
EXTENDS Integers, FiniteSets, FiniteSetsExt

CONSTANTS Requests,   \* requests of the user served at the same time
          Goals,      \* goal ids
          Targets,    \* target amounts, cents; a target below half a cent is 0
          Amounts,    \* amounts of progress, cents
          Dues,       \* target dates, days
          MaxDay,     \* bound on the days that pass
          MaxNotices  \* bound on the notices about one goal

ASSUME GoalAssumption ==
  /\ IsFiniteSet(Goals)
  /\ Targets \subseteq Nat /\ Amounts \subseteq Nat /\ Dues \subseteq Nat
  /\ MaxDay \in Nat /\ MaxNotices \in Nat

Statuses == {"active", "completed", "paused", "abandoned"}
Milestones == {25, 50, 75, 100}

VARIABLES
  goals,    \* the goals table
  req,      \* what each request has read
  day,      \* today
  notices,  \* notifications of each goal: how often each was created
  past      \* history: the least target and the highest amount a goal had,
            \* and whether its status is the client's choice

vars == <<goals, req, day, notices, past>>

NoGoal(s) == [status |-> s, target |-> 0, amount |-> 0, due |-> 0, born |-> 0]
Exists(g) == goals[g].status \in Statuses
Idle == [at |-> "idle"]
OffTrack == 0
Kinds == {OffTrack} \cup Milestones

Init ==
  /\ goals = [g \in Goals |-> NoGoal("new")]
  /\ req = [r \in Requests |-> Idle]
  /\ day = 0
  /\ notices = [g \in Goals |-> [k \in Kinds |-> 0]]
  /\ past = [g \in Goals |-> [low |-> 0, top |-> 0, chosen |-> FALSE]]

Continue(r, next) == req' = [req EXCEPT ![r] = next]

(* The columns of `old' that `new' changes, written over what is there.    *)
Written(current, old, new) ==
  [c \in DOMAIN current |-> IF new[c] # old[c] THEN new[c] ELSE current[c]]

Remember(g, row, chosen) ==
  past' = [past EXCEPT ![g] =
    [low |-> Min({@.low, row.target}), top |-> Max({@.top, row.amount}),
     chosen |-> IF row.status # goals[g].status THEN chosen ELSE @.chosen]]

-----------------------------------------------------------------------------
(* The goal routes *)

CreateGoal(r, g, t, due) ==
  /\ req[r] = Idle
  /\ goals[g].status = "new"
  /\ due > day
  /\ goals' = [goals EXCEPT ![g] =
       [status |-> "active", target |-> t, amount |-> 0, due |-> due, born |-> day]]
  /\ past' = [past EXCEPT ![g] = [low |-> t, top |-> 0, chosen |-> FALSE]]
  /\ UNCHANGED <<req, day, notices>>

(* get_goal, which every change begins with. *)
LoadGoal(r, g) ==
  /\ req[r] = Idle
  /\ Exists(g)
  /\ Continue(r, [at |-> "loaded", goal |-> g, row |-> goals[g]])
  /\ UNCHANGED <<goals, day, notices, past>>

(* PUT /goals/{goal_id}: the columns named, checked against nothing.       *)
Edits(row) ==
  [status : {row.status} \cup Statuses, target : {row.target} \cup Targets,
   amount : {row.amount} \cup Amounts, due : {row.due} \cup Dues, born : {row.born}]

(* The UPDATE of a row that is gone matches none, and fails the request.   *)
CommitRow(r, new, chosen) ==
  LET g == req[r].goal
      row == Written(goals[g], req[r].row, new)
  IN  /\ IF Exists(g) THEN /\ goals' = [goals EXCEPT ![g] = row]
                           /\ Remember(g, row, chosen)
                      ELSE UNCHANGED <<goals, past>>
      /\ Continue(r, Idle)
      /\ UNCHANGED <<day, notices>>

CommitEdit(r, edit) ==
  /\ req[r].at = "loaded"
  /\ edit \in Edits(req[r].row)
  /\ CommitRow(r, edit, TRUE)

(* Mutant: adds the amount to the one there was, to compare it.            *)
AchievedBySum(row, amount) == row.amount + amount >= row.target

(* "Check if goal is achieved", by the target that was loaded.             *)
Achieved(row, amount) == amount >= row.target

(* PUT /goals/{goal_id}/progress. *)
CommitProgress(r, amount) ==
  LET row == [req[r].row EXCEPT !.amount = amount] IN
  /\ req[r].at = "loaded"
  /\ CommitRow(r, IF Achieved(req[r].row, amount) THEN [row EXCEPT !.status = "completed"] ELSE row,
               FALSE)

(* Mutant: keeps the row, as archived. *)
CommitDeleteMarks(r) ==
  LET g == req[r].goal IN
  /\ req[r].at = "loaded"
  /\ goals' = [goals EXCEPT ![g].status = "archived"]
  /\ Continue(r, Idle)
  /\ UNCHANGED <<day, notices, past>>

(* DELETE /goals/{goal_id}; a second one that has loaded the row goes on.  *)
CommitDelete(r) ==
  LET g == req[r].goal IN
  /\ req[r].at = "loaded"
  /\ goals' = [goals EXCEPT ![g] = NoGoal("deleted")]
  /\ Continue(r, Idle)
  /\ UNCHANGED <<day, notices, past>>

DayPasses ==
  /\ day < MaxDay
  /\ day' = day + 1
  /\ UNCHANGED <<goals, req, notices, past>>

-----------------------------------------------------------------------------
(* What the routes show *)

Percent(g) == IF goals[g].target > 0 THEN (goals[g].amount * 100) \div goals[g].target ELSE 0

DaysRemaining(g) == Max({0, goals[g].due - day})

(* get_goal_progress: the share saved is compared with the share of the    *)
(* time that remains.                                                      *)
GoalProgress(g) ==
  LET row == goals[g]
      span == row.due - row.born
      remaining == Max({0, row.target - row.amount})
  IN  [percent |-> Percent(g),
       remaining |-> remaining,
       days |-> DaysRemaining(g),
       monthly |-> remaining \div Max({1, DaysRemaining(g) \div 30}),
       onTrack |-> span > 0 /\ (IF row.target > 0 THEN row.amount * span >= DaysRemaining(g) * row.target
                                                  ELSE DaysRemaining(g) = 0)]

(* get_goals_summary: over the active goals. *)
GoalsSummary ==
  LET gs == {g \in Goals : goals[g].status = "active"}
      target == SumFunction([g \in gs |-> goals[g].target])
      amount == SumFunction([g \in gs |-> goals[g].amount])
  IN  [count |-> Cardinality(gs), target |-> target, amount |-> amount,
       percent |-> IF target > 0 THEN (amount * 100) \div target ELSE 0]

(* get_goals_progress, the assistant's tool: every goal, whatever its      *)
(* status, and percentages that pass 100.                                  *)
ToolGoals == {[goal |-> g, percent |-> Percent(g)] : g \in {g \in Goals : Exists(g)}}

-----------------------------------------------------------------------------
(* GoalNotificationService *)

(* get_goal_progress_percent, in whole percents. *)
CappedPercent(row) == IF row.target = 0 THEN 0 ELSE Min({100, (row.amount * 100) \div row.target})

(* check_milestone_progress: within a percent of a milestone, on either    *)
(* side of it.                                                             *)
IsMilestone(row) ==
  \E m \in Milestones :
    LET scaled == IF row.target = 0 THEN 0 ELSE Min({100 * row.target, row.amount * 100})
        off == scaled - m * row.target
    IN  row.target > 0 /\ off < row.target /\ -off < row.target

(* Mutant: the milestone that is nearest. *)
MilestoneNearest(row) ==
  LET reached == {m \in Milestones : row.amount * 100 >= (m - 1) * row.target} IN
  IF row.target = 0 \/ reached = {} THEN 0 ELSE Max(reached)

(* The one that send_milestone_notification announces: the highest that    *)
(* the progress has reached; 0 if none.                                    *)
Milestone(row) ==
  LET reached == {m \in Milestones : row.amount * 100 >= m * row.target} IN
  IF row.target = 0 \/ reached = {} THEN 0 ELSE Max(reached)

CheckMilestone(r, g) ==
  /\ req[r] = Idle
  /\ Exists(g)
  /\ IsMilestone(goals[g])
  /\ Continue(r, [at |-> "milestone", goal |-> g, milestone |-> Milestone(goals[g])])
  /\ UNCHANGED <<goals, day, notices, past>>

(* One more notification, whether or not the same was there.  It is not    *)
(* tied to the goal, which may be gone.                                    *)
Notify(g, k) == notices' = [notices EXCEPT ![g][k] = @ + 1]
Quiet(g, k) == notices[g][k] < MaxNotices

SendMilestone(r) ==
  /\ req[r].at = "milestone"
  /\ IF req[r].milestone = 0 THEN UNCHANGED notices
     ELSE Quiet(req[r].goal, req[r].milestone) /\ Notify(req[r].goal, req[r].milestone)
  /\ Continue(r, Idle)
  /\ UNCHANGED <<goals, day, past>>

(* Mutant: expects what the remaining time says. *)
ExpectedOfRemaining(row) ==
  IF row.due <= row.born THEN 100 ELSE ((row.due - day) * 100) \div (row.due - row.born)

(* "Calculate expected progress based on time elapsed". *)
Expected(row) ==
  IF row.due <= row.born THEN 100 ELSE ((day - row.born) * 100) \div (row.due - row.born)

(* check_goals_on_track: "10% buffer". *)
OnTrack(row) == CappedPercent(row) >= Expected(row) - 10

(* send_off_track_alerts: the goals are read at once and the alerts are    *)
(* committed one by one.                                                   *)
CheckOnTrack(r) ==
  LET behind == {g \in Goals : goals[g].status = "active" /\ ~OnTrack(goals[g])} IN
  /\ req[r] = Idle
  /\ behind # {}
  /\ Continue(r, [at |-> "alert", behind |-> behind])
  /\ UNCHANGED <<goals, day, notices, past>>

SendAlert(r, g) ==
  /\ req[r].at = "alert"
  /\ g \in req[r].behind
  /\ Quiet(g, OffTrack)
  /\ Notify(g, OffTrack)
  /\ Continue(r, IF req[r].behind = {g} THEN Idle ELSE [req[r] EXCEPT !.behind = @ \ {g}])
  /\ UNCHANGED <<goals, day, past>>

(* get_goal_summary: over all goals, with capped shares. *)
NotifierSummary ==
  LET gs == {g \in Goals : Exists(g)}
      in(s) == Cardinality({g \in gs : goals[g].status = s})
  IN  [total |-> Cardinality(gs), active |-> in("active"), completed |-> in("completed"),
       paused |-> in("paused"),
       average |-> IF gs = {} THEN 0
                   ELSE SumFunction([g \in gs |-> CappedPercent(goals[g])]) \div Cardinality(gs)]

(* What the services show of the same rows fits together.                  *)
Shown ==
  /\ NotifierSummary.active = GoalsSummary.count
  /\ NotifierSummary.total = Cardinality(ToolGoals)
  /\ \A x \in ToolGoals :
       GoalProgress(x.goal).remaining = 0 => x.percent >= 100 \/ goals[x.goal].target = 0
  /\ NotifierSummary.average <= 100

Serve(r) ==
  \/ \E g \in Goals, t \in Targets, d \in Dues : CreateGoal(r, g, t, d)
  \/ \E g \in Goals : LoadGoal(r, g)
  \/ req[r].at = "loaded" /\ \E edit \in Edits(req[r].row) : CommitEdit(r, edit)
  \/ \E a \in Amounts : CommitProgress(r, a)
  \/ CommitDelete(r)

Announce(r) ==
  \/ \E g \in Goals : CheckMilestone(r, g)
  \/ SendMilestone(r)
  \/ CheckOnTrack(r)
  \/ \E g \in Goals : SendAlert(r, g)

Next == (\E r \in Requests : Serve(r) \/ Announce(r)) \/ DayPasses

Spec == Init /\ [][Next]_vars

-----------------------------------------------------------------------------

Rows == [status : Statuses \cup {"new", "deleted"}, target : Nat, amount : Nat, due : Nat, born : 0 .. MaxDay]

(* Rows, requests and notices have their types, and what is shown of them  *)
(* fits together.                                                          *)
TypeOK ==
  /\ goals \in [Goals -> Rows]
  /\ req \in [Requests -> {Idle} \cup [at : {"loaded"}, goal : Goals, row : Rows]
                          \cup [at : {"milestone"}, goal : Goals, milestone : Milestones \cup {0}]
                          \cup [at : {"alert"}, behind : SUBSET Goals]]
  /\ day \in 0 .. MaxDay
  /\ notices \in [Goals -> [Kinds -> 0 .. MaxNotices]]
  /\ past \in [Goals -> [low : Nat, top : Nat, chosen : BOOLEAN]]
  /\ Shown

(* A goal that is completed, and that no client declared completed, had    *)
(* reached a target it had: maybe not its present one, since neither an    *)
(* edit nor an overlapping request takes the status back.                  *)
CompletionEarned ==
  \A g \in Goals : (goals[g].status = "completed" /\ ~past[g].chosen) => past[g].top >= past[g].low

(* A milestone that was announced had been reached, by some amount and     *)
(* some target the goal had.                                               *)
AnnouncedWasReached ==
  \A g \in Goals, m \in Milestones :
    notices[g][m] > 0 => past[g].top * 100 >= m * past[g].low

(* Waiting does not bring a goal back on track. *)
BehindStaysBehind ==
  [][\A g \in Goals :
       (day' > day /\ Exists(g) /\ ~OnTrack(goals[g])) => ~OnTrack(goals[g])']_vars

=============================================================================
