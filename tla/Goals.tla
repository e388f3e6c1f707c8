-------------------------------- MODULE Goals --------------------------------
(***************************************************************************)
(* A goal of one user of GUMMY OS, its milestones, and a task that works   *)
(* towards it.  A request loads the rows it is about, changes its copies,  *)
(* and writes the columns it changed when it commits: a column it sets to  *)
(* the value it loaded is not written.  Progress is derived from the       *)
(* milestones that a request can see, its own among them.                  *)
(*                                                                         *)
(* Operators whose name has an underscore are faulty variants of the       *)
(* definition they precede; no specification uses them.                    *)
(***************************************************************************)
EXTENDS Integers, FiniteSets

CONSTANTS
  Milestone,   \* milestones the goal may have
  Request,     \* requests the process can serve at a time
  Manual,      \* percentages a user may set
  Targets,     \* statuses a user may give the goal or the task
  MaxCommits   \* bound on the commits of a behaviour

VARIABLES
  goal,        \* the goals row
  milestones,  \* the goal_milestones rows: absent, open or done
  tasked,      \* the tasks row
  edit,        \* what each request has loaded and is about to write
  closed,      \* whether the task has been done or cancelled
  muddled,     \* what overlapping requests wrote last
  writes

goalVars == <<goal, milestones, tasked, edit, closed, muddled, writes>>

(* What is assumed of the constants.                                       *)
Assumption ==
  /\ Milestone # {} /\ IsFiniteSet(Milestone)
  /\ Manual \subseteq 0..100
  /\ MaxCommits \in Nat

GoalStatus == { "active", "completed", "archived" }
Terminal == { "done", "cancelled" }
TaskStatus == { "pending", "in_progress", "blocked" } \cup Terminal

Goal == [ status : GoalStatus \cup {"none", "deleted"}, stamped : BOOLEAN,
          progress : 0..100 ]
Task == [ status : TaskStatus \cup {"none"}, linked : BOOLEAN ]

NoGoal == [ status |-> "none", stamped |-> FALSE, progress |-> 0 ]
NoTask == [ status |-> "none", linked |-> FALSE ]
SomeMilestone == CHOOSE m \in Milestone : TRUE

Rest == [ op |-> "rest", seen |-> NoGoal, to |-> "none", on |-> SomeMilestone,
          count |-> 0, late |-> FALSE ]

Init ==
  /\ goal = NoGoal
  /\ milestones = [m \in Milestone |-> "absent"]
  /\ tasked = NoTask
  /\ edit = [r \in Request |-> Rest]
  /\ closed = FALSE /\ muddled = {}
  /\ writes = 0

-----------------------------------------------------------------------------
Exists == goal.status \in GoalStatus
Doing(r, ops) == edit[r].op \in ops

(* Of the goal, a request remembers the columns it may write.              *)
Seen(op) ==
  CASE op = "status" -> [goal EXCEPT !.progress = 0]
    [] op \in {"progress", "milestone"} -> [NoGoal EXCEPT !.progress = goal.progress]
    [] OTHER -> NoGoal

Loads(r, op, to, m, count) ==
  /\ Doing(r, {"rest"})
  /\ edit' = [edit EXCEPT ![r] = [op |-> op, seen |-> Seen(op), to |-> to, on |-> m,
                                  count |-> count, late |-> FALSE]]
  /\ UNCHANGED <<goal, milestones, tasked, closed, muddled, writes>>

(* Whoever is about to write the same rows does so on a copy that is old.  *)
GoalOps == { "status", "progress", "milestone", "counted", "delete" }
Commits(r, ops) ==
  /\ writes < MaxCommits
  /\ writes' = writes + 1
  /\ edit' = [q \in Request |->
       IF q = r THEN Rest
       ELSE [edit[q] EXCEPT !.late = @ \/ edit[q].op \in ops]]

Muddles(r, what) ==
  muddled' = IF edit[r].late THEN muddled \cup {what} ELSE muddled \ {what}

Fails(r) ==
  /\ ~Doing(r, {"rest"})
  /\ edit' = [edit EXCEPT ![r] = Rest]
  /\ UNCHANGED <<goal, milestones, tasked, closed, muddled, writes>>

-----------------------------------------------------------------------------
(* Goals: created by the user, or from a candidate the user accepts.       *)
CreateGoal(progress) ==
  /\ goal.status = "none"
  /\ goal' = [status |-> "active", stamped |-> FALSE, progress |-> progress]
  /\ UNCHANGED <<milestones, tasked, edit, closed, muddled, writes>>

(* An update, a completion or an archiving sets the status and keeps the   *)
(* time of completion in step with it.                                     *)
SetStatus(r, to) == Exists /\ Loads(r, "status", to, SomeMilestone, 0)

Stamped(to, row, seen) ==
  IF to = "completed" THEN TRUE
  ELSE row.stamped /\ ~seen.stamped

CommitStatus(r) ==
  LET to == edit[r].to
  IN  /\ Doing(r, {"status"}) /\ Exists
      /\ goal' = [goal EXCEPT
           !.status = IF to = edit[r].seen.status THEN @ ELSE to,
           !.stamped = IF to = "completed" /\ edit[r].seen.stamped THEN @
                       ELSE Stamped(to, goal, edit[r].seen)]
      /\ Muddles(r, "status") /\ Commits(r, GoalOps)
      /\ UNCHANGED <<milestones, tasked, closed>>

(* A percentage set by hand is dropped when there are milestones.          *)
Present == {m \in Milestone : milestones[m] # "absent"}

SetProgress(r, percentage) ==
  Exists /\ Loads(r, "progress", IF Present = {} THEN "set" ELSE "dropped",
                  SomeMilestone, percentage)

Written(row, seen, percentage) ==
  IF percentage = seen.progress THEN row
  ELSE [row EXCEPT !.progress = percentage]

CommitProgress(r) ==
  /\ Doing(r, {"progress"}) /\ Exists
  /\ IF edit[r].to = "set"
     THEN /\ goal' = Written(goal, edit[r].seen, edit[r].count)
          /\ Muddles(r, "progress")
     ELSE UNCHANGED <<goal, muddled>>
  /\ Commits(r, GoalOps)
  /\ UNCHANGED <<milestones, tasked, closed>>

(* A deleted goal takes its milestones with it; its tasks lose the link.   *)
DeleteGoal(r) == Exists /\ Loads(r, "delete", "none", SomeMilestone, 0)

CommitDelete(r) ==
  /\ Doing(r, {"delete"})
  /\ goal' = [goal EXCEPT !.status = "deleted"]
  /\ milestones' = [m \in Milestone |-> "absent"]
  /\ tasked' = [tasked EXCEPT !.linked = FALSE]
  /\ Commits(r, GoalOps)
  /\ UNCHANGED <<closed, muddled>>

-----------------------------------------------------------------------------
(* Milestones are added, checked, unchecked and deleted.  The request then *)
(* counts, flushing its own change first, and writes the progress.         *)
ChangeMilestone(r, m, to) ==
  /\ Exists
  /\ to = "open" \/ milestones[m] # "absent"
  /\ Loads(r, "milestone", to, m, 0)

Done(marks) == {m \in Milestone : marks[m] = "done"}

(* Rounded to the nearest percentage, and from the middle to the even one. *)
Share(marks) ==
  LET total == Cardinality({m \in Milestone : marks[m] # "absent"})
      hundreds == 100 * Cardinality(Done(marks))
      floor == hundreds \div total
      excess == 2 * (hundreds % total)
  IN  IF excess > total \/ (excess = total /\ floor % 2 = 1) THEN floor + 1
      ELSE floor

(* With no milestone left, the progress stays what it was.                 *)
Recomputed_Always(marks, seen) ==
  IF Done(marks) = {} THEN 0 ELSE seen.progress

Recomputed(marks, seen) ==
  IF \A m \in Milestone : marks[m] = "absent" THEN seen.progress
  ELSE Share(marks)

Mine(r) == [milestones EXCEPT ![edit[r].on] = edit[r].to]
InUse(m) == \E q \in Request : Doing(q, {"counted"}) /\ edit[q].on = m

CountMilestones(r) ==
  /\ Doing(r, {"milestone"}) /\ Exists
  /\ ~InUse(edit[r].on)
  /\ edit' = [edit EXCEPT ![r].op = "counted",
                          ![r].count = Recomputed(Mine(r), edit[r].seen)]
  /\ UNCHANGED <<goal, milestones, tasked, closed, muddled, writes>>

CommitMilestone(r) ==
  /\ Doing(r, {"counted"}) /\ Exists
  /\ milestones' = Mine(r)
  /\ goal' = Written(goal, edit[r].seen, edit[r].count)
  /\ Muddles(r, "progress") /\ Commits(r, GoalOps)
  /\ UNCHANGED <<tasked, closed>>

-----------------------------------------------------------------------------
(* A task is created pending and edited from any open state to any state.  *)
CreateTask(linked) ==
  /\ tasked.status = "none" /\ (linked => Exists)
  /\ tasked' = [status |-> "pending", linked |-> linked]
  /\ UNCHANGED <<goal, milestones, edit, closed, muddled, writes>>

LinkTask ==
  /\ tasked.status # "none" /\ Exists
  /\ tasked' = [tasked EXCEPT !.linked = TRUE]
  /\ UNCHANGED <<goal, milestones, edit, closed, muddled, writes>>

Allowed(current, target) == current = target \/ current \notin Terminal

UpdateTask(r, to) ==
  /\ tasked.status # "none" /\ Allowed(tasked.status, to)
  /\ Loads(r, "task", to, SomeMilestone, 0)

CommitTask(r) ==
  /\ Doing(r, {"task"})
  /\ tasked' = [tasked EXCEPT !.status = edit[r].to]
  /\ closed' = (closed \/ edit[r].to \in Terminal)
  /\ muddled' = IF edit[r].late THEN muddled \cup {"task"} ELSE muddled
  /\ Commits(r, {"task"})
  /\ UNCHANGED <<goal, milestones>>

-----------------------------------------------------------------------------
Next ==
  \/ \E percentage \in Manual : CreateGoal(percentage)
  \/ (\E linked \in BOOLEAN : CreateTask(linked)) \/ LinkTask
  \/ \E r \in Request :
       \/ (\E to \in Targets \cap GoalStatus : SetStatus(r, to)) \/ CommitStatus(r)
       \/ (\E percentage \in Manual : SetProgress(r, percentage))
       \/ CommitProgress(r)
       \/ DeleteGoal(r) \/ CommitDelete(r)
       \/ (\E m \in Milestone, to \in {"absent", "open", "done"} :
             ChangeMilestone(r, m, to))
       \/ CountMilestones(r) \/ CommitMilestone(r)
       \/ (\E to \in Targets \cap TaskStatus : UpdateTask(r, to)) \/ CommitTask(r)
       \/ Fails(r)

Spec == Init /\ [][Next]_goalVars

-----------------------------------------------------------------------------
TypeOK ==
  /\ goal \in Goal /\ tasked \in Task
  /\ milestones \in [Milestone -> {"absent", "open", "done"}]
  /\ edit \in [Request ->
       [ op : {"rest", "task"} \cup GoalOps, seen : Goal,
         to : {"none", "set", "dropped", "absent", "open"} \cup GoalStatus
                \cup TaskStatus,
         on : Milestone, count : 0..100, late : BOOLEAN ]]
  /\ closed \in BOOLEAN /\ muddled \subseteq {"status", "progress", "task"}
  /\ writes \in 0..MaxCommits

(* The goal adds up.  Unless the last requests to write it overlapped, a   *)
(* goal with milestones shows the share of them that is done, and has a    *)
(* time of completion just when it is completed; a task that was done or   *)
(* cancelled stays so; and nothing is left linked to a goal that is gone.  *)
GoalsAddUp ==
  /\ Exists /\ Present # {} /\ "progress" \notin muddled =>
       goal.progress = Share(milestones)
  /\ Exists /\ "status" \notin muddled =>
       (goal.stamped <=> goal.status = "completed")
  /\ closed /\ "task" \notin muddled => tasked.status \in Terminal
  /\ ~Exists => Present = {} /\ ~tasked.linked
=============================================================================
