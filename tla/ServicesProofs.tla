--------------------------- MODULE ServicesProofs ---------------------------
(***************************************************************************)
(* Proofs about Services, for every value of its constants.  The agents,   *)
(* memories, sessions and files have modules of proofs of their own.  The  *)
(* parts proved here, one section each, are goals, the channel, what is    *)
(* learned from turns, and external servers.  A section puts the services  *)
(* together: a behaviour of all of them is, seen by the variables of one,  *)
(* a behaviour of that one, so what is proved of it stands.  The last one  *)
(* is about the cutting of a document that is indexed.                     *)
(***************************************************************************)
EXTENDS Services, FiniteSetTheorems, TLAPS

CONSTANTS Candidates, MinSimilarity, MaxSearchLimit, Multiplier
Documents == INSTANCE Documents

-----------------------------------------------------------------------------
(* GOALS.  An instance names the library's finite sets and cardinalities   *)
(* anew: they are the same.                                                *)

LEMMA GoalsFinite ==
  ASSUME NEW S
  PROVE  /\ Goals!IsFiniteSet(S) <=> IsFiniteSet(S)
         /\ Goals!Cardinality(S) = Cardinality(S)
  BY DEF Goals!IsFiniteSet, IsFiniteSet, Goals!Cardinality, Cardinality


-----------------------------------------------------------------------------
(* Percentages.                                                            *)

(* The quotient of a percentage lies between 0 and 100, and below 100 when *)
(* something is left over.                                                 *)
LEMMA Quotient ==
  ASSUME NEW c \in Nat, NEW t \in Nat, c <= t, t # 0
  PROVE  /\ (100 * c) \div t \in 0..100
         /\ (100 * c) % t # 0 => (100 * c) \div t < 100
         /\ (100 * c) % t \in 0..(t - 1)
<1>. DEFINE n == 100 * c
            q == n \div t
            d == n % t
<1>1. n \in Nat /\ n <= 100 * t
  OBVIOUS
<1>. HIDE DEF n
<1>2. q \in Int /\ d \in 0..(t - 1) /\ n = t * q + d
  BY <1>1
<1>. HIDE DEF q, d
<1>3. q >= 0
  <2>1. SUFFICES ASSUME q <= -1 PROVE FALSE
    BY <1>2
  <2>2. t * q <= t * (-1)
    BY <1>2, <2>1
  <2>. QED
    BY <1>1, <1>2, <2>2
<1>4. q <= 100
  <2>1. SUFFICES ASSUME q >= 101 PROVE FALSE
    BY <1>2
  <2>2. t * q >= t * 101
    BY <1>2, <2>1
  <2>. QED
    BY <1>1, <1>2, <2>2
<1>5. d # 0 => q # 100
  BY <1>1, <1>2
<1>. QED
  BY <1>2, <1>3, <1>4, <1>5 DEF n, q, d

(* The share of the milestones that is done is a percentage.               *)
LEMMA ShareIsPercentage ==
  ASSUME Goals!Assumption, NEW marks \in [Milestone -> {"absent", "open", "done"}],
         \E m \in Milestone : marks[m] # "absent"
  PROVE  Goals!Share(marks) \in 0..100
<1>. DEFINE present == {m \in Milestone : marks[m] # "absent"}
            t == Cardinality(present)
            c == Cardinality(Goals!Done(marks))
<1>1. IsFiniteSet(present) /\ Goals!Done(marks) \subseteq present /\ present # {}
  BY FS_Subset, GoalsFinite DEF Goals!Assumption, Goals!Done
<1>2. t \in Nat /\ c \in Nat /\ c <= t /\ t # 0
  BY <1>1, FS_Subset, FS_CardinalityType, FS_EmptySet
<1>. DEFINE q == (100 * c) \div t
            d == (100 * c) % t
<1>3. Goals!Share(marks) = IF 2 * d > t \/ (2 * d = t /\ q % 2 = 1) THEN q + 1 ELSE q
  BY GoalsFinite DEF Goals!Share
<1>4. q \in 0..100 /\ d \in 0..(t - 1) /\ (d # 0 => q < 100)
  BY <1>2, Quotient
<1>. HIDE DEF t, c, q, d
<1>. QED
  BY <1>2, <1>3, <1>4

-----------------------------------------------------------------------------
(* Types.  What a request is about to write depends on what it is about.   *)
Meant ==
  \A r \in Request :
    /\ Goals!Doing(r, {"status"}) => edit[r].to \in Goals!GoalStatus
    /\ Goals!Doing(r, {"milestone", "counted"}) =>
         edit[r].to \in {"absent", "open", "done"}
    /\ Goals!Doing(r, {"task"}) => edit[r].to \in Goals!TaskStatus

GoalsTyped == Goals!TypeOK /\ Meant

Edit == [ op : {"rest", "task"} \cup Goals!GoalOps, seen : Goals!Goal,
          to : {"none", "set", "dropped", "absent", "open"} \cup Goals!GoalStatus
                 \cup Goals!TaskStatus,
          on : Milestone, count : 0..100, late : BOOLEAN ]

LEMMA RestTyped == Goals!Assumption => Goals!Rest \in Edit /\ Goals!NoGoal \in Goals!Goal /\ Goals!NoTask \in Goals!Task
<1>. SUFFICES ASSUME Goals!Assumption PROVE Goals!Rest \in Edit /\ Goals!NoGoal \in Goals!Goal /\ Goals!NoTask \in Goals!Task
  OBVIOUS
<1>1. Goals!SomeMilestone \in Milestone
  BY DEF Goals!Assumption, Goals!SomeMilestone
<1>2. Goals!NoGoal \in Goals!Goal /\ Goals!NoTask \in Goals!Task
  BY DEF Goals!NoGoal, Goals!NoTask, Goals!Goal, Goals!Task
<1>3. Goals!Rest \in Edit
  BY <1>1, <1>2 DEF Goals!Rest, Edit
<1>. QED
  BY <1>2, <1>3

LEMMA GoalsTypeInit == Goals!Assumption /\ Goals!Init => GoalsTyped
<1>. SUFFICES ASSUME Goals!Assumption, Goals!Init PROVE GoalsTyped
  OBVIOUS
<1>1. edit \in [Request -> Edit]
  BY RestTyped DEF Goals!Init
<1>2. Goals!TypeOK
  <2>1. milestones \in [Milestone -> {"absent", "open", "done"}]
    BY DEF Goals!Init
  <2>2. writes \in 0..MaxWrites
    BY DEF Goals!Init, Goals!Assumption
  <2>3. goal \in Goals!Goal /\ tasked \in Goals!Task
    BY RestTyped DEF Goals!Init
  <2>4. closed \in BOOLEAN /\ muddled \subseteq {"status", "progress", "task"}
    BY DEF Goals!Init
  <2>. QED
    BY <1>1, <2>1, <2>2, <2>3, <2>4 DEF Goals!TypeOK, Edit
<1>3. \A r \in Request : edit[r].op = "rest"
  BY DEF Goals!Init, Goals!Rest
<1>4. Meant
  BY <1>3 DEF Meant, Goals!Doing
<1>. QED
  BY <1>2, <1>4 DEF GoalsTyped

(* What a load remembers.                                                  *)
LEMMA GoalsTypeLoads ==
  ASSUME Goals!Assumption, GoalsTyped, NEW r \in Request, NEW op \in Goals!GoalOps \cup {"task"},
         NEW to, NEW m \in Milestone, NEW count \in 0..100,
         Goals!Loads(r, op, to, m, count),
         to \in {"none", "set", "dropped", "absent", "open"} \cup Goals!GoalStatus
                  \cup Goals!TaskStatus,
         op = "status" => to \in Goals!GoalStatus,
         op \in {"milestone", "counted"} => to \in {"absent", "open", "done"},
         op = "task" => to \in Goals!TaskStatus
  PROVE  GoalsTyped'
<1>1. Goals!Seen(op) \in Goals!Goal
  <2>1. CASE op = "status"
    <3>1. Goals!Seen(op) = [goal EXCEPT !.progress = 0]
      BY <2>1 DEF Goals!Seen
    <3>. QED
      BY <3>1 DEF GoalsTyped, Goals!TypeOK, Goals!Goal
  <2>2. CASE op \in {"progress", "milestone"}
    <3>1. Goals!Seen(op) = [Goals!NoGoal EXCEPT !.progress = goal.progress]
      BY <2>2 DEF Goals!Seen
    <3>. QED
      BY <3>1, RestTyped DEF GoalsTyped, Goals!TypeOK, Goals!Goal
  <2>3. CASE op \notin {"status", "progress", "milestone"}
    <3>1. Goals!Seen(op) = Goals!NoGoal
      BY <2>3 DEF Goals!Seen
    <3>. QED
      BY <3>1, RestTyped
  <2>. QED
    BY <2>1, <2>2, <2>3
<1>2. Goals!TypeOK'
  BY <1>1 DEF Goals!Loads, GoalsTyped, Goals!TypeOK
<1>3. Meant'
  BY DEF Goals!Loads, GoalsTyped, Goals!TypeOK, Meant, Goals!Doing
<1>. QED
  BY <1>2, <1>3 DEF GoalsTyped

(* What a commit leaves of the requests.                                   *)
LEMMA GoalsTypeCommits ==
  ASSUME Goals!Assumption, GoalsTyped, NEW r \in Request, NEW ops, Goals!Commits(r, ops)
  PROVE  /\ Meant'
         /\ writes' \in 0..MaxWrites
         /\ edit' \in [Request -> Edit]
<1>0. writes' \in 0..MaxWrites
  BY DEF Goals!Assumption, Goals!Commits, GoalsTyped, Goals!TypeOK
<1>1. edit \in [Request -> Edit]
  BY DEF GoalsTyped, Goals!TypeOK, Edit
<1>2. edit'[r] = Goals!Rest
  BY DEF Goals!Commits
<1>3. ASSUME NEW q \in Request, q # r
      PROVE  /\ edit'[q] \in Edit
             /\ edit'[q].op = edit[q].op /\ edit'[q].to = edit[q].to
  <2>1. edit[q] \in Edit
    BY <1>1
  <2>2. (edit[q].late \/ edit[q].op \in ops) \in BOOLEAN
    OBVIOUS
  <2>3. edit'[q] = [edit[q] EXCEPT !.late = edit[q].late \/ edit[q].op \in ops]
    BY <1>3 DEF Goals!Commits
  <2>. QED
    BY <2>1, <2>2, <2>3 DEF Edit
<1>4. ASSUME NEW q \in Request PROVE edit'[q] \in Edit
  BY <1>2, <1>3, RestTyped
<1>5. edit' \in [Request -> Edit]
  BY <1>4 DEF Goals!Commits
<1>6. ASSUME NEW q \in Request
      PROVE  edit'[q].op = "rest" \/ (edit'[q].op = edit[q].op /\ edit'[q].to = edit[q].to)
  BY <1>2, <1>3 DEF Goals!Rest
<1>7. Meant'
  BY <1>6 DEF Meant, Goals!Doing, GoalsTyped
<1>. QED
  BY <1>0, <1>5, <1>7

(* Every step keeps the types.                                             *)
LEMMA GoalsTypeNext == Goals!Assumption /\ GoalsTyped /\ [Goals!Next]_goalVars => GoalsTyped'
<1>. SUFFICES ASSUME Goals!Assumption, GoalsTyped, [Goals!Next]_goalVars PROVE GoalsTyped'
  OBVIOUS
<1>. USE DEF GoalsTyped
<1>0. CASE UNCHANGED goalVars
  BY <1>0 DEF goalVars, Goals!TypeOK, Meant, Goals!Doing
<1>1. ASSUME NEW percentage \in Manual, Goals!CreateGoal(percentage) PROVE GoalsTyped'
  BY <1>1 DEF Goals!CreateGoal, Goals!TypeOK, Meant, Goals!Doing, Goals!Goal,
     Goals!Assumption, Goals!GoalStatus
<1>2. ASSUME NEW tied \in BOOLEAN, Goals!CreateTask(tied) PROVE GoalsTyped'
  BY <1>2 DEF Goals!CreateTask, Goals!TypeOK, Meant, Goals!Doing, Goals!Task,
     Goals!TaskStatus
<1>3. CASE Goals!LinkTask
  BY <1>3 DEF Goals!LinkTask, Goals!TypeOK, Meant, Goals!Doing, Goals!Task
<1>4. ASSUME NEW r \in Request, NEW to \in Targets \cap Goals!GoalStatus, Goals!SetStatus(r, to)
      PROVE GoalsTyped'
  BY <1>4, GoalsTypeLoads DEF Goals!SetStatus, Goals!SomeMilestone,
     Goals!Assumption, Goals!GoalOps
<1>5. ASSUME NEW r \in Request, Goals!CommitStatus(r) PROVE GoalsTyped'
  <2>1. goal' \in Goals!Goal
    BY <1>5 DEF Goals!CommitStatus, Goals!Stamped, Goals!TypeOK, Meant, Goals!Goal
  <2>2. muddled' \subseteq {"status", "progress", "task"}
    BY <1>5 DEF Goals!CommitStatus, Goals!Muddles, Goals!TypeOK
  <2>. QED
    BY <1>5, <2>1, <2>2, GoalsTypeCommits DEF Goals!CommitStatus, Goals!TypeOK,
       Edit
<1>6. ASSUME NEW r \in Request, NEW percentage \in Manual, Goals!SetProgress(r, percentage)
      PROVE GoalsTyped'
  BY <1>6, GoalsTypeLoads DEF Goals!SetProgress, Goals!SomeMilestone,
     Goals!Assumption, Goals!GoalOps
<1>7. ASSUME NEW r \in Request, Goals!CommitProgress(r) PROVE GoalsTyped'
  <2>1. goal' \in Goals!Goal
    <3>1. goal \in Goals!Goal /\ edit[r].count \in 0..100
      BY DEF Goals!TypeOK
    <3>2. CASE goal' = goal
      BY <3>1, <3>2
    <3>3. CASE goal' = [goal EXCEPT !.progress = edit[r].count]
      BY <3>1, <3>3 DEF Goals!Goal
    <3>. QED
      BY <1>7, <3>2, <3>3 DEF Goals!CommitProgress, Goals!Written
  <2>2. muddled' \subseteq {"status", "progress", "task"}
    BY <1>7 DEF Goals!CommitProgress, Goals!Muddles, Goals!TypeOK
  <2>. QED
    BY <1>7, <2>1, <2>2, GoalsTypeCommits DEF Goals!CommitProgress,
       Goals!TypeOK, Edit
<1>8. ASSUME NEW r \in Request, Goals!DeleteGoal(r) PROVE GoalsTyped'
  BY <1>8, GoalsTypeLoads DEF Goals!DeleteGoal, Goals!SomeMilestone,
     Goals!Assumption, Goals!GoalOps
<1>9. ASSUME NEW r \in Request, Goals!CommitDelete(r) PROVE GoalsTyped'
  <2>1. goal' \in Goals!Goal /\ tasked' \in Goals!Task
    BY <1>9 DEF Goals!CommitDelete, Goals!TypeOK, Goals!Goal, Goals!Task
  <2>. QED
    BY <1>9, <2>1, GoalsTypeCommits DEF Goals!CommitDelete, Goals!TypeOK, Edit
<1>10. ASSUME NEW r \in Request, NEW m \in Milestone,
              NEW to \in {"absent", "open", "done"}, Goals!ChangeMilestone(r, m, to)
       PROVE GoalsTyped'
  BY <1>10, GoalsTypeLoads DEF Goals!ChangeMilestone, Goals!GoalOps,
     Goals!TaskStatus, Goals!Terminal
<1>11. ASSUME NEW r \in Request, Goals!CountMilestones(r) PROVE GoalsTyped'
  <2>1. Goals!Mine(r) \in [Milestone -> {"absent", "open", "done"}]
    BY <1>11 DEF Goals!CountMilestones, Goals!Mine, Goals!TypeOK, Meant,
       Goals!Doing
  <2>2. Goals!Recomputed(Goals!Mine(r), edit[r].seen) \in 0..100
    BY <2>1, ShareIsPercentage DEF Goals!Recomputed, Goals!TypeOK, Goals!Goal
  <2>3. edit \in [Request -> Edit]
    BY DEF Goals!TypeOK, Edit
  <2>4. edit'[r] \in Edit /\ edit'[r].to = edit[r].to /\ edit'[r].op = "counted"
    <3>. DEFINE count == Goals!Recomputed(Goals!Mine(r), edit[r].seen)
    <3>1. edit'[r] = [edit[r] EXCEPT !.op = "counted", !.count = count]
      BY <1>11, <2>3 DEF Goals!CountMilestones
    <3>2. edit[r] \in Edit /\ count \in 0..100
      BY <2>2, <2>3
    <3>. HIDE DEF count
    <3>. QED
      BY <3>1, <3>2 DEF Edit, Goals!GoalOps
  <2>5. \A q \in Request : q # r => edit'[q] = edit[q]
    BY <1>11, <2>3 DEF Goals!CountMilestones
  <2>6. edit' \in [Request -> Edit]
    BY <1>11, <2>3, <2>4, <2>5 DEF Goals!CountMilestones
  <2>7. Goals!TypeOK'
    BY <1>11, <2>6 DEF Goals!CountMilestones, Goals!TypeOK, Edit
  <2>8. Meant'
    BY <1>11, <2>4, <2>5 DEF Goals!CountMilestones, Meant, Goals!Doing
  <2>. QED
    BY <2>7, <2>8
<1>12. ASSUME NEW r \in Request, Goals!CommitMilestone(r) PROVE GoalsTyped'
  <2>1. milestones' \in [Milestone -> {"absent", "open", "done"}]
    BY <1>12 DEF Goals!CommitMilestone, Goals!Mine, Goals!TypeOK, Meant,
       Goals!Doing
  <2>2. goal' \in Goals!Goal
    BY <1>12 DEF Goals!CommitMilestone, Goals!Written, Goals!TypeOK, Goals!Goal
  <2>3. muddled' \subseteq {"status", "progress", "task"}
    BY <1>12 DEF Goals!CommitMilestone, Goals!Muddles, Goals!TypeOK
  <2>. QED
    BY <1>12, <2>1, <2>2, <2>3, GoalsTypeCommits DEF Goals!CommitMilestone,
       Goals!TypeOK, Edit
<1>13. ASSUME NEW r \in Request, NEW to \in Targets \cap Goals!TaskStatus, Goals!UpdateTask(r, to)
       PROVE GoalsTyped'
  BY <1>13, GoalsTypeLoads DEF Goals!UpdateTask, Goals!SomeMilestone,
     Goals!Assumption, Goals!GoalOps
<1>14. ASSUME NEW r \in Request, Goals!CommitTask(r) PROVE GoalsTyped'
  <2>1. tasked' \in Goals!Task
    BY <1>14 DEF Goals!CommitTask, Goals!TypeOK, Meant, Goals!Task
  <2>2. muddled' \subseteq {"status", "progress", "task"} /\ closed' \in BOOLEAN
    BY <1>14 DEF Goals!CommitTask, Goals!TypeOK
  <2>. QED
    BY <1>14, <2>1, <2>2, GoalsTypeCommits DEF Goals!CommitTask, Goals!TypeOK,
       Edit
<1>15. ASSUME NEW r \in Request, Goals!Fails(r) PROVE GoalsTyped'
  BY <1>15 DEF Goals!Fails, Goals!TypeOK, Meant, Goals!Doing, Goals!Rest,
     Goals!NoGoal, Goals!Goal, Goals!SomeMilestone, Goals!Assumption
<1>. QED
  BY <1>0, <1>1, <1>2, <1>3, <1>4, <1>5, <1>6, <1>7, <1>8, <1>9, <1>10, <1>11,
     <1>12, <1>13, <1>14, <1>15 DEF Goals!Next

(* The state of Goals keeps its types (goal_service.py, milestone_service, *)
(* task_service): a progress is a percentage, whoever writes it.           *)
LEMMA GoalsTypes == ASSUME Goals!Assumption PROVE Goals!Spec => []Goals!TypeOK
<1>1. Goals!Init => GoalsTyped
  BY GoalsTypeInit
<1>2. GoalsTyped /\ [Goals!Next]_goalVars => GoalsTyped'
  BY GoalsTypeNext
<1>3. GoalsTyped => Goals!TypeOK
  BY DEF GoalsTyped
<1>. QED
  BY <1>1, <1>2, <1>3, PTL DEF Goals!Spec, Goals!goalVars, goalVars

-----------------------------------------------------------------------------
(* The main invariant.  A request that nobody has overtaken works on what  *)
(* is there: its copy is the row, the milestones it counted are those it   *)
(* will find but for its own, and a percentage it may set by hand has no   *)
(* milestones to contradict.  Without a goal or a task nobody writes one.  *)
Current(r) ==
  ~edit[r].late =>
    /\ Goals!Doing(r, {"status"}) =>
         /\ edit[r].seen.status = goal.status
         /\ edit[r].seen.stamped = goal.stamped
    /\ Goals!Doing(r, {"progress"}) /\ edit[r].to = "set" => Goals!Present = {}
    /\ Goals!Doing(r, {"milestone", "counted"}) => edit[r].seen.progress = goal.progress
    /\ Goals!Doing(r, {"counted"}) => edit[r].count = Goals!Recomputed(Goals!Mine(r), edit[r].seen)
    /\ Goals!Doing(r, {"task"}) => Goals!Allowed(tasked.status, edit[r].to)

Grounded ==
  /\ goal.status = "none" => \A r \in Request : ~Goals!Doing(r, Goals!GoalOps)
  /\ tasked.status = "none" => ~closed /\ \A r \in Request : ~Goals!Doing(r, {"task"})

GoalsInv ==
  /\ GoalsTyped
  /\ Grounded
  /\ \A r \in Request : Current(r)
  /\ Goals!GoalsAddUp

LEMMA GoalsInvInit == Goals!Assumption /\ Goals!Init => GoalsInv
<1>. SUFFICES ASSUME Goals!Assumption, Goals!Init PROVE GoalsInv
  OBVIOUS
<1>1. GoalsTyped
  BY GoalsTypeInit
<1>. QED
  BY <1>1 DEF Goals!Init, GoalsInv, Grounded, Current, Goals!GoalsAddUp,
     Goals!Exists, Goals!Present, Goals!Doing, Goals!Rest,
              Goals!NoGoal, Goals!NoTask, Goals!GoalOps, Goals!GoalStatus

(* A request that begins with what it sees is current, and disturbs nobody. *)
LEMMA GoalsInvLoads ==
  ASSUME Goals!Assumption, GoalsInv, GoalsTyped', NEW r \in Request, NEW op \in Goals!GoalOps \cup {"task"},
         NEW to, NEW m \in Milestone, NEW count,
         Goals!Loads(r, op, to, m, count), op # "counted",
         op \in Goals!GoalOps => Goals!Exists,
         op = "progress" /\ to = "set" => Goals!Present = {},
         op = "task" => tasked.status # "none" /\ Goals!Allowed(tasked.status, to)
  PROVE  GoalsInv'
<1>1. Grounded'
  BY DEF Goals!Loads, GoalsInv, Grounded, Goals!Doing, Goals!Exists,
     Goals!GoalOps, Goals!GoalStatus, GoalsTyped, Goals!TypeOK
<1>2. ASSUME NEW q \in Request PROVE Current(q)'
  <2>1. CASE q = r
    <3>1. /\ edit'[q].op = op /\ edit'[q].to = to /\ edit'[q].seen = Goals!Seen(op)
          /\ goal' = goal /\ milestones' = milestones /\ tasked' = tasked
      BY <2>1 DEF Goals!Loads, GoalsInv, GoalsTyped, Goals!TypeOK
    <3>2. op = "status" =>
            Goals!Seen(op).status = goal.status /\ Goals!Seen(op).stamped = goal.stamped
      BY DEF Goals!Seen, GoalsInv, GoalsTyped, Goals!TypeOK, Goals!Goal
    <3>3. op = "milestone" => Goals!Seen(op).progress = goal.progress
      BY DEF Goals!Seen, Goals!NoGoal
    <3>4. Goals!Present' = Goals!Present
      BY <3>1 DEF Goals!Present
    <3>. QED
      BY <3>1, <3>2, <3>3, <3>4 DEF Current, Goals!Doing, Goals!Allowed
  <2>2. CASE q # r
    <3>1. edit'[q] = edit[q]
      BY <2>2 DEF Goals!Loads, GoalsInv, GoalsTyped, Goals!TypeOK
    <3>. QED
      BY <3>1 DEF Goals!Loads, GoalsInv, Current, Goals!Doing, Goals!Present,
         Goals!Mine, Goals!Recomputed, Goals!Allowed
  <2>. QED
    BY <2>1, <2>2
<1>3. Goals!GoalsAddUp'
  BY DEF Goals!Loads, GoalsInv, Goals!GoalsAddUp, Goals!Exists, Goals!Present
<1>. QED
  BY <1>1, <1>2, <1>3 DEF GoalsInv

(* A commit to the goal or its milestones overtakes all who were about to. *)
LEMMA CurrentAfterGoal ==
  ASSUME GoalsInv, NEW r \in Request, Goals!Commits(r, Goals!GoalOps), tasked'.status = tasked.status
  PROVE  \A q \in Request : Current(q)'
<1>. SUFFICES ASSUME NEW q \in Request PROVE Current(q)'
  OBVIOUS
<1>0. CASE q = r
  <2>1. edit'[q].op = "rest"
    BY <1>0 DEF Goals!Commits, Goals!Rest
  <2>. QED
    BY <2>1 DEF Current, Goals!Doing
<1>1. CASE Goals!Doing(q, Goals!GoalOps) /\ q # r
  <2>1. edit'[q] = [edit[q] EXCEPT !.late = edit[q].late \/ edit[q].op \in Goals!GoalOps]
    BY <1>1 DEF Goals!Commits
  <2>2. (edit[q].late \/ edit[q].op \in Goals!GoalOps) = TRUE
    BY <1>1 DEF Goals!Doing
  <2>3. edit'[q] = [edit[q] EXCEPT !.late = TRUE] /\ edit[q] \in Edit
    BY <2>1, <2>2 DEF GoalsInv, GoalsTyped, Goals!TypeOK, Edit
  <2>4. edit'[q].late = TRUE
    BY <2>3 DEF Edit
  <2>. QED
    BY <2>4 DEF Current
<1>2. CASE ~Goals!Doing(q, Goals!GoalOps) /\ q # r
  <2>1. /\ edit'[q].op = edit[q].op /\ edit'[q].to = edit[q].to
        /\ edit'[q].late = edit[q].late
    BY <1>2 DEF Goals!Commits, Goals!Doing, GoalsInv, GoalsTyped, Goals!TypeOK
  <2>. QED
    BY <1>2, <2>1 DEF Current, Goals!Doing, Goals!GoalOps, Goals!Allowed, GoalsInv
<1>. QED
  BY <1>0, <1>1, <1>2

(* Commits begin nothing.                                                  *)
LEMMA GroundedAfter ==
  ASSUME GoalsInv, NEW r \in Request, NEW ops, Goals!Commits(r, ops),
         goal'.status = "none" => goal.status = "none",
         tasked'.status = "none" => tasked.status = "none" /\ closed' = closed
  PROVE  Grounded'
<1>1. \A q \in Request : edit'[q].op \in {edit[q].op, "rest"}
  BY DEF Goals!Commits, Goals!Rest, GoalsInv, GoalsTyped, Goals!TypeOK
<1>. QED
  BY <1>1 DEF Grounded, Goals!Doing, Goals!GoalOps, GoalsInv

(* Every step keeps the main invariant.                                    *)
LEMMA GoalsInvNext == Goals!Assumption /\ GoalsInv /\ [Goals!Next]_goalVars => GoalsInv'
<1>. SUFFICES ASSUME Goals!Assumption, GoalsInv, [Goals!Next]_goalVars PROVE GoalsInv'
  OBVIOUS
<1>t. GoalsTyped'
  BY GoalsTypeNext DEF GoalsInv
<1>g. Goals!GoalsAddUp /\ GoalsTyped /\ Grounded /\ (\A r \in Request : Current(r))
  BY DEF GoalsInv
<1>0. CASE UNCHANGED goalVars
  BY <1>0, <1>t, <1>g DEF goalVars, GoalsInv, Grounded, Current,
     Goals!GoalsAddUp, Goals!Exists, Goals!Present, Goals!Doing, Goals!Mine,
                Goals!Recomputed, Goals!Allowed
<1>1. ASSUME NEW percentage \in Manual, Goals!CreateGoal(percentage) PROVE GoalsInv'
  <2>1. Grounded'
    BY <1>1, <1>g DEF Goals!CreateGoal, Grounded, Goals!Doing
  <2>2. \A q \in Request : Current(q)'
    BY <1>1, <1>g DEF Goals!CreateGoal, Grounded, Current, Goals!Doing,
       Goals!GoalOps, Goals!Allowed
  <2>3. Goals!GoalsAddUp'
    BY <1>1, <1>g DEF Goals!CreateGoal, Goals!GoalsAddUp, Goals!Exists,
       Goals!Present, Goals!GoalStatus
  <2>. QED
    BY <1>t, <2>1, <2>2, <2>3 DEF GoalsInv
<1>2. ASSUME NEW tied \in BOOLEAN, Goals!CreateTask(tied) PROVE GoalsInv'
  <2>1. Grounded'
    BY <1>2, <1>g DEF Goals!CreateTask, Grounded, Goals!Doing
  <2>2. \A q \in Request : Current(q)'
    BY <1>2, <1>g DEF Goals!CreateTask, Grounded, Current, Goals!Doing,
       Goals!Present, Goals!Mine, Goals!Recomputed
  <2>3. Goals!GoalsAddUp'
    BY <1>2, <1>g DEF Goals!CreateTask, Grounded, Goals!GoalsAddUp,
       Goals!Exists, Goals!Present
  <2>. QED
    BY <1>t, <2>1, <2>2, <2>3 DEF GoalsInv
<1>3. CASE Goals!LinkTask
  <2>0. tasked'.status = tasked.status
    BY <1>3, <1>g DEF Goals!LinkTask, GoalsTyped, Goals!TypeOK, Goals!Task
  <2>1. Grounded'
    BY <1>3, <1>g, <2>0 DEF Goals!LinkTask, Grounded, Goals!Doing
  <2>2. \A q \in Request : Current(q)'
    BY <1>3, <1>g, <2>0 DEF Goals!LinkTask, Current, Goals!Doing, Goals!Present,
       Goals!Mine, Goals!Recomputed, Goals!Allowed
  <2>3. Goals!GoalsAddUp'
    BY <1>3, <1>g, <2>0 DEF Goals!LinkTask, Goals!GoalsAddUp, Goals!Exists,
       Goals!Present
  <2>. QED
    BY <1>t, <2>1, <2>2, <2>3 DEF GoalsInv
<1>4. ASSUME NEW r \in Request, NEW to \in Targets \cap Goals!GoalStatus, Goals!SetStatus(r, to)
      PROVE GoalsInv'
  BY <1>4, <1>t, GoalsInvLoads DEF Goals!SetStatus, Goals!SomeMilestone,
     Goals!Assumption, Goals!GoalOps
<1>5. ASSUME NEW r \in Request, Goals!CommitStatus(r) PROVE GoalsInv'
  <2>. DEFINE to == edit[r].to
  <2>0. to \in Goals!GoalStatus
    BY <1>5, <1>g DEF Goals!CommitStatus, GoalsTyped, Meant
  <2>1. /\ goal'.status \in Goals!GoalStatus /\ goal'.progress = goal.progress
        /\ ~edit[r].late => goal'.status = to
        /\ ~edit[r].late => goal'.stamped = (to = "completed")
    BY <1>5, <1>g, <2>0 DEF Goals!CommitStatus, Goals!Stamped, GoalsTyped,
       Goals!TypeOK, Goals!Goal, Current, Goals!Exists
  <2>2. /\ \A q \in Request : Current(q)'
        /\ Grounded'
    BY <1>5, <2>1, CurrentAfterGoal, GroundedAfter DEF Goals!CommitStatus,
       Goals!GoalStatus
  <2>3. Goals!GoalsAddUp'
    <3>1. Goals!Exists /\ Goals!Exists' /\ Goals!Present' = Goals!Present
      BY <1>5, <2>1 DEF Goals!CommitStatus, Goals!Exists, Goals!Present
    <3>2. /\ "status" \notin muddled' => ~edit[r].late
          /\ "progress" \in muddled' <=> "progress" \in muddled
          /\ "task" \in muddled' <=> "task" \in muddled
      BY <1>5 DEF Goals!CommitStatus, Goals!Muddles
    <3>. QED
      BY <1>5, <1>g, <2>1, <3>1, <3>2 DEF Goals!CommitStatus, Goals!GoalsAddUp
  <2>. QED
    BY <1>t, <2>2, <2>3 DEF GoalsInv
<1>6. ASSUME NEW r \in Request, NEW percentage \in Manual, Goals!SetProgress(r, percentage)
      PROVE GoalsInv'
  BY <1>6, <1>t, GoalsInvLoads DEF Goals!SetProgress, Goals!SomeMilestone,
     Goals!Assumption, Goals!GoalOps
<1>7. ASSUME NEW r \in Request, Goals!CommitProgress(r) PROVE GoalsInv'
  <2>1. goal'.status = goal.status /\ goal'.stamped = goal.stamped
    BY <1>7, <1>g DEF Goals!CommitProgress, Goals!Written, GoalsTyped,
       Goals!TypeOK, Goals!Goal
  <2>2. /\ \A q \in Request : Current(q)'
        /\ Grounded'
    BY <1>7, <2>1, CurrentAfterGoal, GroundedAfter DEF Goals!CommitProgress
  <2>3. Goals!GoalsAddUp'
    <3>1. (Goals!Exists' <=> Goals!Exists) /\ Goals!Present' = Goals!Present
      BY <1>7, <2>1 DEF Goals!CommitProgress, Goals!Exists, Goals!Present
    <3>2. CASE edit[r].to = "set"
      <4>1. /\ "progress" \notin muddled' => ~edit[r].late
            /\ "status" \in muddled' <=> "status" \in muddled
            /\ "task" \in muddled' <=> "task" \in muddled
        BY <1>7, <3>2 DEF Goals!CommitProgress, Goals!Muddles
      <4>2. "progress" \notin muddled' => Goals!Present = {}
        BY <1>7, <1>g, <3>2, <4>1 DEF Goals!CommitProgress, Current
      <4>. QED
        BY <1>7, <1>g, <2>1, <3>1, <4>1, <4>2 DEF Goals!CommitProgress,
           Goals!GoalsAddUp
    <3>3. CASE edit[r].to # "set"
      BY <1>7, <1>g, <3>1, <3>3 DEF Goals!CommitProgress, Goals!GoalsAddUp
    <3>. QED
      BY <3>2, <3>3
  <2>. QED
    BY <1>t, <2>2, <2>3 DEF GoalsInv
<1>8. ASSUME NEW r \in Request, Goals!DeleteGoal(r) PROVE GoalsInv'
  BY <1>8, <1>t, GoalsInvLoads DEF Goals!DeleteGoal, Goals!SomeMilestone,
     Goals!Assumption, Goals!GoalOps
<1>9. ASSUME NEW r \in Request, Goals!CommitDelete(r) PROVE GoalsInv'
  <2>1. /\ goal'.status = "deleted" /\ tasked'.status = tasked.status
        /\ tasked'.linked = FALSE /\ Goals!Present' = {}
    BY <1>9, <1>g DEF Goals!CommitDelete, GoalsTyped, Goals!TypeOK, Goals!Goal,
       Goals!Task, Goals!Present
  <2>2. /\ \A q \in Request : Current(q)'
        /\ Grounded'
    BY <1>9, <2>1, CurrentAfterGoal, GroundedAfter DEF Goals!CommitDelete
  <2>3. Goals!GoalsAddUp'
    BY <1>9, <1>g, <2>1 DEF Goals!CommitDelete, Goals!GoalsAddUp, Goals!Exists,
       Goals!GoalStatus
  <2>. QED
    BY <1>t, <2>2, <2>3 DEF GoalsInv
<1>10. ASSUME NEW r \in Request, NEW m \in Milestone,
              NEW to \in {"absent", "open", "done"}, Goals!ChangeMilestone(r, m, to)
       PROVE GoalsInv'
  BY <1>10, <1>t, GoalsInvLoads DEF Goals!ChangeMilestone, Goals!GoalOps
<1>11. ASSUME NEW r \in Request, Goals!CountMilestones(r) PROVE GoalsInv'
  <2>1. /\ edit'[r] = [edit[r] EXCEPT !.op = "counted",
                                      !.count = Goals!Recomputed(Goals!Mine(r), edit[r].seen)]
        /\ \A q \in Request : q # r => edit'[q] = edit[q]
    BY <1>11, <1>g DEF Goals!CountMilestones, GoalsTyped, Goals!TypeOK
  <2>2. /\ edit[r].op = "milestone" /\ edit'[r].op = "counted"
        /\ edit'[r].late = edit[r].late /\ edit'[r].seen = edit[r].seen
        /\ edit'[r].on = edit[r].on /\ edit'[r].to = edit[r].to
        /\ edit'[r].count = Goals!Recomputed(Goals!Mine(r), edit[r].seen)
    BY <1>11, <1>g, <2>1 DEF Goals!CountMilestones, GoalsTyped, Goals!TypeOK,
       Goals!Doing
  <2>3. Grounded'
    BY <1>11, <1>g, <2>1, <2>2 DEF Goals!CountMilestones, Grounded, Goals!Doing,
       Goals!GoalOps
  <2>4. ASSUME NEW q \in Request PROVE Current(q)'
    <3>1. CASE q = r
      <4>1. Goals!Mine(r)' = Goals!Mine(r)
        BY <1>11, <2>2 DEF Goals!CountMilestones, Goals!Mine
      <4>. QED
        BY <1>g, <2>2, <3>1, <4>1, <1>11 DEF Goals!CountMilestones, Current,
           Goals!Doing, Goals!Recomputed, Goals!Share, Goals!Done
    <3>2. CASE q # r
      <4>1. edit'[q] = edit[q] /\ goal' = goal /\ milestones' = milestones
            /\ tasked' = tasked
        BY <1>11, <2>1, <3>2 DEF Goals!CountMilestones
      <4>2. Goals!Mine(q)' = Goals!Mine(q) /\ Goals!Present' = Goals!Present
        BY <4>1 DEF Goals!Mine, Goals!Present
      <4>3. Goals!Recomputed(Goals!Mine(q), edit[q].seen)' = Goals!Recomputed(Goals!Mine(q), edit[q].seen)
        BY <4>1, <4>2 DEF Goals!Recomputed, Goals!Share, Goals!Done
      <4>. QED
        BY <1>g, <4>1, <4>2, <4>3 DEF Current, Goals!Doing, Goals!Allowed
    <3>. QED
      BY <3>1, <3>2
  <2>5. Goals!GoalsAddUp'
    BY <1>11, <1>g DEF Goals!CountMilestones, Goals!GoalsAddUp, Goals!Exists,
       Goals!Present
  <2>. QED
    BY <1>t, <2>3, <2>4, <2>5 DEF GoalsInv
<1>12. ASSUME NEW r \in Request, Goals!CommitMilestone(r) PROVE GoalsInv'
  <2>1. goal'.status = goal.status /\ goal'.stamped = goal.stamped
    BY <1>12, <1>g DEF Goals!CommitMilestone, Goals!Written, GoalsTyped,
       Goals!TypeOK, Goals!Goal
  <2>2. /\ \A q \in Request : Current(q)'
        /\ Grounded'
    BY <1>12, <2>1, CurrentAfterGoal, GroundedAfter DEF Goals!CommitMilestone
  <2>3. Goals!GoalsAddUp'
    <3>1. Goals!Exists' /\ Goals!Exists
      BY <1>12, <2>1 DEF Goals!CommitMilestone, Goals!Exists
    <3>2. /\ "progress" \notin muddled' => ~edit[r].late
          /\ "status" \in muddled' <=> "status" \in muddled
          /\ "task" \in muddled' <=> "task" \in muddled
      BY <1>12 DEF Goals!CommitMilestone, Goals!Muddles
    <3>3. ~edit[r].late => /\ edit[r].seen.progress = goal.progress
                           /\ edit[r].count = Goals!Recomputed(milestones', edit[r].seen)
      BY <1>12, <1>g DEF Goals!CommitMilestone, Current, Goals!Doing
    <3>4. Goals!Present' # {} => Goals!Recomputed(milestones', edit[r].seen) = Goals!Share(milestones')
      BY DEF Goals!Present, Goals!Recomputed
    <3>5. goal'.progress = IF edit[r].count = edit[r].seen.progress
                           THEN goal.progress ELSE edit[r].count
      BY <1>12, <1>g DEF Goals!CommitMilestone, Goals!Written, GoalsTyped,
         Goals!TypeOK, Goals!Goal
    <3>6. Goals!Present' # {} /\ "progress" \notin muddled' =>
            goal'.progress = Goals!Share(milestones')
      BY <3>2, <3>3, <3>4, <3>5
    <3>. QED
      BY <1>12, <1>g, <2>1, <3>1, <3>2, <3>6 DEF Goals!CommitMilestone,
         Goals!GoalsAddUp
  <2>. QED
    BY <1>t, <2>2, <2>3 DEF GoalsInv
<1>13. ASSUME NEW r \in Request, NEW to \in Targets \cap Goals!TaskStatus, Goals!UpdateTask(r, to)
       PROVE GoalsInv'
  BY <1>13, <1>t, GoalsInvLoads DEF Goals!UpdateTask, Goals!SomeMilestone,
     Goals!Assumption, Goals!GoalOps
<1>14. ASSUME NEW r \in Request, Goals!CommitTask(r) PROVE GoalsInv'
  <2>0. tasked'.status = edit[r].to /\ tasked'.linked = tasked.linked
        /\ edit[r].to \in Goals!TaskStatus
    BY <1>14, <1>g DEF Goals!CommitTask, GoalsTyped, Goals!TypeOK, Meant,
       Goals!Task
  <2>1. Grounded'
    BY <1>14, <2>0, GroundedAfter DEF Goals!CommitTask, Goals!TaskStatus,
       Goals!Terminal
  <2>2. ASSUME NEW q \in Request PROVE Current(q)'
    <3>1. CASE Goals!Doing(q, {"task"}) \/ q = r
      BY <1>14, <1>g, <3>1 DEF Goals!CommitTask, Goals!Commits, Current,
         Goals!Doing, Goals!Rest, Goals!GoalOps, GoalsTyped, Goals!TypeOK
    <3>2. CASE ~Goals!Doing(q, {"task"}) /\ q # r
      <4>1. edit'[q] = edit[q]
        BY <1>14, <1>g, <3>2 DEF Goals!CommitTask, Goals!Commits, Goals!Doing,
           GoalsTyped, Goals!TypeOK
      <4>. QED
        BY <1>14, <1>g, <3>2, <4>1 DEF Goals!CommitTask, Current, Goals!Doing,
           Goals!Present, Goals!Mine, Goals!Recomputed
    <3>. QED
      BY <3>1, <3>2
  <2>3. Goals!GoalsAddUp'
    <3>1. closed' /\ "task" \notin muddled' => edit[r].to \in Goals!Terminal
      BY <1>14, <1>g DEF Goals!CommitTask, Current, Goals!Doing, Goals!Allowed,
         Goals!GoalsAddUp
    <3>2. /\ "status" \in muddled' <=> "status" \in muddled
          /\ "progress" \in muddled' <=> "progress" \in muddled
      BY <1>14 DEF Goals!CommitTask
    <3>. QED
      BY <1>14, <1>g, <2>0, <3>1, <3>2 DEF Goals!CommitTask, Goals!GoalsAddUp,
         Goals!Exists, Goals!Present
  <2>. QED
    BY <1>t, <2>1, <2>2, <2>3 DEF GoalsInv
<1>15. ASSUME NEW r \in Request, Goals!Fails(r) PROVE GoalsInv'
  <2>1. edit'[r] = Goals!Rest /\ \A q \in Request : q # r => edit'[q] = edit[q]
    BY <1>15, <1>g DEF Goals!Fails, GoalsTyped, Goals!TypeOK
  <2>2. Grounded'
    BY <1>15, <1>g, <2>1 DEF Goals!Fails, Grounded, Goals!Doing, Goals!GoalOps,
       Goals!Rest
  <2>3. \A q \in Request : Current(q)'
    BY <1>15, <1>g, <2>1 DEF Goals!Fails, Current, Goals!Doing, Goals!Present,
       Goals!Mine, Goals!Recomputed, Goals!Allowed, Goals!Rest
  <2>4. Goals!GoalsAddUp'
    BY <1>15, <1>g DEF Goals!Fails, Goals!GoalsAddUp, Goals!Exists, Goals!Present
  <2>. QED
    BY <1>t, <2>2, <2>3, <2>4 DEF GoalsInv
<1>. QED
  BY <1>0, <1>1, <1>2, <1>3, <1>4, <1>5, <1>6, <1>7, <1>8, <1>9, <1>10, <1>11,
     <1>12, <1>13, <1>14, <1>15 DEF Goals!Next

(* The progress of a goal is the share of its milestones that is done, its *)
(* time of completion agrees with its status, a finished task stays so and *)
(* nothing hangs from a goal that is gone, unless the last requests that   *)
(* wrote it overlapped (goal_service.recompute_progress, set_status).      *)
LEMMA GoalsCount == ASSUME Goals!Assumption PROVE Goals!Spec => []Goals!GoalsAddUp
<1>1. Goals!Init => GoalsInv
  BY GoalsInvInit
<1>2. GoalsInv /\ [Goals!Next]_goalVars => GoalsInv'
  BY GoalsInvNext
<1>3. GoalsInv => Goals!GoalsAddUp
  BY DEF GoalsInv
<1>. QED
  BY <1>1, <1>2, <1>3, PTL DEF Goals!Spec, Goals!goalVars, goalVars

-----------------------------------------------------------------------------
(* THE CHANNEL.  What is typed, where the worker stands, and what it has   *)
(* done with an update.                                                    *)

ChannelTyped ==
  /\ Channel!TypeOK
  /\ ran \in [Channel!Update -> Seq(Nat)]
  /\ Len(updates) <= MaxUpdates

Busy == at.stage # "idle"
Wanted(u) == updates[u] # "unwanted"

(* Where the worker stands.  Kept is the last update it has taken up, and  *)
(* its batch goes on from there; the one in its hands is wanted, and       *)
(* Telegram has not forgotten it.                                          *)
Place ==
  /\ forgotten <= Len(updates) /\ Channel!Kept <= Len(updates)
  /\ \A k \in DOMAIN batch : batch[k] = Channel!Kept + k /\ batch[k] <= Len(updates)
  /\ ~Busy => at = Channel!Waiting
  /\ Busy => /\ at.update = Channel!Kept /\ at.update > forgotten
             /\ Wanted(at.update)

(* What it has done with an update: it heard those it has passed, and has  *)
(* not touched the others since the last restart.                          *)
Traced(u) ==
  /\ u <= Channel!Kept /\ Wanted(u) =>
       ran[u] # << >> \/ u \in failed \/ (Busy /\ at.update = u)
  /\ (u > Channel!Kept \/ (at.update = u /\ at.stage \in {"thread", "turn"})) =>
       /\ u \notin cutShort => ran[u] = << >>
       /\ thread # 0 => \A i \in DOMAIN ran[u] : ran[u][i] # thread
  /\ at.update = u /\ at.stage = "reply" => ran[u] # << >>
  /\ u > Len(updates) => ran[u] = << >> /\ shown[u] = {}

(* A turn has a thread.                                                    *)
UpdateOpened == at.stage = "turn" => thread # 0

ChannelInv ==
  /\ ChannelTyped
  /\ Place
  /\ \A u \in Channel!Update : Traced(u)
  /\ UpdateOpened
  /\ Channel!HeardOnce

-----------------------------------------------------------------------------
LEMMA KeptInNat ==
  ASSUME ChannelTyped
  PROVE  /\ Channel!Kept \in Nat /\ Channel!Kept >= forgotten /\ Channel!Kept >= offset - 1
         /\ Channel!Kept = forgotten \/ Channel!Kept = offset - 1
  BY DEF ChannelTyped, Channel!TypeOK, Channel!Kept, Channel!Larger

LEMMA Appended ==
  ASSUME NEW S, NEW s \in Seq(S), NEW e \in S
  PROVE  /\ Append(s, e) \in Seq(S) /\ Len(Append(s, e)) = Len(s) + 1
         /\ DOMAIN Append(s, e) = 1..(Len(s) + 1) /\ DOMAIN s = 1..Len(s)
         /\ Len(s) \in Nat
  OBVIOUS

LEMMA ChannelInvInit == Channel!Assumption /\ Channel!Init => ChannelInv
<1>. SUFFICES ASSUME Channel!Assumption, Channel!Init PROVE ChannelInv
  OBVIOUS
<1>1. ChannelTyped
  <2>1. at \in [ stage : {"idle", "thread", "turn", "reply"}, update : 0..MaxUpdates,
                 sent : 0..MaxPieces ]
    BY DEF Channel!Init, Channel!Waiting, Channel!Assumption
  <2>2. ran \in [Channel!Update -> Seq(Nat)] /\ \A u \in Channel!Update : ran[u] \in Seq(DOMAIN threads)
    BY DEF Channel!Init
  <2>3. shown \in [Channel!Update -> SUBSET {"reply", "apology"}]
    BY DEF Channel!Init
  <2>. QED
    BY <2>1, <2>2, <2>3 DEF Channel!Init, Channel!Assumption, ChannelTyped,
       Channel!TypeOK
<1>2. Channel!Kept = 0
  BY DEF Channel!Init, Channel!Kept, Channel!Larger
<1>3. Place /\ UpdateOpened
  BY <1>2 DEF Channel!Init, Place, UpdateOpened, Busy, Channel!Waiting
<1>4. \A u \in Channel!Update : Traced(u)
  BY <1>2 DEF Channel!Init, Traced, Channel!Update, Channel!Waiting,
     Channel!Assumption
<1>5. Channel!HeardOnce
  BY DEF Channel!Init, Channel!HeardOnce, Channel!Assumption
<1>. QED
  BY <1>1, <1>3, <1>4, <1>5 DEF ChannelInv

-----------------------------------------------------------------------------
(* Types.                                                                  *)
LEMMA AtTyped ==
  ASSUME ChannelTyped, NEW next \in {"idle", "thread", "turn", "reply"}
  PROVE  [at EXCEPT !.stage = next] \in
           [ stage : {"idle", "thread", "turn", "reply"}, update : 0..MaxUpdates,
             sent : 0..MaxPieces ]
  BY DEF ChannelTyped, Channel!TypeOK

LEMMA WaitingTyped ==
  Channel!Assumption => Channel!Waiting \in [ stage : {"idle", "thread", "turn", "reply"},
                              update : 0..MaxUpdates, sent : 0..MaxPieces ]
  BY DEF Channel!Assumption, Channel!Waiting

LEMMA ChannelTypeNext == Channel!Assumption /\ ChannelInv /\ [Channel!Next]_channelVars => ChannelTyped'
<1>. SUFFICES ASSUME Channel!Assumption, ChannelInv, [Channel!Next]_channelVars PROVE ChannelTyped'
  OBVIOUS
<1>g. ChannelTyped /\ Place /\ UpdateOpened
  BY DEF ChannelInv
<1>. USE DEF ChannelTyped
<1>0. CASE UNCHANGED channelVars
  BY <1>0, <1>g DEF channelVars, Channel!TypeOK
<1>1. ASSUME NEW kind \in {"text", "edited", "unwanted"}, Channel!Send(kind) PROVE ChannelTyped'
  <2>1. updates' \in Seq({"text", "edited", "unwanted"}) /\ Len(updates') <= MaxUpdates
    BY <1>1, <1>g DEF Channel!Send, Channel!TypeOK, Channel!Assumption
  <2>. QED
    BY <1>1, <1>g, <2>1 DEF Channel!Send, Channel!TypeOK
<1>2. CASE Channel!DeleteThread
  <2>1. threads' \in Seq(BOOLEAN) /\ Len(threads') = Len(threads)
        /\ DOMAIN threads' = DOMAIN threads
    BY <1>2, <1>g DEF Channel!DeleteThread, Channel!TypeOK
  <2>. QED
    BY <1>2, <1>g, <2>1 DEF Channel!DeleteThread, Channel!TypeOK
<1>3. CASE Channel!Poll
  <2>1. Channel!Kept \in Nat /\ Channel!Kept <= MaxUpdates /\ Len(updates) - Channel!Kept \in Nat
    BY <1>3, <1>g, KeptInNat DEF Channel!Poll, Channel!Assumption, Channel!TypeOK
  <2>2. \A k \in 1..(Len(updates) - Channel!Kept) : Channel!Kept + k \in Channel!Update
    BY <1>g, <2>1 DEF Channel!Update, Channel!TypeOK, Channel!Assumption
  <2>3. batch' \in Seq(Channel!Update)
    BY <1>3, <2>1, <2>2 DEF Channel!Poll
  <2>4. forgotten' \in 0..MaxUpdates
    BY <1>3, <2>1 DEF Channel!Poll, Channel!Assumption
  <2>. QED
    BY <1>3, <1>g, <2>3, <2>4 DEF Channel!Poll, Channel!TypeOK
<1>4. CASE Channel!NextUpdate
  <2>1. Head(batch) \in Channel!Update /\ batch' \in Seq(Channel!Update)
    BY <1>4, <1>g DEF Channel!NextUpdate, Channel!TypeOK
  <2>2. offset' \in 0..(MaxUpdates + 1)
    BY <1>4, <2>1 DEF Channel!NextUpdate, Channel!After, Channel!Update,
       Channel!Assumption
  <2>3. at' \in [ stage : {"idle", "thread", "turn", "reply"}, update : 0..MaxUpdates,
                  sent : 0..MaxPieces ]
    BY <1>4, <2>1, WaitingTyped DEF Channel!NextUpdate, Channel!Update,
       Channel!Assumption
  <2>. QED
    BY <1>4, <1>g, <2>1, <2>2, <2>3 DEF Channel!NextUpdate, Channel!TypeOK
<1>5. CASE Channel!FindThread
  <2>1. at' \in [ stage : {"idle", "thread", "turn", "reply"}, update : 0..MaxUpdates,
                  sent : 0..MaxPieces ]
    BY <1>5, <1>g, AtTyped DEF Channel!FindThread
  <2>2. /\ threads' \in Seq(BOOLEAN) /\ thread' \in 0..Len(threads')
        /\ DOMAIN threads \subseteq DOMAIN threads'
    <3>1. CASE thread = 0
      <4>1. threads' = Append(threads, TRUE) /\ thread' = Len(threads) + 1
        BY <1>5, <3>1 DEF Channel!FindThread
      <4>2. /\ threads' \in Seq(BOOLEAN) /\ Len(threads') = Len(threads) + 1
            /\ DOMAIN threads' = 1..(Len(threads) + 1)
            /\ DOMAIN threads = 1..Len(threads) /\ Len(threads) \in Nat
        BY <1>g, <4>1, Appended DEF Channel!TypeOK
      <4>. QED
        BY <4>1, <4>2
    <3>2. CASE thread # 0
      BY <1>5, <1>g, <3>2 DEF Channel!FindThread, Channel!TypeOK
    <3>. QED
      BY <3>1, <3>2
  <2>3. \A u \in Channel!Update : ran[u] \in Seq(DOMAIN threads')
    BY <1>g, <2>2 DEF Channel!TypeOK
  <2>. QED
    BY <1>5, <1>g, <2>1, <2>2, <2>3 DEF Channel!FindThread, Channel!TypeOK
<1>6. CASE Channel!RunTurn
  <2>1. at' \in [ stage : {"idle", "thread", "turn", "reply"}, update : 0..MaxUpdates,
                  sent : 0..MaxPieces ]
    BY <1>6, <1>g, AtTyped DEF Channel!RunTurn
  <2>2. thread \in DOMAIN threads /\ thread \in Nat
    BY <1>6, <1>g DEF Channel!RunTurn, UpdateOpened, Channel!TypeOK
  <2>3. \A u \in Channel!Update : ran'[u] = IF u = at.update THEN Append(ran[u], thread) ELSE ran[u]
    BY <1>6, <1>g DEF Channel!RunTurn
  <2>4. \A u \in Channel!Update : ran'[u] \in Seq(DOMAIN threads) /\ ran'[u] \in Seq(Nat)
    <3>1. ASSUME NEW u \in Channel!Update
          PROVE  /\ Append(ran[u], thread) \in Seq(DOMAIN threads)
                 /\ Append(ran[u], thread) \in Seq(Nat)
      <4>1. ran[u] \in Seq(DOMAIN threads) /\ ran[u] \in Seq(Nat)
        BY <1>g DEF Channel!TypeOK
      <4>. QED
        BY <2>2, <4>1, Appended
    <3>. QED
      BY <1>g, <2>3, <3>1 DEF Channel!TypeOK
  <2>5. ran' \in [Channel!Update -> Seq(Nat)]
    BY <1>6, <1>g, <2>4 DEF Channel!RunTurn
  <2>. QED
    BY <1>6, <1>g, <2>1, <2>4, <2>5 DEF Channel!RunTurn, Channel!TypeOK
<1>7. ASSUME NEW last \in BOOLEAN, Channel!SendPiece(last) PROVE ChannelTyped'
  <2>1. at' \in [ stage : {"idle", "thread", "turn", "reply"}, update : 0..MaxUpdates,
                  sent : 0..MaxPieces ]
    <3>1. CASE last
      BY <1>7, <3>1, WaitingTyped DEF Channel!SendPiece
    <3>2. CASE ~last
      <4>1. at' = [at EXCEPT !.sent = at.sent + 1] /\ at.sent + 1 < MaxPieces
        BY <1>7, <3>2 DEF Channel!SendPiece
      <4>2. at.sent + 1 \in 0..MaxPieces
        BY <1>g, <4>1 DEF Channel!TypeOK, Channel!Assumption
      <4>. QED
        BY <1>g, <4>1, <4>2 DEF Channel!TypeOK
    <3>. QED
      BY <3>1, <3>2
  <2>2. shown' \in [Channel!Update -> SUBSET {"reply", "apology"}]
    BY <1>7, <1>g DEF Channel!SendPiece, Channel!TypeOK
  <2>. QED
    BY <1>7, <1>g, <2>1, <2>2 DEF Channel!SendPiece, Channel!TypeOK
<1>8. ASSUME NEW apology \in BOOLEAN, Channel!Fail(apology) PROVE ChannelTyped'
  <2>1. shown' \in [Channel!Update -> SUBSET {"reply", "apology"}]
    BY <1>8, <1>g DEF Channel!Fail, Channel!TypeOK
  <2>2. at.update \in Channel!Update
    BY <1>8, <1>g DEF Channel!Fail, Place, Busy, Channel!Update, Channel!TypeOK
  <2>. QED
    BY <1>8, <1>g, <2>1, <2>2, WaitingTyped DEF Channel!Fail, Channel!TypeOK
<1>9. CASE Channel!Restart
  BY <1>9, <1>g, WaitingTyped DEF Channel!Restart, Channel!TypeOK,
     Channel!Assumption
<1>. QED
  BY <1>0, <1>1, <1>2, <1>3, <1>4, <1>5, <1>6, <1>7, <1>8, <1>9 DEF Channel!Next


-----------------------------------------------------------------------------
(* Every step keeps the invariant.                                         *)
LEMMA ChannelInvNext == Channel!Assumption /\ ChannelInv /\ [Channel!Next]_channelVars => ChannelInv'
<1>. SUFFICES ASSUME Channel!Assumption, ChannelInv, [Channel!Next]_channelVars PROVE ChannelInv'
  OBVIOUS
<1>t. ChannelTyped'
  BY ChannelTypeNext
<1>g. ChannelTyped /\ Place /\ (\A u \in Channel!Update : Traced(u)) /\ UpdateOpened /\ Channel!HeardOnce
  BY DEF ChannelInv
<1>k. /\ Channel!Kept \in Nat /\ Channel!Kept >= forgotten /\ Channel!Kept >= offset - 1
      /\ Channel!Kept = forgotten \/ Channel!Kept = offset - 1
      /\ Len(updates) \in Nat /\ Len(threads) \in Nat /\ forgotten \in Nat /\ offset \in Nat
      /\ MaxUpdates \in Nat /\ reboots \in Nat
  BY <1>g, KeptInNat DEF ChannelTyped, Channel!TypeOK, Channel!Assumption
<1>u. at.update \in Nat /\ (Busy => at.update \in Channel!Update)
  BY <1>g, <1>k DEF ChannelTyped, Channel!TypeOK, Place, Channel!Update
<1>0. CASE UNCHANGED channelVars
  BY <1>0, <1>t, <1>g DEF channelVars, ChannelInv, Place, Traced, UpdateOpened,
     Channel!HeardOnce, Channel!Kept, Busy, Wanted
<1>1. ASSUME NEW kind \in {"text", "edited", "unwanted"}, Channel!Send(kind) PROVE ChannelInv'
  <2>1. /\ Len(updates') = Len(updates) + 1
        /\ \A u \in 1..Len(updates) : updates'[u] = updates[u]
        /\ DOMAIN updates' = 1..(Len(updates) + 1) /\ DOMAIN updates = 1..Len(updates)
    BY <1>1, <1>g DEF Channel!Send, ChannelTyped, Channel!TypeOK
  <2>2. Channel!Kept' = Channel!Kept /\ (Busy' <=> Busy)
    BY <1>1 DEF Channel!Send, Channel!Kept, Busy
  <2>3. Place'
    <3>1. at' = at /\ batch' = batch /\ forgotten' = forgotten
      BY <1>1 DEF Channel!Send
    <3>2. \A k \in DOMAIN batch : batch[k] = Channel!Kept + k /\ batch[k] <= Len(updates')
      <4>1. \A k \in DOMAIN batch : batch[k] \in Nat
        <5>1. \A k \in DOMAIN batch : batch[k] \in Channel!Update
          BY <1>g DEF ChannelTyped, Channel!TypeOK
        <5>. QED
          BY <1>k, <5>1 DEF Channel!Update
      <4>. QED
        BY <1>g, <1>k, <2>1, <4>1 DEF Place
    <3>3. Busy => Wanted(at.update)'
      <4>1. Busy => at.update \in 1..Len(updates)
        BY <1>g, <1>k, <1>u DEF Place
      <4>. QED
        BY <1>g, <2>1, <3>1, <4>1 DEF Place, Wanted
    <3>. QED
      BY <1>g, <1>k, <2>1, <2>2, <3>1, <3>2, <3>3 DEF Place
  <2>4. ASSUME NEW u \in Channel!Update PROVE Traced(u)'
    <3>1. u <= Channel!Kept => Wanted(u)' = Wanted(u)
      BY <1>g, <1>k, <2>1 DEF Wanted, Place, Channel!Update
    <3>. QED
      BY <1>1, <1>g, <1>k, <2>1, <2>2, <3>1 DEF Channel!Send, Traced,
         Channel!Update
  <2>5. UpdateOpened'
    BY <1>1, <1>g DEF Channel!Send, UpdateOpened
  <2>6. Channel!HeardOnce'
    <3>1. \A u \in 1..forgotten : updates'[u] = updates[u]
      BY <1>g, <1>k, <2>1 DEF Place
    <3>2. ASSUME NEW u \in Channel!Update, u \in DOMAIN updates', updates'[u] = "unwanted"
          PROVE  ran[u] = << >> /\ shown[u] = {}
      BY <1>g, <1>k, <2>1, <3>2 DEF Channel!HeardOnce, Traced, Channel!Update
    <3>3. \A u \in 1..forgotten :
            updates'[u] = "text" => ran[u] # << >> \/ u \in failed
      BY <1>g, <3>1 DEF Channel!HeardOnce
    <3>4. \A u \in Channel!Update :
            /\ Len(ran[u]) > 1 => u \in cutShort
            /\ \A i, j \in DOMAIN ran[u] : i # j => ran[u][i] # ran[u][j]
            /\ "reply" \in shown[u] => ran[u] # << >>
            /\ "apology" \in shown[u] => u \in failed
            /\ u \in DOMAIN updates' /\ updates'[u] = "unwanted" =>
                 ran[u] = << >> /\ shown[u] = {}
      BY <1>g, <3>2 DEF Channel!HeardOnce
    <3>5. /\ forgotten' = forgotten /\ ran' = ran /\ shown' = shown
          /\ failed' = failed /\ cutShort' = cutShort
          /\ threads' = threads /\ reboots' = reboots
      BY <1>1 DEF Channel!Send
    <3>. QED
      BY <1>g, <3>3, <3>4, <3>5 DEF Channel!HeardOnce
  <2>. QED
    BY <1>t, <2>3, <2>4, <2>5, <2>6 DEF ChannelInv
<1>2. CASE Channel!DeleteThread
  <2>1. Len(threads') = Len(threads)
    BY <1>2, <1>g DEF Channel!DeleteThread, ChannelTyped, Channel!TypeOK
  <2>. QED
    BY <1>2, <1>t, <1>g, <2>1 DEF Channel!DeleteThread, ChannelInv, Place,
       Traced, UpdateOpened, Channel!HeardOnce,
                                  Channel!Kept, Busy, Wanted
<1>3. CASE Channel!Poll
  <2>1. Channel!Kept' = Channel!Kept /\ forgotten' = Channel!Kept /\ ~Busy /\ ~Busy'
    BY <1>3, <1>k DEF Channel!Poll, Channel!Kept, Channel!Larger, Busy,
       Channel!Waiting
  <2>2. \A k \in DOMAIN batch' : batch'[k] = Channel!Kept + k /\ batch'[k] <= Len(updates)
    BY <1>3, <1>k DEF Channel!Poll
  <2>3. Place'
    BY <1>3, <1>g, <2>1, <2>2 DEF Channel!Poll, Place
  <2>4. \A u \in Channel!Update : Traced(u)'
    BY <1>3, <1>g, <2>1 DEF Channel!Poll, Traced, Wanted
  <2>5. Channel!HeardOnce'
    <3>1. ASSUME NEW u \in 1..Channel!Kept, updates[u] = "text"
          PROVE  ran[u] # << >> \/ u \in failed
      <4>1. u \in Channel!Update /\ u <= Channel!Kept
        BY <1>g, <1>k DEF Channel!Update, Place, ChannelTyped
      <4>. QED
        BY <1>g, <2>1, <3>1, <4>1 DEF Traced, Wanted
    <3>. QED
      BY <1>3, <1>g, <2>1, <3>1 DEF Channel!Poll, Channel!HeardOnce
  <2>. QED
    BY <1>3, <1>t, <1>g, <2>3, <2>4, <2>5 DEF ChannelInv, Channel!Poll,
       UpdateOpened
<1>4. CASE Channel!NextUpdate
  <2>. DEFINE h == Head(batch)
  <2>1. /\ h = Channel!Kept + 1 /\ h <= Len(updates) /\ h \in Channel!Update
        /\ Len(batch) \in Nat \ {0} /\ ~Busy
        /\ DOMAIN batch' = 1..(Len(batch) - 1)
        /\ \A k \in DOMAIN batch' : batch'[k] = batch[k + 1] /\ k + 1 \in DOMAIN batch
    <3>1. /\ batch \in Seq(Channel!Update) /\ batch # << >> /\ batch' = Tail(batch)
          /\ at = Channel!Waiting
      BY <1>4, <1>g DEF Channel!NextUpdate, ChannelTyped, Channel!TypeOK
    <3>2. /\ Len(batch) \in Nat \ {0} /\ h = batch[1] /\ 1 \in DOMAIN batch
          /\ DOMAIN batch = 1..Len(batch)
          /\ DOMAIN batch' = 1..(Len(batch) - 1)
          /\ \A k \in DOMAIN batch' : batch'[k] = batch[k + 1]
      BY <3>1
    <3>3. \A k \in DOMAIN batch' : k + 1 \in DOMAIN batch
      BY <3>2
    <3>4. h = Channel!Kept + 1 /\ h <= Len(updates) /\ h \in Channel!Update
      BY <1>g, <3>1, <3>2 DEF Place
    <3>. QED
      BY <3>1, <3>2, <3>3, <3>4 DEF Busy, Channel!Waiting
  <2>2. Channel!Kept' = Channel!Kept + 1
    BY <1>4, <1>k, <2>1 DEF Channel!NextUpdate, Channel!Kept, Channel!Larger,
       Channel!After
  <2>3. \A k \in DOMAIN batch' : batch'[k] = Channel!Kept' + k /\ batch'[k] <= Len(updates)
    BY <1>g, <1>k, <2>1, <2>2 DEF Place
  <2>4. /\ ~Wanted(h) => at' = Channel!Waiting
        /\ Wanted(h) => at' = [stage |-> "thread", update |-> h, sent |-> 0]
    BY <1>4 DEF Channel!NextUpdate, Wanted
  <2>5. Place'
    BY <1>4, <1>g, <1>k, <2>1, <2>2, <2>3, <2>4 DEF Channel!NextUpdate, Place,
       Busy, Wanted, Channel!Waiting
  <2>6. ASSUME NEW u \in Channel!Update PROVE Traced(u)'
    <3>1. Traced(u)
      BY <1>g
    <3>2. CASE u = h
      BY <1>4, <1>k, <2>1, <2>2, <2>4, <3>1, <3>2 DEF Channel!NextUpdate,
         Traced, Busy, Wanted, Channel!Waiting
    <3>3. CASE u # h
      BY <1>4, <1>k, <2>1, <2>2, <2>4, <3>1, <3>3
         DEF Channel!NextUpdate, Traced, Busy, Wanted, Channel!Waiting, Channel!Update
    <3>. QED
      BY <3>2, <3>3
  <2>7. UpdateOpened' /\ Channel!HeardOnce'
    BY <1>4, <1>g, <2>4 DEF Channel!NextUpdate, UpdateOpened, Channel!HeardOnce,
       Channel!Waiting
  <2>. QED
    BY <1>t, <2>5, <2>6, <2>7 DEF ChannelInv
<1>5. CASE Channel!FindThread
  <2>1. /\ at'.stage = "turn" /\ at'.update = at.update /\ Busy /\ Busy'
        /\ at.stage = "thread" /\ Channel!Kept' = Channel!Kept
    BY <1>5, <1>g DEF Channel!FindThread, Busy, Channel!Kept, ChannelTyped,
       Channel!TypeOK
  <2>2. /\ thread # 0 => thread' = thread /\ threads' = threads
        /\ thread = 0 => /\ thread' = Len(threads) + 1
                         /\ Len(threads') = Len(threads) + 1
    <3>1. threads \in Seq(BOOLEAN)
      BY <1>g DEF ChannelTyped, Channel!TypeOK
    <3>. QED
      <4>1. CASE thread = 0
        <5>1. threads' = Append(threads, TRUE) /\ thread' = Len(threads) + 1
          BY <1>5, <4>1 DEF Channel!FindThread
        <5>2. Len(threads') = Len(threads) + 1
          BY <3>1, <5>1, Appended
        <5>. QED
          BY <4>1, <5>1, <5>2
      <4>2. CASE thread # 0
        BY <1>5, <4>2 DEF Channel!FindThread
      <4>. QED
        BY <4>1, <4>2
  <2>3. Place'
    BY <1>5, <1>g, <2>1 DEF Channel!FindThread, Place, Wanted
  <2>4. ASSUME NEW u \in Channel!Update PROVE Traced(u)'
    <3>1. \A i \in DOMAIN ran[u] : ran[u][i] \in 1..Len(threads)
      BY <1>g DEF ChannelTyped, Channel!TypeOK
    <3>2. Traced(u)
      BY <1>g
    <3>. QED
      BY <1>5, <1>k, <2>1, <2>2, <3>1, <3>2 DEF Channel!FindThread, Traced, Wanted
  <2>5. UpdateOpened'
    BY <1>5, <1>g, <1>k, <2>1, <2>2 DEF Channel!FindThread, UpdateOpened
  <2>6. Channel!HeardOnce'
    BY <1>5, <1>g DEF Channel!FindThread, Channel!HeardOnce
  <2>. QED
    BY <1>t, <2>3, <2>4, <2>5, <2>6 DEF ChannelInv
<1>6. CASE Channel!RunTurn
  <2>. DEFINE v == at.update
  <2>1. /\ at'.stage = "reply" /\ at'.update = v /\ Busy /\ Busy' /\ v \in Channel!Update
        /\ at.stage = "turn" /\ Channel!Kept' = Channel!Kept /\ thread # 0 /\ v = Channel!Kept /\ Wanted(v)
    BY <1>6, <1>g, <1>u DEF Channel!RunTurn, Busy, Channel!Kept, ChannelTyped,
       Channel!TypeOK, UpdateOpened, Place
  <2>2. /\ \A u \in Channel!Update : u # v => ran'[u] = ran[u]
        /\ ran'[v] = Append(ran[v], thread)
    BY <1>6, <1>g, <2>1 DEF Channel!RunTurn, ChannelTyped
  <2>3. /\ ran[v] \in Seq(Nat) /\ thread \in Nat
        /\ v \notin cutShort => ran[v] = << >>
        /\ \A i \in DOMAIN ran[v] : ran[v][i] # thread
    BY <1>g, <2>1 DEF ChannelTyped, Channel!TypeOK, Traced
  <2>4. /\ ran'[v] # << >>
        /\ Len(ran'[v]) > 1 => v \in cutShort
        /\ \A i, j \in DOMAIN ran'[v] : i # j => ran'[v][i] # ran'[v][j]
    <3>0. /\ Len(ran'[v]) = Len(ran[v]) + 1 /\ Len(ran[v]) \in Nat
          /\ DOMAIN ran'[v] = 1..(Len(ran[v]) + 1) /\ DOMAIN ran[v] = 1..Len(ran[v])
          /\ \A i \in DOMAIN ran[v] : ran'[v][i] = ran[v][i]
          /\ ran'[v][Len(ran[v]) + 1] = thread
      BY <2>2, <2>3
    <3>1. ran'[v] # << >>
      BY <3>0
    <3>2. v \notin cutShort => Len(ran'[v]) <= 1
      BY <2>3, <3>0
    <3>3. \A i, j \in DOMAIN ran[v] : i # j => ran[v][i] # ran[v][j]
      BY <1>g, <2>1 DEF Channel!HeardOnce
    <3>4. ASSUME NEW i \in DOMAIN ran'[v], NEW j \in DOMAIN ran'[v], i # j
          PROVE  ran'[v][i] # ran'[v][j]
      <4>1. CASE i \in DOMAIN ran[v] /\ j \in DOMAIN ran[v]
        BY <3>0, <3>3, <3>4, <4>1
      <4>2. CASE i \notin DOMAIN ran[v]
        <5>1. i = Len(ran[v]) + 1 /\ j \in DOMAIN ran[v]
          BY <3>0, <3>4, <4>2
        <5>. QED
          BY <2>3, <3>0, <5>1
      <4>3. CASE j \notin DOMAIN ran[v]
        <5>1. j = Len(ran[v]) + 1 /\ i \in DOMAIN ran[v]
          BY <3>0, <3>4, <4>3
        <5>. QED
          BY <2>3, <3>0, <5>1
      <4>. QED
        BY <4>1, <4>2, <4>3
    <3>5. Len(ran'[v]) > 1 => v \in cutShort
      BY <3>0, <3>2
    <3>. QED
      BY <3>1, <3>4, <3>5
  <2>5. Place'
    BY <1>6, <1>g, <2>1 DEF Channel!RunTurn, Place, Wanted
  <2>6. ASSUME NEW u \in Channel!Update PROVE Traced(u)'
    <3>1. Traced(u)
      BY <1>g
    <3>2. CASE u = v
      <4>1. v <= Len(updates) /\ ~(v > Channel!Kept) /\ ~(v > Len(updates))
        BY <1>g, <1>k, <2>1 DEF Place
      <4>2. at'.update = u /\ at'.stage = "reply" /\ updates' = updates /\ ran'[u] # << >>
        BY <1>6, <2>1, <2>4, <3>2 DEF Channel!RunTurn
      <4>3. ~(u > Channel!Kept') /\ ~(u > Len(updates'))
        BY <2>1, <3>2, <4>1, <4>2
      <4>. QED
        BY <4>2, <4>3 DEF Traced
    <3>3. CASE u # v
      BY <1>6, <2>1, <2>2, <3>1, <3>3 DEF Channel!RunTurn, Traced, Wanted
    <3>. QED
      BY <3>2, <3>3
  <2>7. Channel!HeardOnce'
    <3>1. \A u \in 1..forgotten : u \in Channel!Update /\ u # v
      BY <1>g, <1>k, <2>1 DEF Place, Channel!Update, ChannelTyped
    <3>2. \A u \in 1..forgotten : updates[u] = "text" => ran'[u] # << >> \/ u \in failed
      BY <1>g, <2>2, <3>1 DEF Channel!HeardOnce
    <3>3. ASSUME NEW u \in Channel!Update
          PROVE  /\ Len(ran'[u]) > 1 => u \in cutShort
                 /\ \A i, j \in DOMAIN ran'[u] : i # j => ran'[u][i] # ran'[u][j]
                 /\ "reply" \in shown[u] => ran'[u] # << >>
                 /\ u \in DOMAIN updates /\ updates[u] = "unwanted" => ran'[u] = << >>
      <4>1. CASE u = v
        BY <2>1, <2>4, <4>1 DEF Wanted
      <4>2. CASE u # v
        <5>1. ran'[u] = ran[u]
          BY <2>2, <4>2
        <5>. QED
          BY <1>g, <5>1 DEF Channel!HeardOnce
      <4>. QED
        BY <4>1, <4>2
    <3>. QED
      BY <1>6, <1>g, <3>2, <3>3 DEF Channel!RunTurn, Channel!HeardOnce
  <2>. QED
    BY <1>6, <1>t, <1>g, <2>1, <2>5, <2>6, <2>7 DEF ChannelInv, Channel!RunTurn,
       UpdateOpened
<1>7. ASSUME NEW last \in BOOLEAN, Channel!SendPiece(last) PROVE ChannelInv'
  <2>. DEFINE v == at.update
  <2>1. /\ v \in Channel!Update /\ at.stage = "reply" /\ Channel!Kept' = Channel!Kept /\ v = Channel!Kept /\ Wanted(v)
        /\ ran[v] # << >> /\ ran' = ran
        /\ at' = Channel!Waiting \/ (at'.stage = "reply" /\ at'.update = v)
    <3>1. Busy /\ at.stage = "reply"
      BY <1>7 DEF Channel!SendPiece, Busy
    <3>2. v \in Channel!Update
      BY <1>u, <3>1
    <3>3. at' = Channel!Waiting \/ (at'.stage = "reply" /\ at'.update = v)
      BY <1>7, <1>g DEF Channel!SendPiece, ChannelTyped, Channel!TypeOK
    <3>. QED
      BY <1>7, <1>g, <3>1, <3>2, <3>3 DEF Channel!SendPiece, Channel!Kept,
         Place, Traced
  <2>2. /\ \A u \in Channel!Update : u # v => shown'[u] = shown[u]
        /\ shown'[v] = shown[v] \cup {"reply"}
    BY <1>7, <1>g, <2>1 DEF Channel!SendPiece, ChannelTyped, Channel!TypeOK
  <2>3. Place'
    BY <1>7, <1>g, <2>1 DEF Channel!SendPiece, Place, Wanted, Busy,
       Channel!Waiting
  <2>4. ASSUME NEW u \in Channel!Update PROVE Traced(u)'
    <3>1. Traced(u)
      BY <1>g
    <3>2. CASE u = v
      <4>1. v <= Len(updates) /\ ~(v > Channel!Kept) /\ ~(v > Len(updates))
        BY <1>g, <1>k, <2>1 DEF Place
      <4>. QED
        BY <1>7, <2>1, <3>2, <4>1 DEF Channel!SendPiece, Traced, Channel!Waiting
    <3>3. CASE u # v
      BY <1>7, <2>1, <2>2, <3>1, <3>3 DEF Channel!SendPiece, Traced, Wanted,
         Channel!Waiting, Busy, Channel!Update
    <3>. QED
      BY <3>2, <3>3
  <2>5. Channel!HeardOnce'
    <3>1. ASSUME NEW u \in Channel!Update
          PROVE  /\ "reply" \in shown'[u] => ran[u] # << >>
                 /\ "apology" \in shown'[u] => u \in failed
                 /\ u \in DOMAIN updates /\ updates[u] = "unwanted" => shown'[u] = {}
      BY <1>g, <2>1, <2>2 DEF Channel!HeardOnce, Wanted
    <3>. QED
      BY <1>7, <1>g, <3>1 DEF Channel!SendPiece, Channel!HeardOnce
  <2>6. UpdateOpened'
    BY <1>7, <1>g, <2>1 DEF Channel!SendPiece, UpdateOpened, Channel!Waiting
  <2>. QED
    BY <1>t, <2>3, <2>4, <2>5, <2>6 DEF ChannelInv
<1>8. ASSUME NEW apology \in BOOLEAN, Channel!Fail(apology) PROVE ChannelInv'
  <2>. DEFINE v == at.update
  <2>1. v \in Channel!Update /\ Busy /\ Channel!Kept' = Channel!Kept /\ v = Channel!Kept /\ Wanted(v) /\ at' = Channel!Waiting
    <3>1. Busy
      BY <1>8 DEF Channel!Fail, Busy
    <3>. QED
      BY <1>8, <1>g, <1>u, <3>1 DEF Channel!Fail, Channel!Kept, Place
  <2>2. /\ \A u \in Channel!Update : u # v => shown'[u] = shown[u]
        /\ shown'[v] \subseteq shown[v] \cup {"apology"}
    BY <1>8, <1>g, <2>1 DEF Channel!Fail, ChannelTyped, Channel!TypeOK
  <2>3. Place' /\ UpdateOpened'
    BY <1>8, <1>g, <2>1 DEF Channel!Fail, Place, UpdateOpened, Wanted, Busy,
       Channel!Waiting
  <2>4. ASSUME NEW u \in Channel!Update PROVE Traced(u)'
    <3>1. Traced(u)
      BY <1>g
    <3>2. CASE u = v
      <4>1. v <= Len(updates) /\ ~(v > Channel!Kept) /\ ~(v > Len(updates))
        BY <1>g, <1>k, <2>1 DEF Place
      <4>. QED
        BY <1>8, <2>1, <3>2, <4>1 DEF Channel!Fail, Traced, Channel!Waiting
    <3>3. CASE u # v
      BY <1>8, <2>1, <2>2, <3>1, <3>3 DEF Channel!Fail, Traced, Wanted,
         Channel!Waiting, Busy, Channel!Update
    <3>. QED
      BY <3>2, <3>3
  <2>5. Channel!HeardOnce'
    <3>1. ASSUME NEW u \in Channel!Update
          PROVE  /\ "reply" \in shown'[u] => ran[u] # << >>
                 /\ "apology" \in shown'[u] => u \in failed'
                 /\ u \in DOMAIN updates /\ updates[u] = "unwanted" => shown'[u] = {}
      BY <1>8, <1>g, <2>1, <2>2 DEF Channel!Fail, Channel!HeardOnce, Wanted
    <3>. QED
      BY <1>8, <1>g, <3>1 DEF Channel!Fail, Channel!HeardOnce
  <2>. QED
    BY <1>t, <2>3, <2>4, <2>5 DEF ChannelInv
<1>9. CASE Channel!Restart
  <2>1. /\ Channel!Kept' = forgotten /\ ~Busy' /\ at' = Channel!Waiting /\ thread' = 0
        /\ DOMAIN batch' = {} /\ reboots' = reboots + 1
        /\ UNCHANGED <<updates, forgotten, threads, ran, shown, failed>>
    BY <1>9, <1>k DEF Channel!Restart, Channel!Kept, Channel!Larger, Busy,
       Channel!Waiting
  <2>2. Place' /\ UpdateOpened'
    BY <1>g, <1>k, <2>1 DEF Place, UpdateOpened, Channel!Waiting
  <2>3. ASSUME NEW u \in Channel!Update PROVE Traced(u)'
    <3>1. Traced(u) /\ u \in Nat \ {0}
      BY <1>g DEF Channel!Update
    <3>2. u <= forgotten /\ Wanted(u) => ran[u] # << >> \/ u \in failed
      BY <1>g, <1>k, <3>1 DEF Traced, Place
    <3>3. u > forgotten /\ u \notin cutShort' => ran[u] = << >>
      <4>1. ASSUME u > forgotten, u \notin cutShort', u <= Len(updates)
            PROVE  u >= offset /\ u \notin cutShort
        <5>1. ~(u < offset) /\ u \notin cutShort
          BY <1>9, <4>1 DEF Channel!Restart
        <5>. QED
          BY <1>k, <3>1, <5>1
      <4>2. ASSUME u > forgotten, u >= offset PROVE u > Channel!Kept
        BY <1>k, <3>1, <4>2
      <4>. QED
        BY <1>k, <3>1, <4>1, <4>2 DEF Traced
    <3>4. u # at'.update
      BY <2>1, <3>1 DEF Channel!Waiting
    <3>. QED
      BY <2>1, <3>1, <3>2, <3>3, <3>4 DEF Traced, Wanted
  <2>4. Channel!HeardOnce'
    BY <1>9, <1>g, <1>k, <2>1 DEF Channel!Restart, Channel!HeardOnce
  <2>. QED
    BY <1>t, <2>2, <2>3, <2>4 DEF ChannelInv
<1>. QED
  BY <1>0, <1>1, <1>2, <1>3, <1>4, <1>5, <1>6, <1>7, <1>8, <1>9 DEF Channel!Next

-----------------------------------------------------------------------------
LEMMA ChannelInvHolds == ASSUME Channel!Assumption PROVE Channel!Spec => []ChannelInv
<1>1. Channel!Init => ChannelInv
  BY ChannelInvInit
<1>2. ChannelInv /\ [Channel!Next]_channelVars => ChannelInv'
  BY ChannelInvNext
<1>. QED
  BY <1>1, <1>2, PTL DEF Channel!Spec, Channel!channelVars, channelVars

(* The state of Channel keeps its types: what the worker remembers of the  *)
(* stream stays in its bounds (workers/telegram_worker.py).                *)
LEMMA ChannelTypes == ASSUME Channel!Assumption PROVE Channel!Spec => []Channel!TypeOK
<1>1. ChannelInv => Channel!TypeOK
  BY DEF ChannelInv, ChannelTyped
<1>. QED
  BY <1>1, ChannelInvHolds, PTL

(* Every message is heard, and heard once: forgotten updates were run or   *)
(* failed, none was run twice but over a restart, never by one process,    *)
(* and replies and apologies are true (telegram_worker.py, poll_once and   *)
(* _handle).                                                               *)
LEMMA MessagesHeard == ASSUME Channel!Assumption PROVE Channel!Spec => []Channel!HeardOnce
<1>1. ChannelInv => Channel!HeardOnce
  BY DEF ChannelInv
<1>. QED
  BY <1>1, ChannelInvHolds, PTL

-----------------------------------------------------------------------------
(* LEARNING.  Where the turns stand, where the worker stands, and what is  *)
(* behind its watermark.                                                   *)

(* A count, in the profile or read by a turn that will write it, is not    *)
(* ahead of the messages, and behind them by no more than those that       *)
(* landed while another turn was counting.                                 *)
Short(count) == Learning!Count(count) <= asked /\ asked <= Learning!Count(count) + crossed
Counting ==
  /\ crossed <= asked
  /\ Short(profile)
  /\ \A t \in Turn : Learning!AtCount(t) => Short(turns[t].seen)

(* Where the worker stands.  A window begins at the watermark it was read  *)
(* from and holds committed messages only; the facts in hand are of the    *)
(* window, and while the watermark has not moved none of them is stored.   *)
AtWork ==
  /\ consumer.stage = "summarising" => Learning!Covered < consumer.to /\ consumer.to <= asked
  /\ consumer.stage = "extracting" =>
       /\ consumer.from = extracted /\ consumer.from < consumer.to
       /\ consumer.to <= asked /\ consumer.to <= consumer.from + MaxDelta
  /\ consumer.stage = "storing" =>
       /\ consumer.from < consumer.to /\ consumer.to <= asked
       /\ consumer.to <= consumer.from + MaxDelta
       /\ consumer.found \subseteq Learning!Looked
       /\ consumer.refused \subseteq Learning!Looked
       /\ consumer.beyond \subseteq Learning!Looked
       /\ ~Learning!Partial => Learning!FirstFew(consumer.found, consumer.beyond)
       /\ \/ extracted = consumer.from /\ consumer.fresh = {}
          \/ extracted = consumer.to
  /\ consumer.stage # "storing" => consumer.found = {} /\ consumer.fresh = {}

(* The messages behind the watermark.                                      *)
Behind ==
  /\ extracted <= asked
  /\ 1..extracted \subseteq Learning!Facts \cup skipped \cup refused \cup beyond
  /\ stored \subseteq 1..extracted
  /\ stored \ linked \subseteq cut \cup consumer.fresh

(* The facts that are stored, or lost, or being stored in a window the     *)
(* watermark is past; and enough of them around each message whose fact    *)
(* was one too many.                                                       *)
Settled == stored \cup cut \cup (IF Learning!Partial THEN consumer.found ELSE {})
Around(m, n) == n - m < MaxDelta /\ m - n < MaxDelta
Crowd(m, S) == (\A n \in S : Around(m, n)) /\ Learning!Cardinality(S) = MaxFound
Crowded == \A m \in beyond : \E S \in SUBSET Settled : Crowd(m, S)

(* The summaries.                                                          *)
Rising ==
  \A k \in DOMAIN summaries :
    summaries[k] <= asked /\ (k > 1 => summaries[k] > summaries[k - 1])

LearningInv == Learning!TypeOK /\ Counting /\ AtWork /\ Behind /\ Crowded /\ Rising

-----------------------------------------------------------------------------
LEMMA LearningCounts ==
  ASSUME NEW S
  PROVE  Learning!Cardinality(S) = Cardinality(S)
  BY DEF Learning!IsFiniteSet, IsFiniteSet, Learning!Cardinality, Cardinality

LEMMA LearningInvInit == Learning!Assumption /\ Learning!Init => LearningInv
<1>. SUFFICES ASSUME Learning!Assumption, Learning!Init PROVE LearningInv
  OBVIOUS
<1>1. Learning!TypeOK
  <2>1. /\ asked \in 0..MaxMessages /\ profile \in Learning!NoProfile..MaxMessages
        /\ extracted \in 0..MaxMessages
    BY DEF Learning!Assumption, Learning!Init, Learning!NoProfile
  <2>2. turns \in [Turn -> [ stage : {"idle", "counting", "counted", "landed"},
                            seen : Learning!NoProfile..MaxMessages ]]
    BY <2>1 DEF Learning!Init, Learning!Away
  <2>3. Learning!AtRest \in [ stage : {"idle", "summary", "summarising", "extraction",
                             "extracting", "storing"},
                    from : 0..MaxMessages, to : 0..MaxMessages,
                    found : SUBSET Learning!Message, fresh : SUBSET Learning!Message,
                    refused : SUBSET Learning!Message, beyond : SUBSET Learning!Message ]
    BY DEF Learning!Assumption, Learning!AtRest
  <2>4. summaries \in Seq(Learning!Message) /\ enrich \in Nat
    BY DEF Learning!Init
  <2>7. crossed \in 0..MaxMessages
    BY DEF Learning!Assumption, Learning!Init
  <2>5. \A known \in {stored, linked, skipped, refused, beyond, cut} :
          known \subseteq Learning!Message
    BY DEF Learning!Init
  <2>6. consumer = Learning!AtRest
    BY DEF Learning!Init
  <2>. QED
    BY <2>1, <2>2, <2>3, <2>4, <2>5, <2>6, <2>7 DEF Learning!TypeOK
<1>2. Counting
  BY DEF Learning!Assumption, Learning!Init, Counting, Short, Learning!Count,
     Learning!AtCount, Learning!Away, Learning!NoProfile
<1>3. AtWork /\ Behind /\ Crowded /\ Rising
  BY DEF Learning!Init, AtWork, Behind, Crowded, Rising, Learning!AtRest
<1>. QED
  BY <1>1, <1>2, <1>3 DEF LearningInv

(* Only the turns move.                                                    *)
LEMMA TurnsOnly ==
  ASSUME Learning!Assumption, LearningInv, asked' \in Nat, asked' >= asked, UNCHANGED <<consumer, Learning!learned>>
  PROVE  AtWork' /\ Behind' /\ Crowded' /\ Rising'
<1>1. /\ asked \in Nat /\ extracted \in Nat /\ consumer.to \in Nat
      /\ \A k \in DOMAIN summaries : summaries[k] \in Nat
      /\ Learning!Covered' = Learning!Covered /\ Learning!Looked' = Learning!Looked
      /\ Learning!Facts' = Learning!Facts /\ Learning!Partial' = Learning!Partial
      /\ Settled' = Settled
  BY DEF Learning!Assumption, LearningInv, Learning!TypeOK, Learning!Message,
     Learning!learned, Learning!unlearnt, Learning!Covered, Learning!Looked, Learning!InHand,
     Learning!Facts, Learning!Partial, Settled
<1>2. AtWork'
  BY <1>1 DEF LearningInv, AtWork, Learning!learned
<1>3. Behind'
  BY <1>1 DEF LearningInv, Behind, Learning!learned, Learning!unlearnt
<1>5. Crowded'
  BY <1>1 DEF LearningInv, Crowded, Learning!learned, Learning!unlearnt
<1>4. Rising'
  BY <1>1 DEF LearningInv, Rising, Learning!learned
<1>. QED
  BY <1>2, <1>3, <1>4, <1>5

(* The worker moves.                                                       *)
LEMMA WorkerOnly ==
  ASSUME LearningInv, UNCHANGED Learning!chat
  PROVE  Counting'
  BY DEF LearningInv, Counting, Short, Learning!AtCount, Learning!chat

(* A step of the turns.                                                    *)
LEMMA TurnSteps ==
  ASSUME Learning!Assumption, LearningInv, NEW t \in Turn,
         Learning!Begin(t) \/ Learning!CountMessage(t) \/ Learning!SpoiltByProfile(t)
           \/ Learning!CommitMidway(t) \/ Learning!EndTurn(t) \/ Learning!LoseTurn(t)
  PROVE  LearningInv'
<1>. DEFINE Turned == [stage : {"idle", "counting", "counted", "landed"},
                       seen : Learning!NoProfile..MaxMessages]
<1>0. /\ MaxMessages \in Nat /\ asked \in 0..MaxMessages
      /\ profile \in Learning!NoProfile..MaxMessages
      /\ turns \in [Turn -> Turned]
      /\ crossed \in 0..MaxMessages /\ enrich \in Nat
  BY DEF Learning!Assumption, LearningInv, Learning!TypeOK, Counting
<1>w. Learning!Away \in Turned /\ Learning!Away.stage = "idle"
  BY <1>0 DEF Learning!Away, Learning!NoProfile
<1>q. ASSUME Learning!TypeOK', Counting', asked' >= asked, UNCHANGED <<consumer, Learning!learned>>
      PROVE  LearningInv'
  <2>1. asked' \in Nat
    BY <1>0, <1>q DEF Learning!TypeOK
  <2>2. AtWork' /\ Behind' /\ Crowded' /\ Rising'
    BY <1>q, <2>1, TurnsOnly
  <2>. QED
    BY <1>q, <2>2 DEF LearningInv
<1>1. ASSUME Learning!Begin(t) PROVE LearningInv'
  <2>1. Learning!TypeOK'
    BY <1>0, <1>1 DEF Learning!Begin, LearningInv, Learning!TypeOK,
       Learning!learned, Learning!unlearnt
  <2>2. Counting'
    BY <1>0, <1>1 DEF Learning!Begin, LearningInv, Counting, Short, Learning!AtCount
  <2>. QED
    BY <1>0, <1>1, <1>q, <2>1, <2>2 DEF Learning!Begin
<1>2. ASSUME Learning!CountMessage(t) PROVE LearningInv'
  <2>1. Learning!TypeOK'
    BY <1>0, <1>2 DEF Learning!CountMessage, LearningInv, Learning!TypeOK,
       Learning!learned, Learning!unlearnt
  <2>2. Counting'
    BY <1>0, <1>2 DEF Learning!CountMessage, LearningInv, Counting, Short, Learning!AtCount
  <2>. QED
    BY <1>0, <1>2, <1>q, <2>1, <2>2 DEF Learning!CountMessage
<1>3. ASSUME turns' = [turns EXCEPT ![t] = Learning!Away],
             UNCHANGED <<asked, profile, crossed, enrich, consumer, Learning!learned>>
      PROVE  LearningInv'
  <2>1. Learning!TypeOK'
    BY <1>0, <1>w, <1>3 DEF LearningInv, Learning!TypeOK, Learning!learned, Learning!unlearnt
  <2>2. Counting'
    BY <1>0, <1>w, <1>3 DEF LearningInv, Counting, Short, Learning!AtCount
  <2>. QED
    BY <1>0, <1>3, <1>q, <2>1, <2>2
<1>4. ASSUME Learning!Lands(t), turns[t].stage = "counted",
             NEW s \in Turned, s.stage \in {"landed", "idle"},
             turns' = [turns EXCEPT ![t] = s], enrich' \in Nat,
             UNCHANGED <<consumer, Learning!learned>>
      PROVE  LearningInv'
  <2>. DEFINE seen == turns[t].seen
  <2>1. seen \in Learning!NoProfile..MaxMessages /\ Short(seen)
    BY <1>0, <1>4 DEF LearningInv, Counting, Learning!AtCount
  <2>2. /\ asked' = asked + 1 /\ asked' \in 0..MaxMessages
        /\ profile' = Learning!Counted(seen)
        /\ crossed' = IF \E u \in Turn \ {t} : Learning!AtCount(u) THEN crossed + 1 ELSE crossed
    BY <1>0, <1>4 DEF Learning!Lands
  <2>c. crossed' \in {crossed, crossed + 1} /\ crossed <= asked
    BY <2>2 DEF LearningInv, Counting
  <2>3. /\ profile' = Learning!Count(seen) + 1 /\ Learning!Count(profile') = profile'
        /\ Learning!Count(seen) \in 0..MaxMessages
    BY <1>0, <2>1, <2>2 DEF Learning!NoProfile, Learning!Count, Learning!Counted
  <2>4. profile' \in Learning!NoProfile..MaxMessages /\ crossed' \in 0..MaxMessages
    BY <1>0, <2>1, <2>2, <2>3, <2>c DEF Learning!NoProfile, Short
  <2>5. Learning!TypeOK'
    BY <1>0, <1>4, <2>2, <2>4 DEF LearningInv, Learning!TypeOK, Learning!learned, Learning!unlearnt
  <2>6. Counting'
    <3>1. crossed' <= asked' /\ Short(profile)'
      BY <1>0, <2>1, <2>2, <2>3, <2>c DEF Short
    <3>3. ASSUME NEW u \in Turn, Learning!AtCount(u)'
          PROVE  /\ Learning!Count(turns'[u].seen) <= asked'
                 /\ asked' <= Learning!Count(turns'[u].seen) + crossed'
      <4>1. u # t /\ turns'[u] = turns[u] /\ Learning!AtCount(u)
        BY <1>0, <1>4, <3>3 DEF Learning!AtCount
      <4>2. crossed' = crossed + 1 /\ Short(turns[u].seen)
        BY <2>2, <4>1 DEF LearningInv, Counting
      <4>3. Learning!Count(turns[u].seen) \in Int
        BY <1>0 DEF Learning!Count, Learning!NoProfile
      <4>. QED
        BY <1>0, <2>2, <4>1, <4>2, <4>3 DEF Short
    <3>. QED
      BY <3>1, <3>3 DEF Counting, Short, Learning!AtCount
  <2>. QED
    BY <1>0, <1>4, <1>q, <2>2, <2>5, <2>6
<1>5. ASSUME Learning!CommitMidway(t) PROVE LearningInv'
  <2>1. /\ [turns[t] EXCEPT !.stage = "landed"] \in Turned
        /\ [turns[t] EXCEPT !.stage = "landed"].stage = "landed"
    BY <1>0
  <2>2. turns' = [turns EXCEPT ![t] = [turns[t] EXCEPT !.stage = "landed"]]
    BY <1>0, <1>5 DEF Learning!CommitMidway
  <2>. QED
    BY <1>0, <1>4, <1>5, <2>1, <2>2 DEF Learning!CommitMidway
<1>6. ASSUME Learning!EndTurn(t) PROVE LearningInv'
  <2>1. enrich' \in Nat
    BY <1>0, <1>6 DEF Learning!EndTurn
  <2>2. CASE turns[t].stage = "counted" /\ Learning!Lands(t)
    BY <1>0, <1>w, <1>4, <1>6, <2>1, <2>2 DEF Learning!EndTurn
  <2>3. CASE turns[t].stage = "landed" /\ UNCHANGED <<asked, profile, crossed>>
    <3>1. Learning!TypeOK'
      BY <1>0, <1>w, <1>6, <2>1, <2>3 DEF Learning!EndTurn, LearningInv,
         Learning!TypeOK, Learning!learned, Learning!unlearnt
    <3>2. Counting'
      BY <1>0, <1>w, <1>6, <2>3 DEF Learning!EndTurn, LearningInv, Counting, Short, Learning!AtCount
    <3>. QED
      BY <1>0, <1>6, <1>q, <2>3, <3>1, <3>2 DEF Learning!EndTurn
  <2>. QED
    BY <1>6, <2>2, <2>3 DEF Learning!EndTurn
<1>7. CASE Learning!SpoiltByProfile(t)
  BY <1>3, <1>7 DEF Learning!SpoiltByProfile
<1>8. CASE Learning!LoseTurn(t)
  BY <1>3, <1>8 DEF Learning!LoseTurn
<1>. QED
  BY <1>1, <1>2, <1>5, <1>6, <1>7, <1>8

-----------------------------------------------------------------------------
(* What a step of the worker starts from.                                  *)
Consumers ==
  [ stage : {"idle", "summary", "summarising", "extraction", "extracting",
             "storing"},
    from : 0..MaxMessages, to : 0..MaxMessages, found : SUBSET Learning!Message,
    fresh : SUBSET Learning!Message, refused : SUBSET Learning!Message,
    beyond : SUBSET Learning!Message ]

LEMMA WorkerFacts ==
  ASSUME Learning!Assumption, LearningInv
  PROVE  /\ MaxMessages \in Nat /\ MaxDelta \in Nat
         /\ asked \in 0..MaxMessages /\ extracted \in 0..MaxMessages
         /\ extracted <= asked /\ consumer \in Consumers
         /\ Learning!AtRest \in Consumers
         /\ stored \subseteq Learning!Message /\ linked \subseteq Learning!Message
         /\ skipped \subseteq Learning!Message /\ cut \subseteq Learning!Message
         /\ refused \subseteq Learning!Message /\ beyond \subseteq Learning!Message
         /\ Learning!Looked \subseteq Learning!Message
<1>1. /\ MaxMessages \in Nat /\ MaxDelta \in Nat
      /\ asked \in 0..MaxMessages /\ extracted \in 0..MaxMessages
      /\ extracted <= asked /\ consumer \in Consumers
  BY DEF Learning!Assumption, LearningInv, Learning!TypeOK, Behind, Consumers
<1>2. Learning!AtRest \in Consumers
  BY <1>1 DEF Learning!AtRest, Consumers
<1>3. \A known \in {stored, linked, skipped, refused, beyond, cut} : known \subseteq Learning!Message
  BY DEF LearningInv, Learning!TypeOK
<1>4. Learning!Looked \subseteq Learning!Message
  <2>1. consumer.from \in 0..MaxMessages /\ consumer.to \in 0..MaxMessages
    BY <1>1 DEF Consumers
  <2>. QED
    BY <1>1, <2>1 DEF Learning!Looked, Learning!Message
<1>. QED
  BY <1>1, <1>2, <1>3, <1>4

(* Nothing is behind the summaries that is not committed.                  *)
LEMMA CoveredFacts ==
  ASSUME Learning!Assumption, LearningInv
  PROVE  Learning!Covered \in 0..MaxMessages /\ Learning!Covered <= asked
<1>1. summaries \in Seq(Learning!Message) /\ asked \in 0..MaxMessages /\ MaxMessages \in Nat
  BY DEF Learning!Assumption, LearningInv, Learning!TypeOK
<1>2. CASE summaries = << >>
  BY <1>1, <1>2 DEF Learning!Covered
<1>3. CASE summaries # << >>
  <2>1. Len(summaries) \in DOMAIN summaries /\ Learning!Covered = summaries[Len(summaries)]
    BY <1>1, <1>3 DEF Learning!Covered
  <2>2. Learning!Covered \in Learning!Message
    BY <1>1, <2>1
  <2>. QED
    BY <1>1, <2>1, <2>2 DEF LearningInv, Rising, Learning!Message
<1>. QED
  BY <1>2, <1>3

LEMMA WindowFacts ==
  ASSUME Learning!Assumption, LearningInv, NEW from \in 0..MaxMessages, from <= asked
  PROVE  /\ Learning!Window(from) \in 0..MaxMessages /\ Learning!Window(from) <= asked
         /\ from <= Learning!Window(from) /\ Learning!Window(from) <= from + MaxDelta
  BY WorkerFacts DEF Learning!Window, Learning!Smaller

(* The worker moves and commits nothing.                                   *)
LEMMA WorkerMoves ==
  ASSUME Learning!Assumption, LearningInv, UNCHANGED <<Learning!chat, Learning!learned>>, enrich' \in Nat,
         NEW c \in Consumers, consumer' = c,
         c.found = {}, c.fresh = {}, consumer.stage # "storing", c.stage # "storing",
         c.stage = "summarising" => Learning!Covered < c.to /\ c.to <= asked,
         c.stage = "extracting" => /\ c.from = extracted /\ c.from < c.to /\ c.to <= asked
                                   /\ c.to <= c.from + MaxDelta
  PROVE  LearningInv'
<1>1. Learning!TypeOK'
  BY DEF LearningInv, Learning!TypeOK, Learning!chat, Learning!learned, Learning!unlearnt, Consumers
<1>2. Learning!Covered' = Learning!Covered
  BY DEF Learning!Covered, Learning!learned
<1>6. Learning!Facts' = Learning!Facts /\ Settled' = Settled
  BY DEF Learning!learned, Learning!Facts, Learning!InHand, Learning!Partial, Settled
<1>3. AtWork'
  BY <1>2 DEF LearningInv, AtWork, Learning!chat, Learning!learned
<1>4. Behind'
  BY <1>6 DEF LearningInv, Behind, AtWork, Learning!chat, Learning!learned, Learning!unlearnt
<1>7. Crowded'
  BY <1>6 DEF LearningInv, Crowded, Learning!learned, Learning!unlearnt
<1>5. Rising'
  BY DEF LearningInv, Rising, Learning!chat, Learning!learned
<1>. QED
  BY <1>1, <1>3, <1>4, <1>5, <1>7, WorkerOnly DEF LearningInv, Learning!learned,
     Learning!chat

LEMMA SummarySteps ==
  ASSUME Learning!Assumption, LearningInv,
         Learning!TakeJob \/ (\E long \in BOOLEAN : Learning!ReadForSummary(long)) \/ Learning!SummaryFails
           \/ Learning!ReadForExtraction
  PROVE  LearningInv'
<1>0. /\ Learning!AtRest.found = {} /\ Learning!AtRest.fresh = {} /\ Learning!AtRest.stage = "idle"
      /\ Learning!AtRest.from = 0 /\ Learning!AtRest.to = 0
  BY DEF Learning!AtRest
<1>1. ASSUME NEW st \in {"summary", "extraction"}
      PROVE  /\ [Learning!AtRest EXCEPT !.stage = st] \in Consumers
             /\ [Learning!AtRest EXCEPT !.stage = st].stage = st
             /\ [Learning!AtRest EXCEPT !.stage = st].found = {}
             /\ [Learning!AtRest EXCEPT !.stage = st].fresh = {}
  BY WorkerFacts DEF Learning!AtRest, Consumers
<1>2. ASSUME NEW st \in {"summarising", "extracting"}, NEW f \in 0..MaxMessages,
             NEW u \in 0..MaxMessages
      PROVE  /\ [Learning!AtRest EXCEPT !.stage = st, !.from = f, !.to = u] \in Consumers
             /\ [Learning!AtRest EXCEPT !.stage = st, !.from = f, !.to = u].stage = st
             /\ [Learning!AtRest EXCEPT !.stage = st, !.from = f, !.to = u].from = f
             /\ [Learning!AtRest EXCEPT !.stage = st, !.from = f, !.to = u].to = u
             /\ [Learning!AtRest EXCEPT !.stage = st, !.from = f, !.to = u].found = {}
             /\ [Learning!AtRest EXCEPT !.stage = st, !.from = f, !.to = u].fresh = {}
  BY WorkerFacts DEF Learning!AtRest, Consumers
<1>3. enrich \in Nat
  BY DEF LearningInv, Learning!TypeOK
<1>4. CASE Learning!TakeJob
  <2>1. enrich' \in Nat
    BY <1>3, <1>4 DEF Learning!TakeJob
  <2>. QED
    BY <1>1, <1>4, <2>1, WorkerMoves DEF Learning!TakeJob
<1>5. CASE Learning!SummaryFails
  BY <1>1, <1>3, <1>5, WorkerMoves DEF Learning!SummaryFails
<1>6. ASSUME NEW long \in BOOLEAN, Learning!ReadForSummary(long) PROVE LearningInv'
  <2>1. CASE consumer' = [Learning!AtRest EXCEPT !.stage = "extraction"]
    BY <1>1, <1>3, <1>6, <2>1, WorkerMoves DEF Learning!ReadForSummary
  <2>2. CASE /\ Learning!Window(Learning!Covered) > Learning!Covered
             /\ consumer' = [Learning!AtRest EXCEPT !.stage = "summarising",
                                  !.from = Learning!Covered, !.to = Learning!Window(Learning!Covered)]
    <3>1. /\ Learning!Covered \in 0..MaxMessages /\ Learning!Window(Learning!Covered) \in 0..MaxMessages
          /\ Learning!Window(Learning!Covered) <= asked
      BY CoveredFacts, WindowFacts
    <3>2. PICK f \in 0..MaxMessages, u \in 0..MaxMessages :
              f = Learning!Covered /\ u = Learning!Window(Learning!Covered)
      BY <3>1
    <3>3. consumer' = [Learning!AtRest EXCEPT !.stage = "summarising", !.from = f, !.to = u]
      BY <2>2, <3>2
    <3>4. /\ [Learning!AtRest EXCEPT !.stage = "summarising", !.from = f, !.to = u] \in Consumers
          /\ [Learning!AtRest EXCEPT !.stage = "summarising", !.from = f, !.to = u].stage = "summarising"
          /\ [Learning!AtRest EXCEPT !.stage = "summarising", !.from = f, !.to = u].from = f
          /\ [Learning!AtRest EXCEPT !.stage = "summarising", !.from = f, !.to = u].to = u
          /\ [Learning!AtRest EXCEPT !.stage = "summarising", !.from = f, !.to = u].found = {}
          /\ [Learning!AtRest EXCEPT !.stage = "summarising", !.from = f, !.to = u].fresh = {}
      BY <1>2
    <3>5. PICK c \in Consumers :
            /\ consumer' = c /\ c.stage = "summarising" /\ c.to = Learning!Window(Learning!Covered)
            /\ c.found = {} /\ c.fresh = {}
      BY <3>2, <3>3, <3>4
    <3>. QED
      BY <1>3, <1>6, <2>2, <3>1, <3>5, WorkerMoves DEF Learning!ReadForSummary
  <2>. QED
    BY <1>6, <2>1, <2>2 DEF Learning!ReadForSummary
<1>7. CASE Learning!ReadForExtraction
  <2>1. CASE consumer' = Learning!AtRest
    BY <1>0, <1>3, <1>7, <2>1, WorkerFacts, WorkerMoves
       DEF Learning!ReadForExtraction
  <2>2. CASE /\ Learning!Window(extracted) # extracted
             /\ consumer' = [Learning!AtRest EXCEPT !.stage = "extracting",
                                  !.from = extracted, !.to = Learning!Window(extracted)]
    <3>1. extracted < Learning!Window(extracted)
      BY <2>2, WorkerFacts, WindowFacts
    <3>2. /\ extracted \in 0..MaxMessages /\ Learning!Window(extracted) \in 0..MaxMessages
          /\ Learning!Window(extracted) <= asked
          /\ Learning!Window(extracted) <= extracted + MaxDelta
      BY WorkerFacts, WindowFacts
    <3>3. PICK f \in 0..MaxMessages, u \in 0..MaxMessages :
              f = extracted /\ u = Learning!Window(extracted)
      BY <3>2
    <3>4. consumer' = [Learning!AtRest EXCEPT !.stage = "extracting", !.from = f, !.to = u]
      BY <2>2, <3>3
    <3>5. /\ [Learning!AtRest EXCEPT !.stage = "extracting", !.from = f, !.to = u] \in Consumers
          /\ [Learning!AtRest EXCEPT !.stage = "extracting", !.from = f, !.to = u].stage = "extracting"
          /\ [Learning!AtRest EXCEPT !.stage = "extracting", !.from = f, !.to = u].from = f
          /\ [Learning!AtRest EXCEPT !.stage = "extracting", !.from = f, !.to = u].to = u
          /\ [Learning!AtRest EXCEPT !.stage = "extracting", !.from = f, !.to = u].found = {}
          /\ [Learning!AtRest EXCEPT !.stage = "extracting", !.from = f, !.to = u].fresh = {}
      BY <1>2
    <3>6. PICK c \in Consumers :
            /\ consumer' = c /\ c.stage = "extracting" /\ c.from = extracted
            /\ c.to = Learning!Window(extracted) /\ c.found = {} /\ c.fresh = {}
      BY <3>3, <3>4, <3>5
    <3>. QED
      BY <1>3, <1>7, <3>1, <3>2, <3>6, WorkerMoves DEF Learning!ReadForExtraction
  <2>. QED
    BY <1>7, <2>1, <2>2 DEF Learning!ReadForExtraction
<1>. QED
  BY <1>4, <1>5, <1>6, <1>7

LEMMA SummaryWritten ==
  ASSUME Learning!Assumption, LearningInv, Learning!WriteSummary
  PROVE  LearningInv'
<1>1. /\ consumer.stage = "summarising" /\ summaries' = Append(summaries, consumer.to)
      /\ consumer' = [Learning!AtRest EXCEPT !.stage = "extraction"]
      /\ UNCHANGED <<Learning!chat, enrich, extracted, stored, linked, skipped, refused, beyond, cut>>
  BY DEF Learning!WriteSummary, Learning!unlearnt
<1>2. Learning!Covered < consumer.to /\ consumer.to <= asked /\ consumer.to \in Learning!Message
  BY <1>1, WorkerFacts, CoveredFacts DEF LearningInv, AtWork, Consumers,
     Learning!Message
<1>3. summaries \in Seq(Learning!Message)
  BY DEF LearningInv, Learning!TypeOK
<1>4. /\ summaries' \in Seq(Learning!Message) /\ Len(summaries') = Len(summaries) + 1
      /\ DOMAIN summaries' = 1..(Len(summaries) + 1) /\ Len(summaries) \in Nat
      /\ \A k \in 1..Len(summaries) : summaries'[k] = summaries[k]
      /\ summaries'[Len(summaries) + 1] = consumer.to
  BY <1>1, <1>2, <1>3
<1>5. /\ consumer' \in Consumers /\ consumer'.stage = "extraction"
      /\ consumer'.found = {} /\ consumer'.fresh = {}
  BY <1>1, WorkerFacts DEF Learning!AtRest, Consumers
<1>6. Learning!TypeOK'
  BY <1>1, <1>4, <1>5 DEF LearningInv, Learning!TypeOK, Learning!chat, Consumers
<1>7. AtWork'
  BY <1>5 DEF AtWork
<1>s. Learning!Facts' = Learning!Facts /\ Settled' = Settled
  BY <1>1, <1>5 DEF Learning!Facts, Learning!InHand, Learning!Partial, Settled
<1>8. Behind'
  BY <1>1, <1>5, <1>s DEF LearningInv, Behind, AtWork, Learning!chat
<1>c. Crowded'
  BY <1>1, <1>s DEF LearningInv, Crowded
<1>9. Rising'
  <2>. SUFFICES ASSUME NEW k \in 1..(Len(summaries) + 1)
                PROVE  /\ summaries'[k] <= asked
                       /\ k > 1 => summaries'[k] > summaries'[k - 1]
    BY <1>1, <1>4 DEF Rising, Learning!chat
  <2>1. CASE k <= Len(summaries)
    <3>1. k \in DOMAIN summaries /\ (k > 1 => k - 1 \in 1..Len(summaries))
      BY <1>3, <1>4, <2>1
    <3>2. summaries[k] <= asked /\ (k > 1 => summaries[k] > summaries[k - 1])
      BY <3>1 DEF LearningInv, Rising
    <3>. QED
      BY <1>4, <2>1, <3>1, <3>2
  <2>2. CASE k = Len(summaries) + 1
    <3>1. CASE Len(summaries) = 0
      BY <1>2, <1>4, <2>2, <3>1
    <3>2. CASE Len(summaries) # 0
      <4>1. Learning!Covered = summaries[Len(summaries)]
        BY <1>3, <3>2 DEF Learning!Covered
      <4>. QED
        BY <1>2, <1>4, <2>2, <3>2, <4>1
    <3>. QED
      BY <3>1, <3>2
  <2>. QED
    BY <1>4, <2>1, <2>2
<1>. QED
  BY <1>1, <1>6, <1>7, <1>8, <1>9, <1>c, WorkerOnly DEF LearningInv

-----------------------------------------------------------------------------
(* A step of the extraction: its window is looked at, and what is learned  *)
(* from it accounts for all of it.                                         *)
LEMMA Extracts ==
  ASSUME Learning!Assumption, LearningInv, UNCHANGED <<Learning!chat, enrich, summaries>>,
         consumer' \in Consumers, extracted' \in 0..MaxMessages,
         \A known \in {stored, linked, skipped, refused, beyond, cut}' : known \subseteq Learning!Message,
         AtWork', Behind', Crowded'
  PROVE  LearningInv'
<1>1. Learning!TypeOK'
  BY DEF LearningInv, Learning!TypeOK, Learning!chat, Consumers
<1>2. Rising'
  BY DEF LearningInv, Rising, Learning!chat
<1>. QED
  BY <1>1, <1>2, WorkerOnly DEF LearningInv

LEMMA FoundStep ==
  ASSUME Learning!Assumption, LearningInv, NEW facts \in SUBSET Learning!Looked,
         NEW discarded \in SUBSET Learning!Looked, NEW more \in SUBSET Learning!Looked,
         Learning!Found(facts, discarded, more)
  PROVE  LearningInv'
<1>1. /\ consumer.stage = "extracting" /\ Learning!FirstFew(facts, more)
      /\ UNCHANGED <<Learning!chat, enrich, summaries, stored, linked, cut>>
  BY DEF Learning!Found
<1>2. /\ consumer.from = extracted /\ consumer.from < consumer.to
      /\ consumer.to <= asked /\ consumer.found = {} /\ consumer.fresh = {}
      /\ consumer.to <= consumer.from + MaxDelta
      /\ consumer.from \in 0..MaxMessages /\ consumer.to \in 0..MaxMessages
  BY <1>1, WorkerFacts DEF LearningInv, AtWork, Consumers
<1>3. /\ 1..extracted \subseteq stored \cup cut \cup skipped \cup refused \cup beyond
      /\ stored \subseteq 1..extracted /\ stored \ linked \subseteq cut
  BY <1>1, <1>2 DEF LearningInv, Behind, Learning!Facts, Learning!InHand
<1>4. Settled = stored \cup cut
  BY <1>1 DEF Settled, Learning!Partial
<1>5. CASE facts = {}
  <2>1. /\ extracted' = consumer.to /\ consumer' = Learning!AtRest
        /\ skipped' = skipped \cup (Learning!Looked \ (facts \cup discarded \cup more))
        /\ refused' = refused \cup discarded /\ beyond' = beyond \cup more
    BY <1>5 DEF Learning!Found, Learning!Pass
  <2>2. 1..extracted' \subseteq 1..extracted \cup Learning!Looked
    BY <1>2, <2>1, WorkerFacts DEF Learning!Looked
  <2>3. stored' \subseteq 1..extracted'
    BY <1>1, <1>2, <1>3, <2>1, WorkerFacts
  <2>4. Learning!Facts' = stored \cup cut /\ Settled' = Settled
    BY <1>1, <1>4, <2>1 DEF Learning!Facts, Learning!InHand, Learning!AtRest, Settled,
       Learning!Partial
  <2>5. 1..extracted' \subseteq Learning!Facts' \cup skipped' \cup refused' \cup beyond'
    BY <1>3, <1>5, <2>1, <2>2, <2>4
  <2>6. Behind'
    BY <1>1, <1>2, <1>3, <2>1, <2>3, <2>5 DEF Behind, Learning!chat
  <2>7. Crowded'
    <3>1. ASSUME NEW m \in more PROVE Crowd(m, facts)
      BY <1>1, <1>5, <3>1 DEF Crowd, Learning!FirstFew
    <3>. QED
      BY <1>5, <2>1, <2>4, <3>1 DEF LearningInv, Crowded
  <2>8. AtWork'
    BY <2>1 DEF AtWork, Learning!AtRest
  <2>. QED
    BY <1>1, <1>2, <2>1, <2>6, <2>7, <2>8, WorkerFacts, Extracts
<1>6. CASE facts # {}
  <2>1. /\ UNCHANGED <<extracted, skipped, refused, beyond>>
        /\ consumer' = [consumer EXCEPT !.stage = "storing", !.found = facts,
                           !.refused = discarded, !.beyond = more]
    BY <1>6 DEF Learning!Found, Learning!unlearnt
  <2>2. /\ consumer' \in Consumers /\ consumer'.stage = "storing"
        /\ consumer'.found = facts /\ consumer'.fresh = {}
        /\ consumer'.refused = discarded /\ consumer'.beyond = more
        /\ consumer'.from = consumer.from /\ consumer'.to = consumer.to
    BY <1>2, <2>1, WorkerFacts DEF Consumers
  <2>3. Learning!Looked' = Learning!Looked
    BY <2>2 DEF Learning!Looked
  <2>4. Learning!FirstFew(consumer'.found, consumer'.beyond)
    BY <1>1, <2>2
  <2>5. AtWork'
    BY <1>1, <1>2, <2>1, <2>2, <2>3, <2>4 DEF AtWork, Learning!chat, Learning!FirstFew
  <2>6. Behind'
    BY <1>1, <1>3, <2>1, <2>2, WorkerFacts DEF LearningInv, Behind, Learning!Facts,
       Learning!InHand, Learning!chat
  <2>7. Settled' = Settled
    BY <1>1, <1>2, <1>4, <2>1, <2>2 DEF Settled, Learning!Partial
  <2>8. Crowded'
    BY <2>1, <2>7 DEF LearningInv, Crowded
  <2>. QED
    BY <1>1, <2>1, <2>2, <2>5, <2>6, <2>8, WorkerFacts, Extracts
<1>. QED
  BY <1>5, <1>6

LEMMA StoreStep ==
  ASSUME Learning!Assumption, LearningInv, NEW fact \in Learning!Message, Learning!Store(fact)
  PROVE  LearningInv'
<1>1. /\ consumer.stage = "storing" /\ fact \in consumer.found
      /\ IF Learning!Partial THEN UNCHANGED <<extracted, skipped, refused, beyond>>
         ELSE Learning!Pass(consumer.found, consumer.refused, consumer.beyond)
      /\ stored' = stored \cup {fact} /\ linked' = linked \cup consumer.fresh
      /\ consumer' = [consumer EXCEPT !.found = @ \ {fact}, !.fresh = {fact}]
      /\ UNCHANGED <<Learning!chat, enrich, summaries, cut>>
  BY DEF Learning!Store, Learning!unlearnt
<1>p. ASSUME ~Learning!Partial
      PROVE  /\ extracted' = consumer.to
             /\ skipped' = skipped \cup (Learning!Looked \ (consumer.found \cup consumer.refused \cup consumer.beyond))
             /\ refused' = refused \cup consumer.refused
             /\ beyond' = beyond \cup consumer.beyond
  BY <1>1, <1>p DEF Learning!Pass
<1>2. /\ consumer.from < consumer.to /\ consumer.to <= asked
      /\ consumer.to <= consumer.from + MaxDelta
      /\ consumer.found \subseteq Learning!Looked
      /\ consumer.refused \subseteq Learning!Looked /\ consumer.beyond \subseteq Learning!Looked
      /\ ~Learning!Partial => Learning!FirstFew(consumer.found, consumer.beyond)
      /\ \/ extracted = consumer.from /\ consumer.fresh = {}
         \/ extracted = consumer.to
      /\ consumer.from \in 0..MaxMessages /\ consumer.to \in 0..MaxMessages
      /\ consumer.fresh \subseteq Learning!Message
  BY <1>1, WorkerFacts DEF LearningInv, AtWork, Consumers
<1>3. /\ consumer' \in Consumers /\ consumer'.stage = "storing"
      /\ consumer'.found = consumer.found \ {fact} /\ consumer'.fresh = {fact}
      /\ consumer'.refused = consumer.refused /\ consumer'.beyond = consumer.beyond
      /\ consumer'.from = consumer.from /\ consumer'.to = consumer.to
  BY <1>1, WorkerFacts DEF Consumers
<1>e. extracted' = consumer.to /\ Learning!Partial'
  BY <1>1, <1>3, <1>p DEF Learning!Partial
<1>4. /\ 1..extracted \subseteq stored \cup cut \cup consumer.found \cup skipped \cup refused \cup beyond
      /\ stored \subseteq 1..extracted /\ stored \ linked \subseteq cut \cup consumer.fresh
  BY <1>1 DEF LearningInv, Behind, Learning!Facts, Learning!InHand
<1>5. AtWork'
  <2>1. Learning!Looked' = Learning!Looked
    BY <1>3 DEF Learning!Looked
  <2>. QED
    BY <1>1, <1>2, <1>3, <1>e, <2>1 DEF AtWork, Learning!chat
<1>s. /\ Learning!Facts' = stored \cup cut \cup consumer.found
      /\ Settled' = stored \cup cut \cup consumer.found
  BY <1>1, <1>3, <1>e DEF Learning!Facts, Learning!InHand, Settled
<1>6. 1..extracted' \subseteq Learning!Facts' \cup skipped' \cup refused' \cup beyond'
  <2>2. CASE Learning!Partial
    BY <1>1, <1>4, <1>s, <2>2
  <2>3. CASE ~Learning!Partial
    <3>1. extracted = consumer.from
      BY <1>1, <1>2, <2>3 DEF Learning!Partial
    <3>2. 1..extracted' \subseteq 1..extracted \cup Learning!Looked
      BY <1>e, <1>2, <3>1 DEF Learning!Looked
    <3>. QED
      BY <1>p, <1>4, <1>s, <2>3, <3>2
  <2>. QED
    BY <2>2, <2>3
<1>7. stored' \subseteq 1..extracted'
  <2>1. fact \in 1..consumer.to
    BY <1>1, <1>2 DEF Learning!Looked, Learning!Message
  <2>2. 1..extracted \subseteq 1..consumer.to
    BY <1>2
  <2>. QED
    BY <1>1, <1>4, <1>e, <2>1, <2>2
<1>8. Behind'
  BY <1>1, <1>2, <1>3, <1>4, <1>6, <1>7, <1>e DEF Behind, Learning!chat
<1>c. Crowded'
  <2>1. Settled \subseteq Settled'
    BY <1>s DEF Settled
  <2>2. \A m \in beyond : \E S \in SUBSET Settled' : Crowd(m, S)
    BY <2>1 DEF LearningInv, Crowded
  <2>3. CASE Learning!Partial
    BY <1>1, <2>2, <2>3 DEF Crowded
  <2>4. CASE ~Learning!Partial
    <3>1. ASSUME NEW m \in consumer.beyond PROVE Crowd(m, consumer.found)
      <4>1. Learning!Cardinality(consumer.found) = MaxFound
        BY <1>2, <2>4, <3>1 DEF Learning!FirstFew
      <4>2. ASSUME NEW n \in consumer.found PROVE Around(m, n)
        <5>1. n \in (consumer.from + 1)..consumer.to /\ m \in (consumer.from + 1)..consumer.to
          BY <1>2, <3>1, <4>2 DEF Learning!Looked
        <5>. QED
          BY <1>2, <5>1, WorkerFacts DEF Around
      <4>. QED
        BY <4>1, <4>2 DEF Crowd
    <3>2. consumer.found \subseteq Settled'
      BY <1>s
    <3>3. \A m \in beyond' : \E S \in SUBSET Settled' : Crowd(m, S)
      BY <1>p, <2>2, <2>4, <3>1, <3>2
    <3>. QED
      BY <3>3 DEF Crowded
  <2>. QED
    BY <2>3, <2>4
<1>9. \A known \in {stored, linked, skipped, refused, beyond, cut}' : known \subseteq Learning!Message
  <2>1. CASE Learning!Partial
    BY <1>1, <1>2, <2>1, WorkerFacts
  <2>2. CASE ~Learning!Partial
    BY <1>1, <1>2, <1>p, <2>2, WorkerFacts
  <2>. QED
    BY <2>1, <2>2
<1>. QED
  BY <1>1, <1>2, <1>3, <1>5, <1>8, <1>9, <1>c, <1>e, Extracts

LEMMA FinishStep ==
  ASSUME Learning!Assumption, LearningInv, Learning!FinishExtraction
  PROVE  LearningInv'
<1>1. /\ consumer.stage = "storing" /\ consumer.found = {}
      /\ linked' = linked \cup consumer.fresh /\ consumer' = Learning!AtRest
      /\ UNCHANGED <<Learning!chat, enrich, summaries, extracted, stored, skipped, refused,
                     beyond, cut>>
  BY DEF Learning!FinishExtraction, Learning!unlearnt
<1>2. consumer.fresh \subseteq Learning!Message
  BY WorkerFacts DEF Consumers
<1>3. AtWork'
  BY <1>1 DEF AtWork, Learning!AtRest
<1>s. Learning!Facts' = Learning!Facts /\ Settled' = Settled
  BY <1>1 DEF Learning!Facts, Learning!InHand, Learning!AtRest, Settled, Learning!Partial
<1>4. Behind'
  BY <1>1, <1>s DEF LearningInv, Behind, Learning!AtRest, Learning!chat
<1>c. Crowded'
  BY <1>1, <1>s DEF LearningInv, Crowded
<1>5. \A known \in {stored, linked, skipped, refused, beyond, cut}' : known \subseteq Learning!Message
  BY <1>1, <1>2, WorkerFacts
<1>. QED
  BY <1>1, <1>3, <1>4, <1>5, <1>c, WorkerFacts, Extracts

(* A window that breaks off, by a failure or by a restart.                 *)
LEMMA BreaksOff ==
  ASSUME Learning!Assumption, LearningInv, Learning!Abandon, consumer' = Learning!AtRest, extracted' = extracted,
         asked' = asked
  PROVE  /\ AtWork' /\ Behind' /\ Crowded'
         /\ \A known \in {stored, linked, skipped, refused, beyond, cut}' : known \subseteq Learning!Message
<1>1. /\ cut' = IF Learning!Partial THEN cut \cup consumer.found \cup consumer.fresh ELSE cut
      /\ UNCHANGED <<summaries, stored, linked, skipped, refused, beyond>>
  BY DEF Learning!Abandon, Learning!unlearnt
<1>2. consumer.found \subseteq Learning!Message /\ consumer.fresh \subseteq Learning!Message
  BY WorkerFacts DEF Consumers
<1>3. AtWork'
  BY DEF AtWork, Learning!AtRest
<1>s. Learning!Facts' = stored \cup cut' /\ Settled' = stored \cup cut'
  BY <1>1 DEF Learning!Facts, Learning!InHand, Learning!AtRest, Settled, Learning!Partial
<1>4. /\ 1..extracted \subseteq stored \cup cut' \cup skipped \cup refused \cup beyond
      /\ stored \ linked \subseteq cut'
  <2>1. CASE Learning!Partial
    BY <1>1, <2>1 DEF LearningInv, Behind, Learning!Facts, Learning!InHand, Learning!Partial
  <2>2. CASE ~Learning!Partial
    <3>1. CASE consumer.stage = "storing"
      <4>1. /\ extracted = consumer.from /\ consumer.fresh = {}
            /\ consumer.found \subseteq Learning!Looked
            /\ extracted \in Nat /\ consumer.to \in Nat
        BY <2>2, <3>1, WorkerFacts DEF LearningInv, AtWork, Learning!Partial,
           Consumers
      <4>2. \A m \in 1..extracted : m \notin consumer.found
        BY <4>1 DEF Learning!Looked
      <4>. QED
        BY <1>1, <2>2, <3>1, <4>1, <4>2 DEF LearningInv, Behind, Learning!Facts, Learning!InHand
    <3>2. CASE consumer.stage # "storing"
      BY <1>1, <2>2, <3>2 DEF LearningInv, Behind, Learning!Facts, Learning!InHand, AtWork
    <3>. QED
      BY <3>1, <3>2
  <2>. QED
    BY <2>1, <2>2
<1>5. Behind'
  BY <1>1, <1>4, <1>s DEF LearningInv, Behind, Learning!AtRest
<1>c. Crowded'
  <2>1. Settled \subseteq Settled'
    BY <1>1, <1>s DEF Settled
  <2>. QED
    BY <1>1, <2>1 DEF LearningInv, Crowded
<1>6. \A known \in {stored, linked, skipped, refused, beyond, cut}' : known \subseteq Learning!Message
  BY <1>1, <1>2, WorkerFacts
<1>. QED
  BY <1>3, <1>5, <1>6, <1>c

LEMMA FailureStep ==
  ASSUME Learning!Assumption, LearningInv, Learning!ExtractionFails
  PROVE  LearningInv'
<1>1. /\ Learning!Abandon /\ consumer' = Learning!AtRest /\ extracted' = extracted
      /\ UNCHANGED <<Learning!chat, enrich, summaries>>
  BY DEF Learning!ExtractionFails, Learning!AfterFailure, Learning!Abandon
<1>2. asked' = asked
  BY <1>1 DEF Learning!chat
<1>. QED
  BY <1>1, <1>2, BreaksOff, WorkerFacts, Extracts

LEMMA RestartStep ==
  ASSUME Learning!Assumption, LearningInv, Learning!Restart
  PROVE  LearningInv'
<1>1. /\ turns' = [t \in Turn |-> Learning!Away] /\ enrich' = 0 /\ consumer' = Learning!AtRest
      /\ Learning!Abandon /\ UNCHANGED <<asked, profile, crossed, extracted>>
  BY DEF Learning!Restart
<1>2. /\ AtWork' /\ Behind' /\ Crowded'
      /\ \A known \in {stored, linked, skipped, refused, beyond, cut}' : known \subseteq Learning!Message
  BY <1>1, BreaksOff
<1>3. summaries' = summaries
  BY <1>1 DEF Learning!Abandon
<1>4. Learning!TypeOK'
  <2>1. turns' \in [Turn -> [ stage : {"idle", "counting", "counted", "landed"},
                             seen : Learning!NoProfile..MaxMessages ]]
    BY <1>1, WorkerFacts DEF Learning!Away, Learning!NoProfile
  <2>2. consumer' \in Consumers /\ enrich' \in Nat
    BY <1>1, WorkerFacts
  <2>. QED
    BY <1>1, <1>2, <1>3, <2>1, <2>2 DEF LearningInv, Learning!TypeOK, Consumers
<1>5. Counting'
  BY <1>1 DEF LearningInv, Counting, Short, Learning!AtCount, Learning!Away
<1>6. Rising'
  BY <1>1, <1>3 DEF LearningInv, Rising
<1>. QED
  BY <1>2, <1>4, <1>5, <1>6 DEF LearningInv

-----------------------------------------------------------------------------
LEMMA LearningInvNext ==
  ASSUME Learning!Assumption, LearningInv, [Learning!Next]_learningVars
  PROVE  LearningInv'
<1>1. CASE UNCHANGED learningVars
  <2>1. /\ UNCHANGED <<asked, profile, turns, enrich, consumer, summaries, extracted,
                       stored, linked, skipped, refused, beyond, cut, crossed>>
        /\ Learning!Covered' = Learning!Covered /\ Learning!Looked' = Learning!Looked
        /\ Learning!Facts' = Learning!Facts /\ Learning!Partial' = Learning!Partial
        /\ Settled' = Settled
    BY <1>1 DEF learningVars, Learning!Covered, Learning!Looked, Learning!InHand,
       Learning!Facts, Learning!Partial, Settled
  <2>2. Learning!TypeOK'
    BY <2>1 DEF LearningInv, Learning!TypeOK
  <2>3. Counting' /\ Rising'
    BY <2>1 DEF LearningInv, Counting, Short, Learning!AtCount, Rising
  <2>4. AtWork'
    BY <2>1 DEF LearningInv, AtWork
  <2>5. Behind' /\ Crowded'
    BY <2>1 DEF LearningInv, Behind, Crowded
  <2>. QED
    BY <2>2, <2>3, <2>4, <2>5 DEF LearningInv
<1>2. CASE Learning!Next
  <2>1. ASSUME NEW t \in Turn,
               Learning!Begin(t) \/ Learning!CountMessage(t) \/ Learning!SpoiltByProfile(t)
                 \/ Learning!CommitMidway(t) \/ Learning!EndTurn(t) \/ Learning!LoseTurn(t)
        PROVE  LearningInv'
    BY <2>1, TurnSteps
  <2>2. ASSUME Learning!TakeJob \/ (\E long \in BOOLEAN : Learning!ReadForSummary(long)) \/ Learning!SummaryFails
                 \/ Learning!ReadForExtraction
        PROVE  LearningInv'
    BY <2>2, SummarySteps
  <2>3. ASSUME Learning!WriteSummary PROVE LearningInv'
    BY <2>3, SummaryWritten
  <2>4. ASSUME NEW facts \in SUBSET Learning!Looked, NEW discarded \in SUBSET Learning!Looked,
               NEW more \in SUBSET Learning!Looked, Learning!Found(facts, discarded, more)
        PROVE  LearningInv'
    BY <2>4, FoundStep
  <2>5. ASSUME NEW fact \in Learning!Message, Learning!Store(fact) PROVE LearningInv'
    BY <2>5, StoreStep
  <2>6. ASSUME Learning!FinishExtraction PROVE LearningInv'
    BY <2>6, FinishStep
  <2>7. ASSUME Learning!ExtractionFails PROVE LearningInv'
    BY <2>7, FailureStep
  <2>8. ASSUME Learning!Restart PROVE LearningInv'
    BY <2>8, RestartStep
  <2>. QED
    BY <1>2, <2>1, <2>2, <2>3, <2>4, <2>5, <2>6, <2>7, <2>8 DEF Learning!Next
<1>. QED
  BY <1>1, <1>2

LEMMA LearningInvHolds == ASSUME Learning!Assumption PROVE Learning!Spec => []LearningInv
<1>1. Learning!Init => LearningInv
  BY LearningInvInit
<1>2. LearningInv /\ [Learning!Next]_learningVars => LearningInv'
  BY LearningInvNext
<1>. QED
  BY <1>1, <1>2, PTL DEF Learning!Spec, Learning!learningVars, learningVars

LEMMA LearningTypes == ASSUME Learning!Assumption PROVE Learning!Spec => []Learning!TypeOK
<1>1. LearningInv => Learning!TypeOK
  BY DEF LearningInv
<1>. QED
  BY <1>1, LearningInvHolds, PTL

LEMMA LearnsAll == ASSUME Learning!Assumption PROVE Learning!Spec => []Learning!LearnsFromEveryTurn
<1>1. ASSUME LearningInv, NEW m \in beyond PROVE Learning!Cardinality(Learning!Nearby(m)) >= MaxFound
  <2>1. PICK S \in SUBSET Settled : Crowd(m, S)
    BY <1>1 DEF LearningInv, Crowded
  <2>2. Settled \subseteq Learning!Facts /\ Learning!Facts \subseteq 1..MaxMessages
    BY <1>1, WorkerFacts DEF Settled, Learning!Partial, Learning!Facts, Learning!InHand,
       Consumers, Learning!Message
  <2>3. S \subseteq Learning!Nearby(m) /\ Learning!Nearby(m) \subseteq 1..MaxMessages
    BY <2>1, <2>2 DEF Crowd, Around, Learning!Nearby
  <2>4. IsFiniteSet(Learning!Nearby(m))
    <3>1. IsFiniteSet(1..MaxMessages)
      BY <1>1, WorkerFacts, FS_Interval
    <3>. QED
      BY <2>3, <3>1, FS_Subset
  <2>5. Cardinality(S) <= Cardinality(Learning!Nearby(m))
    BY <2>3, <2>4, FS_Subset
  <2>6. IsFiniteSet(S) /\ Cardinality(S) \in Nat /\ Cardinality(Learning!Nearby(m)) \in Nat
    BY <2>3, <2>4, FS_Subset, FS_CardinalityType
  <2>7. Cardinality(S) = MaxFound
    BY <2>1, LearningCounts DEF Crowd
  <2>. QED
    BY <2>5, <2>6, <2>7, LearningCounts
<1>2. LearningInv => Learning!LearnsFromEveryTurn
  BY <1>1 DEF LearningInv, Behind, Rising, Counting, Short, Learning!LearnsFromEveryTurn
<1>. QED
  BY <1>2, LearningInvHolds, PTL

-----------------------------------------------------------------------------
(* EXTERNAL SERVERS.  What the boot has found, whose connection is whose,  *)
(* and what has been returned.                                             *)

-----------------------------------------------------------------------------
(* A tool as boot finds it: of a server that has an entry, green only when *)
(* that entry lists its key.                                               *)
Known(server) ==
  \E i \in DOMAIN Configured : Configured[i].server = server /\ Configured[i].valid
Keys == {Key(server, tool) : server \in External!Servers, tool \in External!Tools}
OfServer ==
  {f \in [key : Keys, server : External!Servers, tool : External!Tools, green : BOOLEAN] :
     Known(f.server) /\ (f.green => f.key \in Listed[f.server])}

(* A connection and the lines on it.  A call is vouched for when its tool  *)
(* has run or its server claims so, as one behind HTTP always does; a line *)
(* that would be its answer is sent for no other.                          *)
Vouched(u, c) == u = "boot" \/ c.ran \/ c.claimed
Backed(u, c, line) == line.id = 2 /\ line.says \in {"result", "request"} => Vouched(u, c)
Ended == {"answered", "failed", "timeout"}
Sane(u, c, l) ==
  /\ c \in External!Link /\ l \in Seq(External!Line)
  /\ c.phase = "closed" => l = << >>
  /\ c.phase # "closed" => Known(c.server)
  /\ c.phase # "closed" => External!Entry(c.server).process \/ c.claimed
  /\ c.phase = "greeting" => c.id = 1
  /\ c.phase = "asking" => c.id = 2
  /\ c.phase = "closing" => c.ending \in Ended
  /\ c.phase = "closing" /\ c.ending = "answered" => Vouched(u, c)
  /\ \A i \in 1..Len(l) : Backed(u, c, l[i])

Visited == {i \in External!ParseConfig : Configured[i].enabled}

Connected ==
  /\ connections \in [External!User -> External!Link] /\ lines \in [External!User -> Seq(External!Line)]
  /\ \A u \in External!User : Sane(u, connections[u], lines[u])
  /\ connections["boot"].phase # "closed" => boot \in Visited

Booted ==
  /\ boot \in 1..(Len(Configured) + 2)
  /\ found \in Seq(OfServer)
  /\ \A k \in DOMAIN catalog :
       catalog[k] \in OfServer /\ catalog[k].key = k /\ k \notin Builtin

Behaved ==
  /\ left \subseteq [phase : {"greeting", "closing"}, ending : {"failed", "timeout"}]
  /\ \A p \in left : p.phase = "greeting" \/ (p.phase = "closing" /\ p.ending = "timeout")
  /\ returned \subseteq [ending : Ended, ran : BOOLEAN, claimed : BOOLEAN]
  /\ \A r \in returned : r.ending = "answered" => r.ran \/ r.claimed
  /\ opened \in 0..MaxOpened

Served == Connected /\ Booted /\ Behaved

-----------------------------------------------------------------------------
(* What the configuration says.                                            *)
LEMMA EntryFacts ==
  ASSUME External!Assumption, NEW server, Known(server)
  PROVE  External!Entry(server).process \in BOOLEAN /\ server \in External!Servers
<1>1. Configured \in
        Seq([server : STRING, valid : BOOLEAN, enabled : BOOLEAN, process : BOOLEAN])
  BY DEF External!Assumption
<1>2. PICK i \in DOMAIN Configured :
        Configured[i].server = server /\ Configured[i].valid
  BY DEF Known
<1>3. \A j \in DOMAIN Configured :
        Configured[j] \in
          [server : STRING, valid : BOOLEAN, enabled : BOOLEAN, process : BOOLEAN]
  <2>. DEFINE E == [server : STRING, valid : BOOLEAN, enabled : BOOLEAN, process : BOOLEAN]
  <2>1. Configured \in Seq(E)
    BY <1>1
  <2>. HIDE DEF E
  <2>2. \A j \in DOMAIN Configured : Configured[j] \in E
    BY <2>1
  <2>. QED
    BY <2>2 DEF E
<1>. QED
  BY <1>2, <1>3 DEF External!Entry, External!Servers

LEMMA ClosedFacts ==
  ASSUME External!Assumption, NEW u, NEW l \in Seq(External!Line), l = << >>
  PROVE  Sane(u, External!Closed, l)
<1>1. External!Closed \in External!Link /\ External!Closed.phase = "closed"
  <2>1. 0 \in 0..MaxLines /\ 0 \in 0..2
    BY DEF External!Assumption
  <2>2. "" \in External!Servers \cup {""} /\ "none" \in External!Tools \cup {"none", "tools/list"}
    OBVIOUS
  <2>3. FALSE \in BOOLEAN
    OBVIOUS
  <2>. HIDE DEF External!Servers, External!Tools
  <2>4. External!Closed \in External!Link
    BY <2>1, <2>2, <2>3 DEF External!Closed, External!Link
  <2>. QED
    BY <2>4 DEF External!Closed
<1>2. Len(l) = 0
  OBVIOUS
<1>. QED
  BY <1>1, <1>2 DEF Sane

(* What holds of 0 and goes from each number to the next holds up to n.    *)
LEMMA ReachedByOnes ==
  ASSUME NEW n \in Nat, NEW M, 0 \in M, \A k \in 1..n : k - 1 \in M => k \in M
  PROVE  n \in M
<1>. DEFINE S == {k \in 1..n : k \notin M}
<1>1. SUFFICES ASSUME n \notin M PROVE FALSE
  OBVIOUS
<1>2. S \in SUBSET (1..n) /\ n \in S
  BY <1>1
<1>3. PICK k \in S : \A j \in 1..(k - 1) : j \notin S
  <2>. HIDE DEF S
  <2>. QED
    BY <1>2, AgentRun!FirstOfAll
<1>4. k \in 1..n /\ k \notin M
  OBVIOUS
<1>5. k - 1 \in M
  BY <1>3, <1>4
<1>. QED
  BY <1>4, <1>5

(* A comprehension with a condition looks at one place after the other.    *)
LEMMA ChosenRecur ==
  ASSUME NEW n \in Nat, NEW S
  PROVE  /\ External!ChosenUpTo(n, S)[0] = << >>
         /\ \A k \in 1..n :
              External!ChosenUpTo(n, S)[k]
                = IF k \in S THEN Append(External!ChosenUpTo(n, S)[k - 1], k)
                  ELSE External!ChosenUpTo(n, S)[k - 1]
<1>. DEFINE f == External!ChosenUpTo(n, S)
            Step(g, k) == IF k \in S THEN Append(g[k - 1], k) ELSE g[k - 1]
            Body(g, k) == IF k = 0 THEN << >> ELSE Step(g, k)
            Is(g, m) == g = [k \in 0..m |-> Body(g, k)]
            M == {m \in 0..n : \E g : Is(g, m)}
<1>1. f = CHOOSE g : Is(g, n)
  BY DEF External!ChosenUpTo
<1>2. ASSUME NEW g, NEW h, NEW k, h[k - 1] = g[k - 1] PROVE Step(h, k) = Step(g, k)
  BY <1>2
<1>. HIDE DEF Step
<1>3. 0 \in M
  <2>1. Is([k \in 0..0 |-> << >>], 0)
    OBVIOUS
  <2>2. \E g : Is(g, 0)
    <3>. HIDE DEF Is
    <3>. QED
      BY <2>1
  <2>. QED
    BY <2>2
<1>4. ASSUME NEW m \in 1..n, m - 1 \in M PROVE m \in M
  <2>1. PICK g : Is(g, m - 1)
    BY <1>4
  <2>. DEFINE h == [k \in 0..m |-> IF k < m THEN g[k] ELSE Body(g, m)]
  <2>2. ASSUME NEW k \in 0..m PROVE h[k] = Body(h, k)
    <3>1. k # 0 => h[k - 1] = g[k - 1]
      OBVIOUS
    <3>2. Body(h, k) = Body(g, k)
      <4>. HIDE DEF h
      <4>. QED
        BY <3>1, <1>2
    <3>3. k < m => h[k] = Body(g, k)
      BY <2>1
    <3>. QED
      BY <3>2, <3>3
  <2>3. \E i : Is(i, m)
    <3>1. Is(h, m)
      BY <2>2
    <3>. HIDE DEF Is, h
    <3>. QED
      BY <3>1
  <2>. QED
    BY <2>3
<1>5. Is(f, n)
  <2>1. n \in M
    <3>. HIDE DEF M
    <3>. QED
      BY <1>3, <1>4, ReachedByOnes
  <2>2. \E g : Is(g, n)
    BY <2>1
  <2>. HIDE DEF Is, f
  <2>. QED
    BY <1>1, <2>2
<1>6. \A k \in 0..n : f[k] = Body(f, k)
  BY <1>5
<1>. QED
  BY <1>6 DEF Step

(* What it takes are places of the sequence.                               *)
LEMMA ChosenArePlaces ==
  ASSUME NEW n \in Nat, NEW S
  PROVE  External!Chosen(n, S) \in Seq(1..n)
<1>. DEFINE c == External!ChosenUpTo(n, S)
            M == {k \in 0..n : c[k] \in Seq(1..n)}
<1>1. c[0] = << >> /\ \A k \in 1..n : c[k] = IF k \in S THEN Append(c[k - 1], k) ELSE c[k - 1]
  BY ChosenRecur
<1>. HIDE DEF c
<1>2. 0 \in M
  <2>1. << >> \in Seq(1..n)
    OBVIOUS
  <2>2. c[0] \in Seq(1..n)
    <3>. HIDE DEF M
    <3>. QED
      BY <1>1, <2>1, Zenon
  <2>. QED
    BY <2>2
<1>3. ASSUME NEW k \in 1..n, k - 1 \in M PROVE k \in M
  <2>1. c[k - 1] \in Seq(1..n)
    BY <1>3
  <2>2. CASE k \in S
    <3>1. PICK s, t : s = c[k - 1] /\ t = Append(s, k)
      OBVIOUS
    <3>2. c[k] = t
      <4>. HIDE DEF M
      <4>. QED
        BY <1>1, <2>2, <3>1, Zenon
    <3>3. s \in Seq(1..n)
      BY <2>1, <3>1, Zenon
    <3>4. t \in Seq(1..n)
      <4>1. Append(s, k) \in Seq(1..n)
        <5>. HIDE DEF M
        <5>. QED
          BY <3>3
      <4>. QED
        BY <3>1, <4>1, Zenon
    <3>. QED
      BY <3>2, <3>4
  <2>3. CASE k \notin S
    <3>1. c[k] = c[k - 1]
      BY <1>1, <2>3
    <3>. QED
      BY <2>1, <3>1
  <2>. QED
    BY <2>2, <2>3
<1>4. n \in M
  <2>. HIDE DEF M
  <2>. QED
    BY <1>2, <1>3, ReachedByOnes
<1>. QED
  BY <1>4 DEF c, External!Chosen

(* What is left of a server's offer is a sequence of tools.                *)
LEMMA ToolsAreListed ==
  ASSUME External!Assumption, NEW server \in External!Servers
  PROVE  External!ListTools(server) \in Seq(External!Tools)
<1>. DEFINE all == Offers[server]
            m == IF Len(all) < MaxTools THEN Len(all) ELSE MaxTools
            Named(s) == {i \in DOMAIN s : s[i] # ""}
<1>1. all \in Seq(STRING) /\ MaxTools \in Nat
  BY DEF External!Assumption
<1>2. \A i \in 1..Len(all) : all[i] \in External!Tools
  BY <1>1 DEF External!Tools
<1>. HIDE DEF all
<1>3. PICK l \in Nat : l = m /\ l <= Len(all)
  BY <1>1
<1>4. PICK offer : offer = SubSeq(all, 1, l)
  OBVIOUS
<1>5. offer \in Seq(STRING) /\ Len(offer) = l /\ \A i \in 1..l : offer[i] = all[i]
  BY <1>1, <1>3, <1>4
<1>6. PICK places : places = External!Chosen(l, Named(offer))
  OBVIOUS
<1>7. places \in Seq(1..l)
  BY <1>6, ChosenArePlaces
<1>8. External!ListTools(server) = [k \in DOMAIN places |-> offer[places[k]]]
  BY <1>3, <1>4, <1>5, <1>6 DEF External!ListTools, External!Kept, External!Taken, all
<1>9. ASSUME NEW k \in DOMAIN places PROVE offer[places[k]] \in External!Tools
  <2>1. PICK i \in 1..l : i = places[k]
    <3>. HIDE DEF Named, m
    <3>. QED
      BY <1>7
  <2>2. offer[i] = all[i] /\ i \in 1..Len(all)
    BY <1>3, <1>5
  <2>3. all[i] \in External!Tools
    BY <1>2, <2>2, Zenon
  <2>. QED
    BY <2>1, <2>2, <2>3, Zenon
<1>10. PICK j \in Nat : DOMAIN places = 1..j
  BY <1>7
<1>. QED
  <2>1. External!ListTools(server) \in [1..j -> External!Tools]
    BY <1>8, <1>9, <1>10, Zenon
  <2>. QED
    BY <1>10, <2>1

(* What a server offers is a sequence of its own tools.                    *)
LEMMA DiscoveredFacts ==
  ASSUME External!Assumption, NEW server, Known(server)
  PROVE  External!Discovered(server) \in Seq(OfServer)
<1>1. server \in External!Servers
  BY EntryFacts
<1>2. External!ListTools(server) \in Seq(External!Tools)
  BY <1>1, ToolsAreListed
<1>3. /\ DOMAIN External!ListTools(server) = 1..Len(External!ListTools(server))
      /\ Len(External!ListTools(server)) \in Nat
      /\ \A i \in 1..Len(External!ListTools(server)) : External!ListTools(server)[i] \in External!Tools
  BY <1>2
<1>4. ASSUME NEW tool \in External!Tools PROVE External!Borrowed(server, tool) \in OfServer
  <2>1. Key(server, tool) \in Keys
    BY <1>1 DEF Keys
  <2>2. External!Green(server, Key(server, tool)) \in BOOLEAN
    BY DEF External!Green
  <2>3. External!Borrowed(server, tool) \in
          [key : Keys, server : External!Servers, tool : External!Tools, green : BOOLEAN]
    BY <1>1, <2>1, <2>2 DEF External!Borrowed
  <2>4. /\ External!Borrowed(server, tool).server = server
        /\ External!Borrowed(server, tool).key = Key(server, tool)
        /\ External!Borrowed(server, tool).green <=> External!Green(server, Key(server, tool))
    BY DEF External!Borrowed
  <2>. QED
    BY <2>3, <2>4 DEF OfServer, External!Green
<1>5. External!Discovered(server) \in [1..Len(External!ListTools(server)) -> OfServer]
  BY <1>3, <1>4 DEF External!Discovered
<1>. QED
  BY <1>3, <1>5

-----------------------------------------------------------------------------
(* One connection changes.                                                 *)
LEMMA OneChanges ==
  ASSUME Connected, NEW u \in External!User, NEW c, NEW l, Sane(u, c, l),
         connections' = [connections EXCEPT ![u] = c],
         lines' = [lines EXCEPT ![u] = l],
         u = "boot" /\ c.phase # "closed" => boot' \in Visited,
         u # "boot" => boot' = boot
  PROVE  Connected'
<1>1. c \in External!Link /\ l \in Seq(External!Line)
  BY DEF Sane
<1>2. /\ connections' \in [External!User -> External!Link] /\ lines' \in [External!User -> Seq(External!Line)]
      /\ connections'[u] = c /\ lines'[u] = l
      /\ \A v \in External!User \ {u} : connections'[v] = connections[v] /\ lines'[v] = lines[v]
  BY <1>1 DEF Connected
<1>3. \A v \in External!User : Sane(v, connections'[v], lines'[v])
  BY <1>2 DEF Connected
<1>4. connections'["boot"].phase # "closed" => boot' \in Visited
  BY <1>2 DEF Connected, External!User
<1>. QED
  BY <1>2, <1>3, <1>4 DEF Connected

(* What is known of one connection.                                        *)
LEMMA LinkFacts ==
  ASSUME External!Assumption, Served, NEW u \in External!User
  PROVE  /\ Sane(u, connections[u], lines[u])
         /\ connections[u] \in External!Link /\ lines[u] \in Seq(External!Line)
         /\ u = "boot" /\ connections[u].phase # "closed" =>
              boot \in Visited /\ boot <= Len(Configured)
         /\ Len(Configured) \in Nat /\ boot \in Nat
<1>1. Len(Configured) \in Nat /\ DOMAIN Configured = 1..Len(Configured)
  BY DEF External!Assumption
<1>2. boot \in Visited => boot <= Len(Configured)
  BY <1>1 DEF Visited, External!ParseConfig
<1>. QED
  BY <1>1, <1>2 DEF Served, Connected, Booted

(* The end of a connection is handed to boot or to the call.               *)
LEMMA HandSteps ==
  ASSUME External!Assumption, Served, NEW u \in External!User, NEW ending \in Ended, External!Hand(u, ending),
         ending = "answered" => Vouched(u, connections[u]),
         ending = "answered" => Known(connections[u].server),
         u = "boot" => boot <= Len(Configured),
         UNCHANGED catalog, opened' \in 0..MaxOpened,
         left' \subseteq [phase : {"greeting", "closing"}, ending : {"failed", "timeout"}],
         \A p \in left' : p.phase = "greeting" \/ (p.phase = "closing" /\ p.ending = "timeout")
  PROVE  Booted' /\ Behaved' /\ (u # "boot" => boot' = boot)
<1>1. /\ boot \in 1..(Len(Configured) + 2) /\ Len(Configured) \in Nat
      /\ found \in Seq(OfServer)
  BY DEF Served, Booted, External!Assumption
<1>2. CASE u = "boot"
  <2>1. boot' = boot + 1 /\ returned' = returned
    BY <1>2 DEF External!Hand
  <2>2. found' \in Seq(OfServer)
    <3>1. CASE ending = "answered"
      <4>1. found' = found \o External!Discovered(connections[u].server)
        BY <1>2, <3>1 DEF External!Hand
      <4>2. External!Discovered(connections[u].server) \in Seq(OfServer)
        BY <3>1, DiscoveredFacts
      <4>. QED
        BY <1>1, <4>1, <4>2
    <3>2. CASE ending # "answered"
      BY <1>1, <1>2, <3>2 DEF External!Hand
    <3>. QED
      BY <3>1, <3>2
  <2>. QED
    BY <1>1, <1>2, <2>1, <2>2 DEF Booted, Behaved, Served
<1>3. CASE u # "boot"
  <2>1. /\ boot' = boot /\ found' = found
        /\ returned' = returned \cup
              {[ending |-> ending, ran |-> connections[u].ran,
                claimed |-> connections[u].claimed]}
    BY <1>3 DEF External!Hand
  <2>2. PICK r : r = [ending |-> ending, ran |-> connections[u].ran,
                      claimed |-> connections[u].claimed]
    OBVIOUS
  <2>3. connections[u].ran \in BOOLEAN /\ connections[u].claimed \in BOOLEAN
    BY LinkFacts DEF External!Link
  <2>4. r \in [ending : Ended, ran : BOOLEAN, claimed : BOOLEAN]
    BY <2>2, <2>3
  <2>5. r.ending = "answered" => r.ran \/ r.claimed
    BY <1>3, <2>2 DEF Vouched
  <2>6. returned' = returned \cup {r}
    BY <2>1, <2>2
  <2>7. /\ returned' \subseteq [ending : Ended, ran : BOOLEAN, claimed : BOOLEAN]
        /\ \A q \in returned' : q.ending = "answered" => q.ran \/ q.claimed
    BY <2>4, <2>5, <2>6 DEF Behaved, Served
  <2>. QED
    BY <1>1, <1>3, <2>1, <2>7 DEF Booted, Behaved, Served
<1>. QED
  BY <1>2, <1>3

(* A connection, one field of it changed.                                  *)
LEMMA LinkTypes ==
  ASSUME NEW c \in External!Link, External!Assumption
  PROVE  /\ c.phase \in {"closed", "greeting", "asking", "closing"}
         /\ c.id \in 0..2 /\ c.sent \in 0..MaxLines /\ c.ran \in BOOLEAN
         /\ c.alive \in BOOLEAN /\ c.claimed \in BOOLEAN
BY DEF External!Link

LEMMA Concluded ==
  ASSUME NEW c \in External!Link, NEW ending \in Ended
  PROVE  /\ [c EXCEPT !.phase = "closing", !.ending = ending] \in External!Link
         /\ [c EXCEPT !.phase = "closing", !.ending = ending].phase = "closing"
         /\ [c EXCEPT !.phase = "closing", !.ending = ending].ending = ending
         /\ [c EXCEPT !.phase = "closing", !.ending = ending].ran = c.ran
         /\ [c EXCEPT !.phase = "closing", !.ending = ending].claimed = c.claimed
         /\ [c EXCEPT !.phase = "closing", !.ending = ending].server = c.server
         /\ [c EXCEPT !.phase = "closing", !.ending = ending].id = c.id
<1>. HIDE DEF External!Servers, External!Tools
<1>. QED
  BY DEF External!Link, Ended

NewLink(server, tool, alive) ==
  [External!Closed EXCEPT !.phase = "greeting", !.server = server, !.tool = tool,
                 !.id = 1, !.alive = alive, !.claimed = ~alive]
LEMMA Opened ==
  ASSUME External!Assumption, NEW server \in External!Servers, NEW tool \in External!Tools \cup {"none", "tools/list"},
         NEW alive \in BOOLEAN
  PROVE  /\ NewLink(server, tool, alive) \in External!Link
         /\ NewLink(server, tool, alive).phase = "greeting"
         /\ NewLink(server, tool, alive).server = server
         /\ NewLink(server, tool, alive).id = 1
         /\ NewLink(server, tool, alive).claimed = ~alive
<1>1. 0 \in 0..MaxLines /\ 1 \in 0..2 /\ FALSE \in BOOLEAN
  BY DEF External!Assumption
<1>2. server \in External!Servers \cup {""}
  OBVIOUS
<1>. HIDE DEF External!Servers, External!Tools
<1>. QED
  BY <1>1, <1>2 DEF External!Closed, External!Link, NewLink

LEMMA HasRun ==
  ASSUME External!Assumption, NEW c \in External!Link
  PROVE  /\ [c EXCEPT !.ran = TRUE] \in External!Link
         /\ [c EXCEPT !.ran = TRUE].server = c.server
         /\ [c EXCEPT !.ran = TRUE].phase = c.phase
         /\ [c EXCEPT !.ran = TRUE].id = c.id
         /\ [c EXCEPT !.ran = TRUE].ending = c.ending
         /\ [c EXCEPT !.ran = TRUE].ran = TRUE
         /\ [c EXCEPT !.ran = TRUE].claimed = c.claimed
<1>1. /\ c.sent \in 0..MaxLines /\ MaxLines \in Nat /\ 2 \in 0..2
      /\ TRUE \in BOOLEAN /\ FALSE \in BOOLEAN
  BY LinkTypes DEF External!Assumption
<1>2. c.sent < MaxLines => c.sent + 1 \in 0..MaxLines
  BY <1>1
<1>. HIDE DEF External!Servers, External!Tools
<1>. QED
  BY <1>1, <1>2 DEF External!Link

LEMMA HasStopped ==
  ASSUME External!Assumption, NEW c \in External!Link
  PROVE  /\ [c EXCEPT !.alive = FALSE] \in External!Link
         /\ [c EXCEPT !.alive = FALSE].server = c.server
         /\ [c EXCEPT !.alive = FALSE].phase = c.phase
         /\ [c EXCEPT !.alive = FALSE].id = c.id
         /\ [c EXCEPT !.alive = FALSE].ending = c.ending
         /\ [c EXCEPT !.alive = FALSE].ran = c.ran
         /\ [c EXCEPT !.alive = FALSE].claimed = c.claimed
<1>1. /\ c.sent \in 0..MaxLines /\ MaxLines \in Nat /\ 2 \in 0..2
      /\ TRUE \in BOOLEAN /\ FALSE \in BOOLEAN
  BY LinkTypes DEF External!Assumption
<1>2. c.sent < MaxLines => c.sent + 1 \in 0..MaxLines
  BY <1>1
<1>. HIDE DEF External!Servers, External!Tools
<1>. QED
  BY <1>1, <1>2 DEF External!Link

LEMMA HasSent ==
  ASSUME External!Assumption, NEW c \in External!Link, c.sent < MaxLines, NEW claims \in BOOLEAN
  PROVE  /\ [c EXCEPT !.sent = @ + 1, !.claimed = claims] \in External!Link
         /\ [c EXCEPT !.sent = @ + 1, !.claimed = claims].server = c.server
         /\ [c EXCEPT !.sent = @ + 1, !.claimed = claims].phase = c.phase
         /\ [c EXCEPT !.sent = @ + 1, !.claimed = claims].id = c.id
         /\ [c EXCEPT !.sent = @ + 1, !.claimed = claims].ending = c.ending
         /\ [c EXCEPT !.sent = @ + 1, !.claimed = claims].ran = c.ran
         /\ [c EXCEPT !.sent = @ + 1, !.claimed = claims].claimed = claims
<1>1. c.sent \in 0..MaxLines /\ MaxLines \in Nat
  BY LinkTypes DEF External!Assumption
<1>2. c.sent + 1 \in 0..MaxLines
  BY <1>1
<1>. HIDE DEF External!Servers, External!Tools
<1>. QED
  BY <1>1, <1>2 DEF External!Link

LEMMA HasGreeted ==
  ASSUME External!Assumption, NEW c \in External!Link
  PROVE  /\ [c EXCEPT !.phase = "asking", !.id = 2] \in External!Link
         /\ [c EXCEPT !.phase = "asking", !.id = 2].server = c.server
         /\ [c EXCEPT !.phase = "asking", !.id = 2].phase = "asking"
         /\ [c EXCEPT !.phase = "asking", !.id = 2].id = 2
         /\ [c EXCEPT !.phase = "asking", !.id = 2].ending = c.ending
         /\ [c EXCEPT !.phase = "asking", !.id = 2].ran = c.ran
         /\ [c EXCEPT !.phase = "asking", !.id = 2].claimed = c.claimed
<1>1. /\ c.sent \in 0..MaxLines /\ MaxLines \in Nat /\ 2 \in 0..2
      /\ TRUE \in BOOLEAN /\ FALSE \in BOOLEAN
  BY LinkTypes DEF External!Assumption
<1>2. c.sent < MaxLines => c.sent + 1 \in 0..MaxLines
  BY <1>1
<1>. HIDE DEF External!Servers, External!Tools
<1>. QED
  BY <1>1, <1>2 DEF External!Link

(* What becomes of the processes, when none is left or one is.             *)
LEMMA LeftFacts ==
  ASSUME Served, NEW u \in External!User, NEW ending \in {"failed", "timeout"},
         \/ left' = left
         \/ /\ left' = left \cup {[phase |-> connections[u].phase, ending |-> ending]}
            /\ \/ connections[u].phase = "greeting"
               \/ connections[u].phase = "closing" /\ ending = "timeout"
  PROVE  /\ left' \subseteq [phase : {"greeting", "closing"}, ending : {"failed", "timeout"}]
         /\ \A p \in left' :
              p.phase = "greeting" \/ (p.phase = "closing" /\ p.ending = "timeout")
BY DEF Served, Behaved

LEMMA DropSteps ==
  ASSUME External!Assumption, Served, NEW u \in External!User, NEW ending \in Ended, External!Drop(u, ending),
         ending = "answered" => Vouched(u, connections[u]),
         connections[u].phase # "closed",
         UNCHANGED <<catalog, opened>>,
         left' \subseteq [phase : {"greeting", "closing"}, ending : {"failed", "timeout"}],
         \A p \in left' : p.phase = "greeting" \/ (p.phase = "closing" /\ p.ending = "timeout")
  PROVE  Served'
<1>1. External!Hand(u, ending) /\ Known(connections[u].server)
  BY LinkFacts DEF External!Drop, Sane
<1>2. u = "boot" => boot <= Len(Configured)
  BY LinkFacts
<1>a. opened' \in 0..MaxOpened
  BY DEF Served, Behaved
<1>3. Booted' /\ Behaved' /\ (u # "boot" => boot' = boot)
  BY <1>1, <1>2, <1>a, HandSteps
<1>4. << >> \in Seq(External!Line)
  OBVIOUS
<1>5. Sane(u, External!Closed, << >>) /\ External!Closed.phase = "closed"
  BY <1>4, ClosedFacts DEF External!Closed
<1>6. Connected'
  BY <1>3, <1>5, OneChanges DEF External!Drop, Served
<1>. QED
  BY <1>3, <1>6 DEF Served

LEMMA AbandonSteps ==
  ASSUME External!Assumption, Served, NEW u \in External!User, NEW ending \in {"failed", "timeout"},
         External!Abandon(u, ending), UNCHANGED <<catalog, opened>>,
         \/ connections[u].phase = "greeting"
         \/ connections[u].phase = "closing" /\ ending = "timeout"
  PROVE  Served'
<1>1. /\ left' \subseteq [phase : {"greeting", "closing"}, ending : {"failed", "timeout"}]
      /\ \A p \in left' :
           p.phase = "greeting" \/ (p.phase = "closing" /\ p.ending = "timeout")
  BY LeftFacts DEF External!Abandon
<1>2. ending \in Ended /\ ending # "answered" /\ External!Drop(u, ending)
  BY DEF Ended, External!Abandon
<1>. QED
  BY <1>1, <1>2, DropSteps

LEMMA ConcludeSteps ==
  ASSUME External!Assumption, Served, NEW u \in External!User, NEW ending \in Ended,
         External!Conclude(u, ending), UNCHANGED <<catalog, opened>>,
         ending = "answered" => Vouched(u, connections[u]),
         connections[u].phase # "closed"
  PROVE  Served'
<1>1. /\ connections[u] \in External!Link /\ Known(connections[u].server)
      /\ External!Entry(connections[u].server).process \/ connections[u].claimed
      /\ u = "boot" => boot \in Visited
  BY LinkFacts DEF Sane
<1>b. PICK b \in External!Link : b = connections[u]
  BY <1>1
<1>2. PICK c : c = [b EXCEPT !.phase = "closing", !.ending = ending]
  OBVIOUS
<1>a. /\ c \in External!Link /\ c.phase = "closing" /\ c.ending = ending
      /\ c.ran = connections[u].ran /\ c.server = connections[u].server
      /\ c.id = connections[u].id /\ c.claimed = connections[u].claimed
  <2>1. /\ c \in External!Link /\ c.phase = "closing" /\ c.ending = ending
        /\ c.ran = b.ran /\ c.server = b.server /\ c.id = b.id /\ c.claimed = b.claimed
    BY <1>2, Concluded
  <2>. QED
    BY <1>b, <2>1
<1>3. << >> \in Seq(External!Line) /\ Len(<< >>) = 0
  OBVIOUS
<1>4. Sane(u, c, << >>)
  <2>1. c.ending = "answered" => Vouched(u, c)
    BY <1>a DEF Vouched
  <2>. QED
    BY <1>1, <1>3, <1>a, <2>1 DEF Sane
<1>5. /\ connections' = [connections EXCEPT ![u] = c]
      /\ lines' = [lines EXCEPT ![u] = << >>] /\ boot' = boot
  BY <1>b, <1>2 DEF External!Conclude, Served, Connected
<1>6. Connected'
  BY <1>1, <1>4, <1>5, OneChanges DEF Served
<1>7. Booted' /\ Behaved'
  BY DEF External!Conclude, Served, Booted, Behaved
<1>. QED
  BY <1>6, <1>7 DEF Served

LEMMA FailSteps ==
  ASSUME External!Assumption, Served, NEW u \in External!User, NEW ending \in {"failed", "timeout"},
         External!Fail(u, ending), UNCHANGED <<catalog, opened>>
  PROVE  Served'
<1>1. CASE connections[u].phase = "greeting" /\ External!Abandon(u, ending)
  BY <1>1, AbandonSteps
<1>2. CASE connections[u].phase = "asking" /\ External!Conclude(u, ending)
  <2>1. ending \in Ended /\ ending # "answered"
    BY DEF Ended
  <2>. QED
    BY <1>2, <2>1, ConcludeSteps
<1>. QED
  BY <1>1, <1>2 DEF External!Fail

(* A connection is opened, or its process does not start.                  *)
LEMMA ConnectSteps ==
  ASSUME External!Assumption, Served, NEW u \in External!User, NEW server,
         NEW tool \in External!Tools \cup {"none", "tools/list"}, Known(server),
         External!Connect(u, server, tool), UNCHANGED catalog,
         opened' \in 0..MaxOpened,
         u = "boot" => boot \in Visited /\ boot <= Len(Configured)
  PROVE  Served'
<1>0. connections[u].phase = "closed"
  BY DEF External!Connect
<1>1. External!Entry(server).process \in BOOLEAN /\ server \in External!Servers
  BY EntryFacts
<1>2. ASSUME connections' = [connections EXCEPT ![u] =
               [External!Closed EXCEPT !.phase = "greeting", !.server = server, !.tool = tool,
                              !.id = 1, !.alive = External!Entry(server).process,
                              !.claimed = ~External!Entry(server).process]],
             UNCHANGED <<boot, found, lines, left, returned>>
      PROVE  Served'
  <2>1. PICK alive \in BOOLEAN : alive = External!Entry(server).process
    BY <1>1
  <2>2. PICK c :
          c = NewLink(server, tool, alive)
    OBVIOUS
  <2>3. /\ c \in External!Link /\ c.phase = "greeting" /\ c.server = server /\ c.id = 1
        /\ c.claimed = ~alive
    <3>1. server \in External!Servers
      BY <1>1
    <3>. HIDE DEF External!Servers, External!Tools
    <3>. QED
      BY <2>2, <3>1, Opened
  <2>4. lines[u] \in Seq(External!Line) /\ lines[u] = << >>
    BY LinkFacts, <1>0 DEF Sane
  <2>5. Sane(u, c, lines[u])
    <3>1. External!Entry(c.server).process \/ c.claimed
      BY <2>1, <2>3
    <3>2. Len(lines[u]) = 0
      BY <2>4
    <3>. QED
      BY <2>3, <2>4, <3>1, <3>2 DEF Sane
  <2>6. /\ connections' = [connections EXCEPT ![u] = c]
        /\ lines' = [lines EXCEPT ![u] = lines[u]] /\ boot' = boot
    BY <1>2, <2>1, <2>2 DEF Served, Connected, NewLink
  <2>7. Connected'
    BY <2>5, <2>6, OneChanges DEF Served
  <2>8. Booted' /\ Behaved'
    BY <1>2 DEF Served, Booted, Behaved
  <2>. QED
    BY <2>7, <2>8 DEF Served
<1>3. ASSUME External!Hand(u, "failed"), UNCHANGED <<connections, lines, left>>
      PROVE  Served'
  <2>1. "failed" \in Ended /\ "failed" # "answered"
    BY DEF Ended
  <2>2. /\ left' \subseteq [phase : {"greeting", "closing"}, ending : {"failed", "timeout"}]
        /\ \A p \in left' :
             p.phase = "greeting" \/ (p.phase = "closing" /\ p.ending = "timeout")
    BY <1>3 DEF Served, Behaved
  <2>3. Booted' /\ Behaved' /\ (u # "boot" => boot' = boot)
    BY <1>3, <2>1, <2>2, HandSteps
  <2>4. connections'["boot"].phase # "closed" => boot' \in Visited
    BY <1>0, <1>3, <2>3 DEF Served, Connected
  <2>5. Connected'
    BY <1>3, <2>4 DEF Served, Connected
  <2>. QED
    BY <2>3, <2>5 DEF Served
<1>. QED
  BY <1>2, <1>3 DEF External!Connect

-----------------------------------------------------------------------------
(* The initial state and every step.                                       *)
LEMMA InitServes ==
  ASSUME External!Assumption, External!Init
  PROVE  Served
<1>1. << >> \in Seq(External!Line) /\ << >> \in Seq(OfServer) /\ Len(<< >>) = 0
  OBVIOUS
<1>2. External!Closed \in External!Link /\ External!Closed.phase = "closed"
  BY <1>1, ClosedFacts DEF Sane, External!Closed
<1>3. \A u \in External!User : Sane(u, External!Closed, << >>)
  BY <1>1, ClosedFacts
<1>4. Connected
  BY <1>1, <1>2, <1>3 DEF External!Init, Connected, External!User
<1>5. 1 \in 1..(Len(Configured) + 2) /\ 0 \in 0..MaxOpened
  BY DEF External!Assumption
<1>6. Booted
  BY <1>1, <1>5 DEF External!Init, Booted
<1>7. Behaved
  BY <1>5 DEF External!Init, Behaved
<1>. QED
  BY <1>4, <1>6, <1>7 DEF Served

LEMMA DiscoverSteps ==
  ASSUME External!Assumption, Served, External!Discover
  PROVE  Served'
<1>1. /\ Len(Configured) \in Nat /\ DOMAIN Configured = 1..Len(Configured)
      /\ boot \in 1..Len(Configured) /\ opened \in 0..MaxOpened
  BY DEF External!Assumption, Served, Booted, Behaved, External!Discover
<1>2. CASE boot \in External!ParseConfig /\ Configured[boot].enabled
  <2>1. /\ External!Connect("boot", Configured[boot].server, "tools/list")
        /\ UNCHANGED <<catalog, opened>>
    BY <1>2 DEF External!Discover
  <2>2. boot \in Visited /\ Known(Configured[boot].server)
    BY <1>1, <1>2 DEF Visited, External!ParseConfig, Known
  <2>3. "boot" \in External!User /\ "tools/list" \in External!Tools \cup {"none", "tools/list"}
    BY DEF External!User
  <2>. QED
    BY <1>1, <2>1, <2>2, <2>3, ConnectSteps
<1>3. CASE ~(boot \in External!ParseConfig /\ Configured[boot].enabled)
  <2>1. boot' = boot + 1 /\ UNCHANGED <<found, connections, lines, left, returned>>
        /\ UNCHANGED <<catalog, opened>>
    BY <1>3 DEF External!Discover
  <2>2. connections["boot"].phase = "closed"
    BY <1>3 DEF Served, Connected, Visited
  <2>3. Connected'
    BY <2>1, <2>2 DEF Served, Connected
  <2>4. boot' \in 1..(Len(Configured) + 2)
    BY <1>1, <2>1
  <2>5. Booted' /\ Behaved'
    BY <2>1, <2>4 DEF Served, Booted, Behaved
  <2>. QED
    BY <2>3, <2>5 DEF Served
<1>. QED
  BY <1>2, <1>3

(* The first tool of each key is installed, none over a tool of the code.  *)
LEMMA InstallSteps ==
  ASSUME External!Assumption, Served, External!Install
  PROVE  Served'
<1>. DEFINE keys == {found[i].key : i \in DOMAIN found} \ Builtin
            first(k) == CHOOSE i \in DOMAIN found :
                          /\ found[i].key = k
                          /\ \A j \in 1..(i - 1) : found[j].key # k
<1>1. /\ Len(Configured) \in Nat /\ DOMAIN Configured = 1..Len(Configured)
      /\ boot = Len(Configured) + 1 /\ boot' = boot + 1
      /\ UNCHANGED <<found, connections, lines, left, returned, opened>>
  BY DEF External!Assumption, External!Install
<1>2. catalog' = [k \in keys |-> found[first(k)]]
  BY DEF External!Install
<1>3. found \in Seq(OfServer) /\ DOMAIN found = 1..Len(found) /\ Len(found) \in Nat
      /\ \A i \in 1..Len(found) : found[i] \in OfServer
  BY DEF Served, Booted
<1>4. ASSUME NEW k \in keys
      PROVE  found[first(k)] \in OfServer /\ found[first(k)].key = k /\ k \notin Builtin
  <2>. DEFINE of == {i \in 1..Len(found) : found[i].key = k}
  <2>1. of \in SUBSET (1..Len(found)) /\ of # {}
    BY <1>3, <1>4
  <2>2. \E i \in of : \A j \in 1..(i - 1) : j \notin of
    <3>. HIDE DEF of
    <3>. QED
      BY <1>3, <2>1, AgentRun!FirstOfAll
  <2>3. \E i \in DOMAIN found :
          /\ found[i].key = k
          /\ \A j \in 1..(i - 1) : found[j].key # k
    <3>1. PICK i \in of : \A j \in 1..(i - 1) : j \notin of
      BY <2>2
    <3>2. \A j \in 1..(i - 1) : j \in 1..Len(found)
      BY <1>3, <3>1
    <3>. QED
      BY <1>3, <3>1, <3>2
  <2>4. first(k) \in DOMAIN found /\ found[first(k)].key = k
    BY <2>3
  <2>. QED
    BY <1>3, <1>4, <2>4
<1>5. \A k \in DOMAIN catalog' :
        catalog'[k] \in OfServer /\ catalog'[k].key = k /\ k \notin Builtin
  <2>. HIDE DEF keys, first
  <2>. QED
    BY <1>2, <1>4
<1>6. boot' \in 1..(Len(Configured) + 2)
  BY <1>1
<1>7. connections["boot"].phase = "closed"
  BY <1>1 DEF Served, Connected, Visited, External!ParseConfig
<1>8. Connected'
  BY <1>1, <1>7 DEF Served, Connected
<1>9. Booted'
  BY <1>1, <1>3, <1>5, <1>6 DEF Booted
<1>10. Behaved'
  BY <1>1 DEF Served, Behaved
<1>. QED
  BY <1>8, <1>9, <1>10 DEF Served

LEMMA CallSteps ==
  ASSUME External!Assumption, Served, NEW u \in Client, NEW key \in DOMAIN catalog, External!Call(u, key)
  PROVE  Served'
<1>1. u \in External!User /\ u # "boot"
  BY DEF External!User, External!Assumption
<1>2. catalog[key] \in OfServer
  BY DEF Served, Booted
<1>3. Known(catalog[key].server) /\ catalog[key].tool \in External!Tools \cup {"none", "tools/list"}
  <2>. HIDE DEF External!Tools, Keys, External!Servers, Known
  <2>. QED
    BY <1>2 DEF OfServer
<1>4. opened' \in 0..MaxOpened
  BY DEF External!Call, Served, Behaved, External!Assumption
<1>5. External!Connect(u, catalog[key].server, catalog[key].tool) /\ UNCHANGED catalog
  BY DEF External!Call
<1>. QED
  BY <1>1, <1>3, <1>4, <1>5, ConnectSteps

-----------------------------------------------------------------------------
(* What a server does, and the client with what it sent.                   *)
LEMMA OnOneLink ==
  ASSUME External!Assumption, Served, NEW u \in External!User, NEW c, NEW l, Sane(u, c, l),
         connections[u].phase # "closed",
         connections' = [connections EXCEPT ![u] = c],
         lines' = [lines EXCEPT ![u] = l],
         UNCHANGED <<boot, found, catalog, left, returned, opened>>
  PROVE  Served'
<1>1. u = "boot" => boot' \in Visited
  BY LinkFacts
<1>2. Connected'
  BY <1>1, OneChanges DEF Served
<1>3. Booted' /\ Behaved'
  BY DEF Served, Booted, Behaved
<1>. QED
  BY <1>2, <1>3 DEF Served

(* A line that is backed stays so, when its connection stays as it is or   *)
(* has more to show for itself.                                            *)
LEMMA StaysSane ==
  ASSUME NEW u, NEW b, NEW l, Sane(u, b, l), NEW c \in External!Link,
         c.server = b.server, c.phase = b.phase, c.id = b.id, c.ending = b.ending,
         b.ran => c.ran, b.claimed => c.claimed
  PROVE  Sane(u, c, l)
<1>1. Vouched(u, b) => Vouched(u, c)
  BY DEF Vouched
<1>2. \A i \in 1..Len(l) : Backed(u, c, l[i])
  BY <1>1 DEF Sane, Backed
<1>. QED
  BY <1>1, <1>2 DEF Sane

LEMMA RunsSteps ==
  ASSUME External!Assumption, Served, NEW u \in External!User, External!Runs(u)
  PROVE  Served'
<1>1. /\ connections[u].phase = "asking"
      /\ UNCHANGED <<boot, found, catalog, left, returned, opened>>
      /\ Sane(u, connections[u], lines[u])
  BY LinkFacts DEF External!Runs
<1>2. PICK b \in External!Link, l \in Seq(External!Line) : b = connections[u] /\ l = lines[u]
  BY LinkFacts
<1>3. PICK c : c = [b EXCEPT !.ran = TRUE]
  OBVIOUS
<1>4. /\ c \in External!Link /\ c.server = b.server /\ c.phase = b.phase /\ c.id = b.id
      /\ c.ending = b.ending /\ c.ran = TRUE /\ c.claimed = b.claimed
  BY <1>3, HasRun
<1>5. Sane(u, c, l)
  BY <1>1, <1>2, <1>4, StaysSane
<1>6. connections' = [connections EXCEPT ![u] = c] /\ lines' = [lines EXCEPT ![u] = l]
  BY <1>2, <1>3 DEF External!Runs, Served, Connected
<1>. QED
  BY <1>1, <1>5, <1>6, OnOneLink

LEMMA StopsSteps ==
  ASSUME External!Assumption, Served, NEW u \in External!User, External!Stops(u)
  PROVE  Served'
<1>1. /\ connections[u].phase # "closed"
      /\ UNCHANGED <<boot, found, catalog, left, returned, opened>>
      /\ Sane(u, connections[u], lines[u])
  BY LinkFacts DEF External!Stops, External!Asks
<1>2. PICK b \in External!Link, l \in Seq(External!Line) : b = connections[u] /\ l = lines[u]
  BY LinkFacts
<1>3. PICK c : c = [b EXCEPT !.alive = FALSE]
  OBVIOUS
<1>4. /\ c \in External!Link /\ c.server = b.server /\ c.phase = b.phase /\ c.id = b.id
      /\ c.ending = b.ending /\ c.ran = b.ran /\ c.claimed = b.claimed
  BY <1>3, HasStopped
<1>5. Sane(u, c, l)
  BY <1>1, <1>2, <1>4, StaysSane
<1>6. connections' = [connections EXCEPT ![u] = c] /\ lines' = [lines EXCEPT ![u] = l]
  BY <1>2, <1>3 DEF External!Stops, Served, Connected
<1>. QED
  BY <1>1, <1>5, <1>6, OnOneLink

LEMMA SendsSteps ==
  ASSUME External!Assumption, Served, NEW u \in External!User, NEW line \in External!Line, External!Sends(u, line)
  PROVE  Served'
<1>1. /\ connections[u].phase # "closed" /\ connections[u].sent < MaxLines
      /\ UNCHANGED <<boot, found, catalog, left, returned, opened>>
      /\ Sane(u, connections[u], lines[u])
  BY LinkFacts DEF External!Sends, External!Asks
<1>2. PICK b \in External!Link, l \in Seq(External!Line) : b = connections[u] /\ l = lines[u]
  BY LinkFacts
<1>b. b.ran \in BOOLEAN /\ b.claimed \in BOOLEAN
  BY LinkTypes
<1>a. PICK claims \in BOOLEAN : claims = (b.claimed \/ External!Claims(u, line))
  OBVIOUS
<1>3. PICK c : c = [b EXCEPT !.sent = @ + 1, !.claimed = claims]
  OBVIOUS
<1>4. /\ c \in External!Link /\ c.server = b.server /\ c.phase = b.phase /\ c.id = b.id
      /\ c.ending = b.ending /\ c.ran = b.ran /\ c.claimed = claims
  BY <1>1, <1>2, <1>3, HasSent
<1>5. /\ Append(l, line) \in Seq(External!Line) /\ Len(Append(l, line)) = Len(l) + 1
      /\ \A i \in 1..Len(l) : Append(l, line)[i] = l[i]
      /\ Append(l, line)[Len(l) + 1] = line /\ Len(l) \in Nat
  OBVIOUS
<1>6. Sane(u, c, l)
  BY <1>1, <1>2, <1>4, <1>a, StaysSane
<1>7. Backed(u, c, line)
  BY <1>2, <1>4, <1>a, <1>b DEF External!Claims, Backed, Vouched
<1>8. Sane(u, c, Append(l, line))
  <2>1. \A i \in 1..Len(Append(l, line)) : Backed(u, c, Append(l, line)[i])
    BY <1>5, <1>6, <1>7 DEF Sane
  <2>2. c.phase # "closed"
    BY <1>1, <1>2, <1>4
  <2>. QED
    BY <1>5, <1>6, <2>1, <2>2 DEF Sane
<1>9. /\ connections' = [connections EXCEPT ![u] = c]
      /\ lines' = [lines EXCEPT ![u] = Append(l, line)]
  BY <1>2, <1>3, <1>a DEF External!Sends, Served, Connected
<1>. QED
  BY <1>1, <1>8, <1>9, OnOneLink

(* The lines after the first.                                              *)
LEMMA TailFacts ==
  ASSUME NEW u, NEW c, NEW l \in Seq(External!Line), l # << >>, Sane(u, c, l)
  PROVE  /\ Tail(l) \in Seq(External!Line) /\ Head(l) \in External!Line
         /\ Backed(u, c, Head(l))
         /\ \A i \in 1..Len(Tail(l)) : Backed(u, c, Tail(l)[i])
<1>1. /\ Tail(l) \in Seq(External!Line) /\ Head(l) = l[1] /\ l[1] \in External!Line /\ 1 \in 1..Len(l)
      /\ \A i \in 1..Len(Tail(l)) : i + 1 \in 1..Len(l) /\ Tail(l)[i] = l[i + 1]
  OBVIOUS
<1>. QED
  BY <1>1 DEF Sane

LEMMA TakeSteps ==
  ASSUME External!Assumption, Served, NEW u \in External!User, External!Asks(u),
         NEW says, External!Take(u, says),
         External!Answers(u, says) => Vouched(u, connections[u]),
         UNCHANGED <<catalog, opened>>
  PROVE  Served'
<1>0. connections[u].phase \in {"greeting", "asking"}
  BY DEF External!Asks
<1>1. CASE ~External!Answers(u, says) /\ ~External!Greets(u, says)
  BY <1>1, FailSteps DEF External!Take
<1>2. CASE External!Answers(u, says)
  <2>0. ~External!Greets(u, says) /\ "answered" \in Ended
    BY <1>2 DEF External!Answers, External!Greets, Ended
  <2>1. External!Conclude(u, "answered")
    BY <1>2, <2>0 DEF External!Take
  <2>. QED
    BY <1>0, <1>2, <2>0, <2>1, ConcludeSteps
<1>3. CASE External!Greets(u, says) /\ ~External!Answers(u, says)
  <2>1. /\ connections' = [connections EXCEPT ![u].phase = "asking", ![u].id = 2]
        /\ lines' = [lines EXCEPT ![u] = IF @ = << >> THEN @ ELSE Tail(@)]
        /\ UNCHANGED <<boot, found, left, returned>>
    BY <1>3 DEF External!Take
  <2>0. connections[u].phase = "greeting"
    BY <1>3 DEF External!Greets
  <2>2. PICK b \in External!Link, l \in Seq(External!Line) : b = connections[u] /\ l = lines[u]
    BY LinkFacts
  <2>3. PICK c : c = [b EXCEPT !.phase = "asking", !.id = 2]
    OBVIOUS
  <2>4. /\ c \in External!Link /\ c.server = b.server /\ c.phase = "asking" /\ c.id = 2
        /\ c.ending = b.ending /\ c.ran = b.ran /\ c.claimed = b.claimed
    BY <2>3, HasGreeted
  <2>5. PICK r : r = IF l = << >> THEN l ELSE Tail(l)
    OBVIOUS
  <2>6. Sane(u, b, l)
    BY <2>2, LinkFacts
  <2>7. /\ r \in Seq(External!Line)
        /\ \A i \in 1..Len(r) : Backed(u, b, r[i])
    <3>1. CASE l = << >>
      BY <2>5, <2>6, <3>1 DEF Sane
    <3>2. CASE l # << >>
      BY <2>5, <2>6, <3>2, TailFacts
    <3>. QED
      BY <3>1, <3>2
  <2>8. Known(b.server) /\ (External!Entry(b.server).process \/ b.claimed)
    BY <2>0, <2>2, <2>6 DEF Sane
  <2>9. \A i \in 1..Len(r) : Backed(u, c, r[i])
    <3>1. Vouched(u, b) => Vouched(u, c)
      BY <2>4 DEF Vouched
    <3>. QED
      BY <2>7, <3>1 DEF Backed
  <2>10. Sane(u, c, r)
    BY <2>4, <2>7, <2>8, <2>9 DEF Sane
  <2>11. /\ connections' = [connections EXCEPT ![u] = c]
         /\ lines' = [lines EXCEPT ![u] = r]
    BY <2>1, <2>2, <2>3, <2>5 DEF Served, Connected
  <2>. QED
    BY <2>0, <2>1, <2>10, <2>11, OnOneLink
<1>. QED
  BY <1>0, <1>1, <1>2, <1>3

LEMMA ReadSteps ==
  ASSUME External!Assumption, Served, NEW u \in External!User, External!Read(u)
  PROVE  Served'
<1>1. PICK b \in External!Link, l \in Seq(External!Line) : b = connections[u] /\ l = lines[u]
  BY LinkFacts
<1>2. /\ External!Asks(u) /\ l # << >> /\ UNCHANGED <<catalog, opened>> /\ Sane(u, b, l)
      /\ b.phase # "closed"
  BY <1>1, LinkFacts DEF External!Read, External!Asks
<1>3. /\ Tail(l) \in Seq(External!Line) /\ Backed(u, b, Head(l))
      /\ \A i \in 1..Len(Tail(l)) : Backed(u, b, Tail(l)[i])
  BY <1>2, TailFacts
<1>4. CASE External!IsAnswer(u, Head(l))
  <2>1. External!Take(u, Head(l).says)
    BY <1>1, <1>4 DEF External!Read
  <2>2. Head(l).id = b.id /\ (b.phase = "asking" => b.id = 2)
    BY <1>1, <1>2, <1>4 DEF External!IsAnswer, Sane
  <2>3. External!Answers(u, Head(l).says) => Vouched(u, connections[u])
    BY <1>1, <1>3, <2>2 DEF External!Answers, Backed
  <2>. QED
    BY <1>2, <2>1, <2>3, TakeSteps
<1>5. CASE ~External!IsAnswer(u, Head(l))
  <2>1. /\ lines' = [lines EXCEPT ![u] = Tail(l)]
        /\ UNCHANGED <<boot, found, connections, left, returned>>
    BY <1>1, <1>5 DEF External!Read
  <2>2. Sane(u, b, Tail(l))
    BY <1>2, <1>3 DEF Sane
  <2>3. connections' = [connections EXCEPT ![u] = b]
    BY <1>1, <2>1 DEF Served, Connected
  <2>. QED
    BY <1>1, <1>2, <2>1, <2>2, <2>3, OnOneLink
<1>. QED
  BY <1>4, <1>5

LEMMA RespondSteps ==
  ASSUME External!Assumption, Served, NEW u \in External!User, NEW says, External!Respond(u, says)
  PROVE  Served'
<1>1. /\ External!Asks(u) /\ External!Take(u, says) /\ UNCHANGED <<catalog, opened>>
      /\ ~External!Entry(connections[u].server).process
  BY DEF External!Respond, External!IsProcess
<1>2. Vouched(u, connections[u])
  BY <1>1, LinkFacts DEF Sane, External!Asks, Vouched
<1>. QED
  BY <1>1, <1>2, TakeSteps

LEMMA EndSteps ==
  ASSUME External!Assumption, Served, NEW u \in External!User, External!Break(u) \/ External!TimeOut(u) \/ External!Close(u)
  PROVE  Served'
<1>1. CASE External!Break(u)
  BY <1>1, FailSteps DEF External!Break
<1>2. CASE External!TimeOut(u)
  BY <1>2, FailSteps, AbandonSteps DEF External!TimeOut
<1>3. CASE External!Close(u)
  <2>1. PICK ending \in Ended : ending = connections[u].ending
    BY <1>3, LinkFacts DEF External!Close, Sane
  <2>2. /\ External!Drop(u, ending) /\ UNCHANGED <<catalog, opened>> /\ left' = left
        /\ connections[u].phase = "closing"
    BY <1>3, <2>1 DEF External!Close
  <2>3. ending = "answered" => Vouched(u, connections[u])
    BY <2>1, <2>2, LinkFacts DEF Sane
  <2>4. /\ left' \subseteq [phase : {"greeting", "closing"}, ending : {"failed", "timeout"}]
        /\ \A p \in left' :
             p.phase = "greeting" \/ (p.phase = "closing" /\ p.ending = "timeout")
    BY <2>2 DEF Served, Behaved
  <2>. QED
    BY <2>2, <2>3, <2>4, DropSteps
<1>. QED
  BY <1>1, <1>2, <1>3

LEMMA NextServes ==
  ASSUME External!Assumption, Served, [External!Next]_externalVars
  PROVE  Served'
<1>1. CASE UNCHANGED externalVars
  BY <1>1 DEF externalVars, Served, Connected, Booted, Behaved
<1>2. ASSUME NEW u \in External!User,
             \/ External!Runs(u) \/ External!Stops(u) \/ External!Read(u) \/ External!Break(u) \/ External!TimeOut(u) \/ External!Close(u)
             \/ \E line \in External!Line : External!Sends(u, line)
             \/ \E says \in {"result", "error", "failure", "request"} : External!Respond(u, says)
      PROVE  Served'
  BY <1>2, RunsSteps, StopsSteps, ReadSteps, EndSteps, SendsSteps, RespondSteps
<1>. QED
  BY <1>1, <1>2, DiscoverSteps, InstallSteps, CallSteps DEF External!Next

LEMMA ServersServe == ASSUME External!Assumption PROVE External!Spec => []Served
<1>1. External!Init => Served
  BY InitServes
<1>2. Served /\ [External!Next]_externalVars => Served'
  BY NextServes
<1>. QED
  BY <1>1, <1>2, PTL DEF External!Spec, External!externalVars, externalVars

LEMMA ServersTypes == ASSUME External!Assumption PROVE External!Spec => []External!TypeOK
<1>1. Served => External!TypeOK
  <2>. SUFFICES ASSUME Served PROVE External!TypeOK
    OBVIOUS
  <2>1. \A i \in DOMAIN found : found[i].server \in External!Servers /\ found[i].green \in BOOLEAN
    <3>1. \A i \in DOMAIN found : found[i] \in OfServer
      BY DEF Served, Booted
    <3>. QED
      BY <3>1 DEF OfServer
  <2>2. \A u \in External!User : connections[u] \in External!Link /\ lines[u] \in Seq(External!Line)
    BY LinkFacts
  <2>. QED
    BY <2>1, <2>2 DEF Served, Booted, Behaved, External!TypeOK, Ended
<1>. QED
  BY <1>1, ServersServe, PTL

LEMMA ServersContained == ASSUME External!Assumption PROVE External!Spec => []External!ServersAreContained
<1>1. Served => External!ServersAreContained
  BY DEF Served, Booted, Behaved, OfServer, External!ServersAreContained
<1>. QED
  BY <1>1, ServersServe, PTL

-----------------------------------------------------------------------------
(* THE SERVICES TOGETHER.  A step of one leaves the variables of the others *)
(* alone.                                                                  *)

(* Seen by itself: a run of the agents.                                    *)
LEMMA AgentRunRun == Spec => AgentRun!Spec
<1>1. Init => AgentRun!Init
  BY DEF Init
<1>2. [Next]_vars => [AgentRun!Next]_agentVars
  BY DEF Next, AgentsMove, MemoriesMove, LearningMoves, SessionsMove,
     ChannelMoves, FilesMove, GoalsMove, ServersMove, vars, agentVars
<1>. QED
  BY <1>1, <1>2, PTL DEF Spec, AgentRun!Spec, AgentRun!vars, agentVars

(* Seen by itself: memories and their vectors.                             *)
LEMMA MemoriesRun == Spec => Memories!Spec
<1>1. Init => Memories!Init
  BY DEF Init
<1>2. [Next]_vars => [Memories!Next]_memoryVars
  BY DEF Next, AgentsMove, MemoriesMove, LearningMoves, SessionsMove,
     ChannelMoves, FilesMove, GoalsMove, ServersMove, vars, memoryVars
<1>. QED
  BY <1>1, <1>2, PTL DEF Spec, Memories!Spec, Memories!memoryVars, memoryVars

(* Seen by itself: what is learned from turns.                             *)
LEMMA LearningRun == Spec => Learning!Spec
<1>1. Init => Learning!Init
  BY DEF Init
<1>2. [Next]_vars => [Learning!Next]_learningVars
  BY DEF Next, AgentsMove, MemoriesMove, LearningMoves, SessionsMove,
     ChannelMoves, FilesMove, GoalsMove, ServersMove, vars, learningVars
<1>. QED
  BY <1>1, <1>2, PTL DEF Spec, Learning!Spec, Learning!learningVars, learningVars

(* Seen by itself: accounts and sessions.                                  *)
LEMMA SessionsRun == Spec => Sessions!Spec
<1>1. Init => Sessions!Init
  BY DEF Init
<1>2. [Next]_vars => [Sessions!Next]_sessionVars
  BY DEF Next, AgentsMove, MemoriesMove, LearningMoves, SessionsMove,
     ChannelMoves, FilesMove, GoalsMove, ServersMove, vars, sessionVars
<1>. QED
  BY <1>1, <1>2, PTL DEF Spec, Sessions!Spec, Sessions!sessionVars, sessionVars

(* Seen by itself: the channel.                                            *)
LEMMA ChannelRun == Spec => Channel!Spec
<1>1. Init => Channel!Init
  BY DEF Init
<1>2. [Next]_vars => [Channel!Next]_channelVars
  BY DEF Next, AgentsMove, MemoriesMove, LearningMoves, SessionsMove,
     ChannelMoves, FilesMove, GoalsMove, ServersMove, vars, channelVars
<1>. QED
  BY <1>1, <1>2, PTL DEF Spec, Channel!Spec, Channel!channelVars, channelVars

(* Seen by itself: files and their index.                                  *)
LEMMA FilesRun == Spec => Files!Spec
<1>1. Init => Files!Init
  BY DEF Init
<1>2. [Next]_vars => [Files!Next]_fileVars
  BY DEF Next, AgentsMove, MemoriesMove, LearningMoves, SessionsMove,
     ChannelMoves, FilesMove, GoalsMove, ServersMove, vars, fileVars
<1>. QED
  BY <1>1, <1>2, PTL DEF Spec, Files!Spec, Files!fileVars, fileVars

(* Seen by itself: goals.                                                  *)
LEMMA GoalsRun == Spec => Goals!Spec
<1>1. Init => Goals!Init
  BY DEF Init
<1>2. [Next]_vars => [Goals!Next]_goalVars
  BY DEF Next, AgentsMove, MemoriesMove, LearningMoves, SessionsMove,
     ChannelMoves, FilesMove, GoalsMove, ServersMove, vars, goalVars
<1>. QED
  BY <1>1, <1>2, PTL DEF Spec, Goals!Spec, Goals!goalVars, goalVars

(* Seen by itself: external servers.                                       *)
LEMMA ExternalRun == Spec => External!Spec
<1>1. Init => External!Init
  BY DEF Init
<1>2. [Next]_vars => [External!Next]_externalVars
  BY DEF Next, AgentsMove, MemoriesMove, LearningMoves, SessionsMove,
     ChannelMoves, FilesMove, GoalsMove, ServersMove, vars, externalVars
<1>. QED
  BY <1>1, <1>2, PTL DEF Spec, External!Spec, External!externalVars, externalVars

(* Every service keeps its state within its types, whatever the others do  *)
(* in between: rows, queues, connections, watermarks and percentages       *)
(* (services/, workers/, tools/).                                          *)
THEOREM TypesKept == Spec => []TypeOK
<1>1. Spec => []AgentRun!TypeOK
  BY AgentRunRun, AgentRun!TypeCorrect, ServicesAssumption, PTL
<1>2. Spec => []Memories!TypeOK
  BY MemoriesRun, Memories!TypeCorrect, ServicesAssumption, PTL
<1>3. Spec => []Learning!TypeOK
  BY LearningRun, LearningTypes, ServicesAssumption, PTL
<1>4. Spec => []Sessions!TypeOK
  BY SessionsRun, Sessions!TypeCorrect, ServicesAssumption, PTL
<1>5. Spec => []Channel!TypeOK
  BY ChannelRun, ChannelTypes, ServicesAssumption, PTL
<1>6. Spec => []Files!TypeOK
  BY FilesRun, Files!TypeCorrect, ServicesAssumption, PTL
<1>7. Spec => []Goals!TypeOK
  BY GoalsRun, GoalsTypes, ServicesAssumption, PTL
<1>8. Spec => []External!TypeOK
  BY ExternalRun, ServersTypes, ServicesAssumption, PTL
<1>9. TypeOK <=>
        /\ AgentRun!TypeOK /\ Memories!TypeOK /\ Learning!TypeOK /\ Sessions!TypeOK
        /\ Channel!TypeOK /\ Files!TypeOK /\ Goals!TypeOK /\ External!TypeOK
  BY DEF TypeOK
<1>. QED
  BY <1>1, <1>2, <1>3, <1>4, <1>5, <1>6, <1>7, <1>8, <1>9, PTL

(* A run that has ended left a trace that tells it: no step open, each     *)
(* with its task and one hop back that agrees with its status, and the     *)
(* status of the run that of its chain or its branches                     *)
(* (orchestrator_service, run_recorder).                                   *)
THEOREM TraceTold == Spec => []TraceTellsTheRun
<1>1. AgentRun!Spec => []AgentRun!TraceTellsTheRun
  BY ServicesAssumption, AgentRun!TraceTold
<1>2. AgentRun!TraceTellsTheRun <=> TraceTellsTheRun
  BY DEF TraceTellsTheRun
<1>. QED
  BY <1>1, <1>2, AgentRunRun, PTL

(* A run costs what its steps do.  A chain was below its cap of tokens     *)
(* before its last step, and branches are opened on one check: a run       *)
(* overspends by one step, or by one round of branches, for every cap and  *)
(* every cost (orchestrator_service, _RunGuard).                           *)
THEOREM OverspendsOnce == Spec => []OverspendsByOneRound
<1>1. AgentRun!Spec => []AgentRun!OverspendsByOneRound
  BY ServicesAssumption, AgentRun!OverspendsOnce
<1>2. AgentRun!OverspendsByOneRound <=> OverspendsByOneRound
  BY DEF OverspendsByOneRound
<1>. QED
  BY <1>1, <1>2, AgentRunRun, PTL

(* An answer is never given over the head of a tool: every outcome is told *)
(* to the model and seen by it, unless the loop was cut at its cap         *)
(* (tool_loop).                                                            *)
THEOREM ToolsAreSeen == Spec => []AnswersHaveSeenTheirTools
<1>1. AgentRun!Spec => []AgentRun!AnswersHaveSeenTheirTools
  BY ServicesAssumption, AgentRun!ToolsAreSeen
<1>2. AgentRun!AnswersHaveSeenTheirTools <=> AnswersHaveSeenTheirTools
  BY DEF AnswersHaveSeenTheirTools
<1>. QED
  BY <1>1, <1>2, AgentRunRun, PTL

(* Nothing is executed within a run that is not green or allowed once and  *)
(* for all (gate, executor).                                               *)
THEOREM NothingUnasked == Spec => []UnaskedIsGreen
<1>1. AgentRun!Spec => []AgentRun!UnaskedIsGreen
  BY ServicesAssumption, AgentRun!NothingUnasked
<1>2. AgentRun!UnaskedIsGreen <=> UnaskedIsGreen
  BY DEF UnaskedIsGreen
<1>. QED
  BY <1>1, <1>2, AgentRunRun, PTL

(* The history of a memory tells what its row says, and a fact is retired  *)
(* only in favour of one that elaborates it, for any number of overlapping *)
(* requests (memory_service, consolidation).                               *)
THEOREM HistoryIsTold == Spec => []HistoryTellsTheMemory
<1>1. Memories!Spec => []Memories!HistoryTellsTheMemory
  BY ServicesAssumption, Memories!HistoryHolds
<1>2. Memories!HistoryTellsTheMemory <=> HistoryTellsTheMemory
  BY DEF HistoryTellsTheMemory
<1>. QED
  BY <1>1, <1>2, MemoriesRun, PTL

(* No stale vector goes unnoticed: an edit that overtakes the worker leaves *)
(* a job behind, or one of three known excuses (embedding_service,         *)
(* embedding_worker).                                                      *)
THEOREM NoneIsForgotten == Spec => []StaleVectorsAreSeenTo
<1>1. Memories!Spec => []Memories!StaleVectorsAreSeenTo
  BY ServicesAssumption, Memories!NoneIsForgotten
<1>2. Memories!StaleVectorsAreSeenTo <=> StaleVectorsAreSeenTo
  BY DEF StaleVectorsAreSeenTo
<1>. QED
  BY <1>1, <1>2, MemoriesRun, PTL

(* The watermark only passes messages whose fact is stored, being stored, no *)
(* fact to the model, or lost with a window that broke off; summaries rise, *)
(* and turns that did not overlap are counted (enrichment_worker,          *)
(* memory_extraction_service, conversation_turn_service).                  *)
THEOREM LearnsFromAll == Spec => []LearnsFromEveryTurn
<1>1. Learning!Spec => []Learning!LearnsFromEveryTurn
  BY ServicesAssumption, LearnsAll
<1>2. Learning!LearnsFromEveryTurn <=> LearnsFromEveryTurn
  BY DEF LearnsFromEveryTurn
<1>. QED
  BY <1>1, <1>2, LearningRun, PTL

(* A refresh token is good for one exchange, unless a refresh committed on *)
(* a check that no longer held (auth_service.refresh_session).             *)
THEOREM OneExchange == Spec => []RotationIsExclusive
<1>1. Sessions!Spec => []Sessions!RotationIsExclusive
  BY ServicesAssumption, Sessions!OneExchange
<1>2. Sessions!RotationIsExclusive <=> RotationIsExclusive
  BY DEF RotationIsExclusive
<1>. QED
  BY <1>1, <1>2, SessionsRun, PTL

(* A reset is final: the password chosen last is the one that works, and   *)
(* the sessions of the old one are over, unless requests overlapped        *)
(* (reset_service.reset_password).                                         *)
THEOREM ResetsHold == Spec => []ResetsAreFinal
<1>1. Sessions!Spec => []Sessions!ResetsAreFinal
  BY ServicesAssumption, Sessions!Final
<1>2. Sessions!ResetsAreFinal <=> ResetsAreFinal
  BY DEF ResetsAreFinal
<1>. QED
  BY <1>1, <1>2, SessionsRun, PTL

(* Every message of a chat is heard, and heard once, but over a restart    *)
(* (telegram_worker.py, poll_once and _handle).                            *)
THEOREM MessagesAreHeard == Spec => []HeardOnce
<1>1. Channel!Spec => []Channel!HeardOnce
  BY ServicesAssumption, MessagesHeard
<1>2. Channel!HeardOnce <=> HeardOnce
  BY DEF HeardOnce
<1>. QED
  BY <1>1, <1>2, ChannelRun, PTL

(* The row of a file tells its index, its bytes and chunks go with it, and *)
(* no content is held twice (file_service.upload, reindex and delete).     *)
THEOREM FilesAgree == Spec => []IndexTellsTheFile
<1>1. Files!Spec => []Files!IndexTellsTheFile
  BY ServicesAssumption, Files!FilesAgree
<1>2. Files!IndexTellsTheFile <=> IndexTellsTheFile
  BY DEF IndexTellsTheFile
<1>. QED
  BY <1>1, <1>2, FilesRun, PTL

(* The progress of a goal is the share of its milestones that is done, its *)
(* time of completion agrees with its status and nothing hangs from a goal *)
(* that is gone, unless the last requests that wrote it overlapped         *)
(* (goal_service.recompute_progress, set_status).                          *)
THEOREM GoalsAreCounted == Spec => []GoalsAddUp
<1>1. Goals!Spec => []Goals!GoalsAddUp
  BY ServicesAssumption, GoalsCount
<1>2. Goals!GoalsAddUp <=> GoalsAddUp
  BY DEF GoalsAddUp
<1>. QED
  BY <1>1, <1>2, GoalsRun, PTL

(* A process is left behind only by a greeting that failed or a call out of *)
(* time as it closed, an answered call had its tool run, and a tool runs   *)
(* unasked only as its own server's entry lists it, replacing none of the  *)
(* code's (client.py, registry.py, catalog.py).                            *)
THEOREM ServersContain == Spec => []ServersAreContained
<1>1. External!Spec => []External!ServersAreContained
  BY ServicesAssumption, ServersContained
<1>2. External!ServersAreContained <=> ServersAreContained
  BY DEF ServersAreContained
<1>. QED
  BY <1>1, <1>2, ExternalRun, PTL

-----------------------------------------------------------------------------
(* CUTTING.  What is made of a text by rounds of the loop that cuts it: by *)
(* induction over the rounds.  The constants are those of retrieval, which *)
(* cutting has no use of.                                                  *)

(* A set of positions that is not empty has a first one and a last one.    *)
LEMMA FirstAndLast ==
  ASSUME NEW n \in Nat, NEW S \in SUBSET (1..n), S # {}
  PROVE  /\ Documents!Min(S) \in S /\ \A i \in S : Documents!Min(S) <= i
         /\ Documents!Max(S) \in S /\ \A i \in S : i <= Documents!Max(S)
<1>1. \E i \in S : \A j \in S : i <= j
  <2>1. PICK i \in S : \A j \in 1..(i - 1) : j \notin S
    BY AgentRun!FirstOfAll
  <2>. QED
    BY <2>1
<1>2. \E i \in S : \A j \in S : i >= j
  <2>. DEFINE R == {i \in 1..n : n + 1 - i \in S}
  <2>1. PICK s \in S : TRUE
    OBVIOUS
  <2>2. n + 1 - s \in R
    OBVIOUS
  <2>3. PICK i \in R : \A j \in 1..(i - 1) : j \notin R
    <3>. HIDE DEF R
    <3>1. R \in SUBSET (1..n)
      BY DEF R
    <3>. QED
      BY <2>2, <3>1, AgentRun!FirstOfAll
  <2>4. ASSUME NEW j \in S, j > n + 1 - i PROVE FALSE
    <3>1. n + 1 - j \in 1..(i - 1) /\ n + 1 - j \in R
      BY <2>3, <2>4
    <3>. QED
      BY <2>3, <3>1
  <2>. QED
    BY <2>3, <2>4
<1>3. Documents!Min(S) = CHOOSE x \in S : \A y \in S : x <= y
  BY DEF Documents!Min
<1>4. Documents!Max(S) = CHOOSE x \in S : \A y \in S : x >= y
  BY DEF Documents!Max
<1>. QED
  BY <1>1, <1>2, <1>3, <1>4

(* What is left of a text without the blanks at its ends.                  *)
LEMMA StripIs ==
  ASSUME NEW C, NEW text \in Seq(C)
  PROVE  /\ Documents!Strip(text) \in Seq(C) /\ Len(Documents!Strip(text)) <= Len(text)
         /\ Documents!Strip(text) = << >> <=> Documents!Inked(text) = {}
<1>1. CASE Documents!Inked(text) = {}
  BY <1>1 DEF Documents!Strip
<1>2. CASE Documents!Inked(text) # {}
  <2>. DEFINE a == Documents!Min(Documents!Inked(text))
              b == Documents!Max(Documents!Inked(text))
  <2>1. Documents!Inked(text) \in SUBSET (1..Len(text)) /\ Len(text) \in Nat
    BY DEF Documents!Inked
  <2>2. a \in 1..Len(text) /\ b \in 1..Len(text) /\ a <= b
    <3>1. /\ a \in Documents!Inked(text) /\ \A i \in Documents!Inked(text) : a <= i
          /\ b \in Documents!Inked(text)
      BY <1>2, <2>1, FirstAndLast
    <3>. QED
      BY <2>1, <3>1
  <2>3. Documents!Strip(text) = SubSeq(text, a, b)
    BY <1>2 DEF Documents!Strip
  <2>. HIDE DEF a, b
  <2>4. SubSeq(text, a, b) \in Seq(C) /\ Len(SubSeq(text, a, b)) = b - a + 1
    BY <2>2
  <2>. QED
    BY <1>2, <2>2, <2>3, <2>4
<1>. QED
  BY <1>1, <1>2

(* The chunks of a text of characters C.                                   *)
Chunk(C) == [content : Seq(C), start : Nat, end : Nat]

(* What a chunk has.                                                       *)
LEMMA ChunkHas ==
  ASSUME NEW C, NEW c \in Chunk(C)
  PROVE  c.content \in Seq(C) /\ c.start \in Nat /\ c.end \in Nat
  BY DEF Chunk

(* A window is a chunk when there is something in it.                      *)
LEMMA WindowIs ==
  ASSUME NEW C, NEW body \in Seq(C), NEW start \in Nat, start < Len(body), NEW size \in Nat \ {0}
  PROVE  LET w == Documents!Window(body, start, size)
         IN  /\ w \in Chunk(C)
             /\ w.start = start /\ w.end = Documents!Least(start + size, Len(body))
             /\ Len(w.content) <= w.end - w.start
             /\ w.content = << >> <=> \A i \in Documents!Inked(body) : ~(start < i /\ i <= w.end)
<1>. DEFINE end == Documents!Least(start + size, Len(body))
            part == SubSeq(body, start + 1, end)
<1>1. end \in 1..Len(body) /\ start < end /\ Len(body) \in Nat
  BY DEF Documents!Least
<1>. HIDE DEF end
<1>2. /\ part \in Seq(C) /\ Len(part) = end - start
      /\ \A i \in 1..(end - start) : part[i] = body[start + i]
  BY <1>1
<1>3. Documents!Inked(part) = {} <=> \A i \in Documents!Inked(body) : ~(start < i /\ i <= end)
  <2>1. ASSUME Documents!Inked(part) = {}, NEW i \in Documents!Inked(body), start < i, i <= end PROVE FALSE
    <3>1. i \in 1..Len(body) /\ body[i] # Documents!Blank
      BY <2>1 DEF Documents!Inked
    <3>2. i - start \in 1..(end - start) /\ start + (i - start) = i
      BY <1>1, <2>1, <3>1
    <3>3. part[i - start] = body[i]
      BY <1>2, <3>2
    <3>. HIDE DEF part
    <3>4. i - start \in DOMAIN part
      BY <1>2, <3>2
    <3>. QED
      BY <2>1, <3>1, <3>3, <3>4 DEF Documents!Inked
  <2>2. ASSUME NEW j \in Documents!Inked(part) PROVE \E i \in Documents!Inked(body) : start < i /\ i <= end
    <3>1. j \in 1..(end - start) /\ part[j] # Documents!Blank
      <4>. HIDE DEF part
      <4>. QED
        BY <1>2, <2>2 DEF Documents!Inked
    <3>2. start + j \in 1..Len(body) /\ body[start + j] # Documents!Blank
      BY <1>1, <1>2, <3>1
    <3>. QED
      BY <1>1, <3>1, <3>2 DEF Documents!Inked
  <2>. QED
    BY <2>1, <2>2
<1>4. /\ Documents!Strip(part) \in Seq(C) /\ Len(Documents!Strip(part)) <= end - start
      /\ Documents!Strip(part) = << >> <=> Documents!Inked(part) = {}
  BY <1>2, StripIs
<1>5. Documents!Window(body, start, size) = [content |-> Documents!Strip(part), start |-> start, end |-> end]
  BY DEF Documents!Window, end
<1>. HIDE DEF part
<1>. QED
  BY <1>1, <1>3, <1>4, <1>5 DEF end, Chunk
(* The rounds are made one after the other.                                *)
LEMMA RoundsRecur ==
  ASSUME NEW body, Len(body) \in Nat, NEW size, NEW overlap
  PROVE  /\ Documents!Rounds(body, size, overlap)[0] = [chunks |-> << >>, start |-> 0, over |-> FALSE]
         /\ \A k \in 1..Len(body) :
              Documents!Rounds(body, size, overlap)[k]
                = Documents!Cut(body, size, overlap, Documents!Rounds(body, size, overlap)[k - 1])
<1>. DEFINE n == Len(body)
            first == [chunks |-> << >>, start |-> 0, over |-> FALSE]
            Body(g, k) == IF k = 0 THEN first ELSE Documents!Cut(body, size, overlap, g[k - 1])
            Is(g, m) == g = [k \in 0..m |-> Body(g, k)]
            S == {m \in 0..n : \E g : Is(g, m)}
<1>. HIDE DEF first
<1>1. 0 \in S
  <2>1. Is([k \in 0..0 |-> first], 0)
    OBVIOUS
  <2>2. \E g : Is(g, 0)
    <3>. HIDE DEF Is
    <3>. QED
      BY <2>1
  <2>. QED
    BY <2>2
<1>2. ASSUME NEW m \in 1..n, m - 1 \in S PROVE m \in S
  <2>1. PICK g : Is(g, m - 1)
    BY <1>2
  <2>. DEFINE h == [k \in 0..m |-> IF k < m THEN g[k] ELSE Documents!Cut(body, size, overlap, g[m - 1])]
  <2>2. ASSUME NEW k \in 0..m PROVE h[k] = Body(h, k)
    <3>1. CASE k < m
      <4>1. h[k] = Body(g, k)
        BY <2>1, <3>1
      <4>2. k # 0 => h[k - 1] = g[k - 1]
        BY <3>1
      <4>3. Body(h, k) = Body(g, k)
        <5>. HIDE DEF h
        <5>. QED
          BY <4>2
      <4>. QED
        BY <4>1, <4>3
    <3>2. CASE k = m
      BY <3>2
    <3>. QED
      BY <3>1, <3>2
  <2>3. Is(h, m)
    BY <2>2
  <2>4. \E i : Is(i, m)
    <3>. HIDE DEF Is, h
    <3>. QED
      BY <2>3
  <2>. QED
    BY <2>4
<1>3. n \in S
  <2>. HIDE DEF S
  <2>1. 0..n \subseteq S
    BY <1>1, <1>2, AgentRun!UpTo
  <2>. QED
    BY <2>1
<1>4. \E g : Is(g, n)
  BY <1>3
<1>5. Documents!Rounds(body, size, overlap) = CHOOSE g : Is(g, n)
  BY DEF Documents!Rounds, first
<1>6. Is(Documents!Rounds(body, size, overlap), n)
  <2>. HIDE DEF Is
  <2>. QED
    BY <1>4, <1>5
<1>7. \A k \in 0..n : Documents!Rounds(body, size, overlap)[k] = Body(Documents!Rounds(body, size, overlap), k)
  BY <1>6
<1>. QED
  BY <1>7 DEF first

(* How far the rounds have come: to the end, or to where the last window   *)
(* ended, which is the overlap beyond the start of the next one.  What has *)
(* ink up to there is in a chunk, in the last one or before it; and each   *)
(* chunk is linked to the next.                                            *)
Frontier(body, overlap, done) ==
  IF done.over THEN Len(body) ELSE IF done.start = 0 THEN 0 ELSE done.start + overlap

Linked(body, overlap, a, b) ==
  /\ a.start < b.start /\ a.end < b.end
  /\ \/ b.start = a.end - overlap
     \/ b.start > a.end - overlap /\ \A i \in Documents!Inked(body) : i <= a.end \/ i > b.start

ChunksTyped(C, pieces) == pieces \in Seq(Chunk(C))
ChunksCover(body, pieces, front) ==
  \A i \in Documents!Inked(body) : i <= front =>
    \E k \in 1..Len(pieces) : pieces[k].start < i /\ i <= pieces[k].end
ChunksFit(body, size, pieces, front) ==
  \A k \in 1..Len(pieces) :
    /\ pieces[k].content # << >> /\ pieces[k].end - pieces[k].start <= size
    /\ pieces[k].start < pieces[k].end /\ pieces[k].end <= front
    /\ Len(pieces[k].content) <= pieces[k].end - pieces[k].start
ChunksLinked(body, overlap, pieces) ==
  \A k \in 1..(Len(pieces) - 1) : Linked(body, overlap, pieces[k], pieces[k + 1])

CutSoFar(C, body, size, overlap, n, done) ==
  LET pieces == done.chunks
      front == Frontier(body, overlap, done)
  IN  /\ done.start \in Nat /\ done.over \in BOOLEAN /\ ChunksTyped(C, pieces)
      /\ ~done.over => /\ done.start >= n
                       /\ done.start = 0 \/ done.start + overlap < Len(body)
                       /\ \A k \in 1..Len(pieces) : pieces[k].start < done.start
      /\ ChunksCover(body, pieces, front) /\ ChunksFit(body, size, pieces, front)
      /\ ChunksLinked(body, overlap, pieces)
      /\ pieces # << >> =>
           \A i \in Documents!Inked(body) : i > pieces[Len(pieces)].end => i > front

LEMMA CutGoesOn ==
  ASSUME NEW C, NEW body \in Seq(C), Len(body) # 0, NEW size \in Nat \ {0},
         NEW overlap \in Nat, overlap < size, NEW n \in Nat, NEW done,
         CutSoFar(C, body, size, overlap, n, done)
  PROVE  CutSoFar(C, body, size, overlap, n + 1, Documents!Cut(body, size, overlap, done))
<1>. DEFINE L == Len(body)
            pieces == done.chunks
            w == Documents!Window(body, done.start, size)
            next == Documents!Cut(body, size, overlap, done)
            front == Frontier(body, overlap, done)
<1>1. CASE done.over
  <2>1. next = done
    BY <1>1 DEF Documents!Cut
  <2>. QED
    BY <1>1, <2>1 DEF CutSoFar
<1>2. CASE ~done.over
  <2>1. /\ done.start \in Nat /\ ChunksTyped(C, pieces) /\ done.start >= n
        /\ done.start = 0 \/ done.start + overlap < L
        /\ \A k \in 1..Len(pieces) : pieces[k].start < done.start
        /\ ChunksCover(body, pieces, front) /\ ChunksFit(body, size, pieces, front)
        /\ ChunksLinked(body, overlap, pieces)
        /\ pieces # << >> => \A i \in Documents!Inked(body) : i > pieces[Len(pieces)].end => i > front
    BY <1>2 DEF CutSoFar
  <2>2. L \in Nat \ {0} /\ done.start < L
    BY <2>1
  <2>0. /\ L = Len(body) /\ pieces = done.chunks /\ front = Frontier(body, overlap, done)
    OBVIOUS
  <2>3. front = IF done.start = 0 THEN 0 ELSE done.start + overlap
    BY <1>2 DEF Frontier
  <2>15. done.start \in Nat
    BY <2>1
  <2>4. /\ w \in Chunk(C)
        /\ w.start = done.start /\ w.end = Documents!Least(done.start + size, L)
        /\ Len(w.content) <= w.end - w.start
        /\ w.content = << >> <=> \A i \in Documents!Inked(body) : ~(w.start < i /\ i <= w.end)
    <3>1. done.start < Len(body)
      BY <2>2
    <3>. QED
      BY <2>15, <3>1, WindowIs
  <2>14. w.start \in Nat /\ w.end \in Nat
    BY <2>4 DEF Chunk
  <2>5. w.end \in 1..L /\ w.end - w.start <= size /\ w.start < w.end /\ front < w.end
    BY <2>1, <2>2, <2>3, <2>4 DEF Documents!Least
  <2>6. /\ next.chunks = IF w.content = << >> THEN pieces ELSE Append(pieces, w)
        /\ next.start = done.start + size - overlap /\ next.over = (w.end >= L)
    BY <1>2 DEF Documents!Cut
  <2>. HIDE DEF pieces, front, w, next
  <2>16. PICK s \in Nat, e \in Nat : s = done.start /\ s = w.start /\ e = w.end
    BY <2>4, <2>14, <2>15
  <2>17. s < L /\ (s = 0 \/ s + overlap < L) /\ s >= n
    BY <2>1, <2>2, <2>16
  <2>18. e = IF s + size < L THEN s + size ELSE L
    BY <2>4, <2>16 DEF Documents!Least
  <2>19. /\ next.start = s + size - overlap /\ next.start \in Nat /\ next.start > s
         /\ e < L => next.over = FALSE
         /\ e >= L => next.over = TRUE
    <3>1. next.start = s + size - overlap
      BY <2>6, <2>16
    <3>2. next.over = (e >= L)
      BY <2>6, <2>16
    <3>3. e < L => ~(e >= L)
      BY <2>2
    <3>4. s + size - overlap \in Nat /\ s + size - overlap > s
      OBVIOUS
    <3>5. next.start \in Nat /\ next.start > s
      BY <3>1, <3>4
    <3>6. ASSUME e < L PROVE next.over = FALSE
      <4>1. (e >= L) = FALSE
        BY <3>3, <3>6
      <4>. QED
        BY <3>2, <4>1
    <3>7. e >= L => next.over = TRUE
      BY <3>2
    <3>. QED
      BY <3>1, <3>5, <3>6, <3>7
  <2>20. pieces # << >> => \A i \in Documents!Inked(body) : i > pieces[Len(pieces)].end => i > front
    BY <2>1
  <2>21. /\ e < L => next.start > s /\ next.start >= n + 1 /\ next.start + overlap = e
         /\ e >= L => e = L
    BY <2>2, <2>17, <2>18, <2>19
  <2>7. next.start \in Nat /\ next.over \in BOOLEAN /\ next.start > done.start
    <3>1. e < L \/ e >= L
      BY <2>2
    <3>. QED
      BY <2>16, <2>19, <3>1
  <2>8. Frontier(body, overlap, next) = w.end
    <3>1. Frontier(body, overlap, next)
            = IF next.over THEN L ELSE IF next.start = 0 THEN 0 ELSE next.start + overlap
      BY DEF Frontier
    <3>2. CASE e < L
      BY <2>16, <2>19, <2>21, <3>1, <3>2
    <3>3. CASE e >= L
      BY <2>16, <2>19, <2>21, <3>1, <3>3
    <3>. QED
      BY <2>2, <3>2, <3>3
  <2>9. ~next.over => next.start >= n + 1 /\ next.start + overlap < L
    BY <2>2, <2>19, <2>21
  <2>10. \A i \in Documents!Inked(body) : i \in Nat /\ i >= 1
    BY DEF Documents!Inked
  <2>11. /\ pieces \in Seq(Chunk(C)) /\ Len(pieces) \in Nat
         /\ pieces # << >> => Len(pieces) \in 1..Len(pieces)
         /\ \A k \in 1..Len(pieces) : pieces[k].start \in Nat /\ pieces[k].end \in Nat
    <3>1. pieces \in Seq(Chunk(C))
      BY <2>1 DEF ChunksTyped
    <3>2. \A k \in 1..Len(pieces) : pieces[k] \in Chunk(C)
      BY <3>1
    <3>. QED
      BY <3>1, <3>2, ChunkHas
  <2>22. PICK f \in Nat : f = front /\ f < e
    BY <2>3, <2>5, <2>16
  <2>23. ASSUME NEW k \in 1..Len(pieces), pieces[k].end <= front PROVE pieces[k].end <= w.end
    <3>1. PICK p \in Nat : p = pieces[k].end /\ p <= f
      BY <2>11, <2>22, <2>23
    <3>. QED
      BY <2>16, <2>22, <3>1
  <2>12. CASE w.content = << >>
    <3>1. next.chunks = pieces
      BY <2>6, <2>12
    <3>2. \A i \in Documents!Inked(body) : ~(w.start < i /\ i <= w.end)
      BY <2>4, <2>12
    <3>3. \A i \in Documents!Inked(body) : i <= w.end => i <= front
      BY <2>1, <2>3, <2>4, <2>10, <3>2
    <3>4. ChunksCover(body, pieces, w.end)
      BY <2>1, <3>3 DEF ChunksCover
    <3>5. ChunksFit(body, size, pieces, w.end)
      BY <2>1, <2>23 DEF ChunksFit
    <3>6. pieces # << >> => \A i \in Documents!Inked(body) : i > pieces[Len(pieces)].end => i > w.end
      <4>1. ASSUME pieces # << >>, NEW i \in Documents!Inked(body), i > pieces[Len(pieces)].end
            PROVE  i > w.end
        <5>1. i > f /\ i \in Nat
          BY <2>1, <2>10, <2>22, <4>1
        <5>2. ~(i <= e)
          BY <2>16, <2>22, <3>3, <5>1
        <5>. QED
          BY <2>16, <5>1, <5>2
      <4>. QED
        BY <4>1
    <3>7. ~next.over => \A k \in 1..Len(pieces) : pieces[k].start < next.start
      BY <2>1, <2>7, <2>11
    <3>. QED
      BY <2>1, <2>7, <2>8, <2>9, <3>1, <3>4, <3>5, <3>6, <3>7 DEF CutSoFar, next
  <2>13. CASE w.content # << >>
    <3>. DEFINE m == Len(pieces)
                all == Append(pieces, w)
    <3>1. next.chunks = all
      BY <2>6, <2>13
    <3>2. /\ ChunksTyped(C, all) /\ Len(all) = m + 1 /\ all[m + 1] = w
          /\ \A k \in 1..m : all[k] = pieces[k]
      BY <2>4, <2>11 DEF ChunksTyped
    <3>. HIDE DEF all
    <3>3. ChunksCover(body, all, w.end)
      <4>1. ASSUME NEW i \in Documents!Inked(body), i <= w.end
            PROVE  \E k \in 1..Len(all) : all[k].start < i /\ i <= all[k].end
        <5>1. CASE i <= front
          <6>1. PICK k \in 1..m : pieces[k].start < i /\ i <= pieces[k].end
            BY <2>1, <5>1 DEF ChunksCover
          <6>. QED
            BY <2>11, <3>2, <6>1
        <5>2. CASE i > w.start
          BY <2>11, <3>2, <4>1, <5>2
        <5>. QED
          BY <2>1, <2>2, <2>3, <2>4, <2>10, <5>1, <5>2
      <4>. QED
        BY <4>1 DEF ChunksCover
    <3>4. ChunksFit(body, size, all, w.end)
      <4>1. ASSUME NEW k \in 1..Len(all)
            PROVE  /\ all[k].content # << >> /\ all[k].end - all[k].start <= size
                   /\ all[k].start < all[k].end /\ all[k].end <= w.end
                   /\ Len(all[k].content) <= all[k].end - all[k].start
        <5>1. CASE k \in 1..m
          <6>1. /\ pieces[k].content # << >> /\ pieces[k].end - pieces[k].start <= size
                /\ pieces[k].start < pieces[k].end /\ pieces[k].end <= front
                /\ Len(pieces[k].content) <= pieces[k].end - pieces[k].start
            BY <2>1, <5>1 DEF ChunksFit
          <6>2. pieces[k].end <= w.end
            BY <2>23, <5>1, <6>1
          <6>. QED
            BY <3>2, <5>1, <6>1, <6>2
        <5>2. CASE k = m + 1
          BY <2>4, <2>5, <2>13, <3>2, <5>2
        <5>. QED
          BY <2>11, <3>2, <5>1, <5>2
      <4>. QED
        BY <4>1 DEF ChunksFit
    <3>5. ChunksLinked(body, overlap, all)
      <4>1. ASSUME NEW k \in 1..(Len(all) - 1) PROVE Linked(body, overlap, all[k], all[k + 1])
        <5>1. CASE k \in 1..(m - 1)
          BY <2>1, <2>11, <3>2, <5>1 DEF ChunksLinked
        <5>2. CASE k = m
          <6>1. /\ all[k] = pieces[m] /\ all[k + 1] = w /\ m \in 1..m /\ pieces # << >>
                /\ pieces[m].end \in Nat /\ pieces[m].start \in Nat
            BY <2>11, <3>2, <4>1, <5>2
          <6>2. pieces[m].start < w.start /\ pieces[m].end <= front /\ w.start # 0
            BY <2>1, <2>4, <6>1 DEF ChunksFit
          <6>3. front = w.start + overlap
            BY <2>3, <2>4, <6>2
          <6>4. \A i \in Documents!Inked(body) : i <= pieces[m].end \/ i > w.start
            <7>1. \A i \in Documents!Inked(body) : i > pieces[m].end => i > front
              <8>1. m = Len(pieces)
                OBVIOUS
              <8>. QED
                BY <2>20, <6>1, <8>1
            <7>2. PICK p \in Nat : p = pieces[m].end
              BY <6>1
            <7>3. ASSUME NEW i \in Documents!Inked(body), i > p PROVE i > s
              <8>1. i > front /\ i \in Nat
                BY <2>10, <7>1, <7>2, <7>3
              <8>2. front = s + overlap
                BY <2>16, <6>3
              <8>. QED
                BY <8>1, <8>2
            <7>4. \A i \in Documents!Inked(body) : i <= p \/ i > s
              BY <2>10, <7>3
            <7>. QED
              BY <2>16, <7>2, <7>4
          <6>5. /\ w.start = pieces[m].end - overlap \/ w.start > pieces[m].end - overlap
                /\ pieces[m].end < w.end
            <7>1. PICK p \in Nat : p = pieces[m].end
              BY <6>1
            <7>2. p <= s + overlap /\ s + overlap < e
              BY <2>5, <2>16, <6>2, <6>3, <7>1
            <7>3. (s = p - overlap \/ s > p - overlap) /\ p < e
              BY <7>2
            <7>. QED
              BY <2>16, <7>1, <7>3
          <6>. QED
            BY <6>1, <6>2, <6>4, <6>5 DEF Linked
        <5>. QED
          BY <2>11, <3>2, <5>1, <5>2
      <4>. QED
        BY <4>1 DEF ChunksLinked
    <3>6. \A i \in Documents!Inked(body) : i > all[Len(all)].end => i > w.end
      BY <3>2, <2>11
    <3>7. ~next.over => \A k \in 1..Len(all) : all[k].start < next.start
      <4>1. \A k \in 1..m : pieces[k].start < next.start
        BY <2>1, <2>7, <2>11, <2>15
      <4>2. w.start < next.start
        BY <2>4, <2>7
      <4>. QED
        <5>1. \A k \in 1..Len(all) : k \in 1..m \/ k = m + 1
          BY <2>11, <3>2
        <5>. QED
          BY <3>2, <4>1, <4>2, <5>1
    <3>. QED
      BY <2>1, <2>7, <2>8, <2>9, <3>1, <3>2, <3>3, <3>4, <3>5, <3>6, <3>7
         DEF CutSoFar, next
  <2>. QED
    BY <2>12, <2>13
<1>. QED
  BY <1>1, <1>2
(* What the rounds have made of a text when they are over.                 *)
LEMMA ChunksAre ==
  ASSUME NEW C, NEW text \in Seq(C), NEW size \in Nat \ {0},
         NEW overlap \in Nat, overlap < size
  PROVE  LET body == Documents!Strip(text)
             pieces == Documents!chunk_text(text, size, overlap)
         IN  /\ body \in Seq(C) /\ ChunksTyped(C, pieces)
             /\ \A i \in Documents!Inked(body) :
                  \E k \in 1..Len(pieces) : pieces[k].start < i /\ i <= pieces[k].end
             /\ ChunksFit(body, size, pieces, Len(body))
             /\ ChunksLinked(body, overlap, pieces)
<1>. DEFINE body == Documents!Strip(text)
            L == Len(body)
            R == Documents!Rounds(body, size, overlap)
            pieces == Documents!chunk_text(text, size, overlap)
<1>1. body \in Seq(C)
  BY StripIs
<1>. HIDE DEF body
<1>2. L \in Nat /\ pieces = R[L].chunks
  BY <1>1 DEF Documents!chunk_text, body
<1>3. /\ \A i \in Documents!Inked(body) :
           \E k \in 1..Len(pieces) : pieces[k].start < i /\ i <= pieces[k].end
      /\ ChunksTyped(C, pieces) /\ ChunksFit(body, size, pieces, L)
      /\ ChunksLinked(body, overlap, pieces)
  <2>1. CASE L = 0
    <3>1. pieces = << >>
      BY <1>2, <2>1, RoundsRecur
    <3>2. Documents!Inked(body) = {}
      BY <1>1, <2>1 DEF Documents!Inked
    <3>. HIDE DEF pieces
    <3>. QED
      BY <3>1, <3>2 DEF ChunksTyped, ChunksLinked, ChunksFit
  <2>2. CASE L # 0
    <3>. DEFINE S == {n \in 0..L : CutSoFar(C, body, size, overlap, n, R[n])}
    <3>1. 0 \in S
      <4>. DEFINE first == [chunks |-> << >>, start |-> 0, over |-> FALSE]
      <4>1. R[0] = first
        BY <1>2, RoundsRecur
      <4>2. /\ first.start = 0 /\ first.over = FALSE /\ first.chunks = << >>
            /\ Frontier(body, overlap, first) = 0
        BY DEF Frontier
      <4>3. \A i \in Documents!Inked(body) : i \in Nat /\ i >= 1
        BY <1>1 DEF Documents!Inked
      <4>. HIDE DEF first
      <4>4. ChunksTyped(C, << >>) /\ ChunksCover(body, << >>, 0)
        BY <4>3 DEF ChunksTyped, ChunksCover
      <4>5. ChunksFit(body, size, << >>, 0) /\ ChunksLinked(body, overlap, << >>)
        BY DEF ChunksFit, ChunksLinked
      <4>7. CutSoFar(C, body, size, overlap, 0, first)
        <5>. HIDE DEF ChunksTyped, ChunksCover, ChunksFit, ChunksLinked
        <5>1. first.start \in Nat /\ first.start >= 0
          <6>1. first.start = 0
            BY <4>2
          <6>. QED
            BY <6>1
        <5>5. first.over \in BOOLEAN
          <6>1. first.over = FALSE
            BY <4>2
          <6>. QED
            BY <6>1, Zenon
        <5>4. \A k \in 1..Len(first.chunks) : first.chunks[k].start < first.start
          <6>1. Len(first.chunks) = 0
            BY <4>2
          <6>. QED
            BY <6>1
        <5>2. ChunksTyped(C, first.chunks) /\ ChunksCover(body, first.chunks, Frontier(body, overlap, first))
          BY <4>2, <4>4
        <5>3. /\ ChunksFit(body, size, first.chunks, Frontier(body, overlap, first))
              /\ ChunksLinked(body, overlap, first.chunks)
          BY <4>2, <4>5
        <5>. QED
          BY <4>2, <5>1, <5>2, <5>3, <5>4, <5>5 DEF CutSoFar
      <4>. QED
        BY <1>2, <4>1, <4>7
    <3>2. ASSUME NEW n \in 1..L, n - 1 \in S PROVE n \in S
      <4>1. CutSoFar(C, body, size, overlap, n - 1, R[n - 1]) /\ n - 1 \in Nat
        BY <3>2
      <4>2. R[n] = Documents!Cut(body, size, overlap, R[n - 1])
        BY <1>2, RoundsRecur
      <4>. HIDE DEF R
      <4>3. CutSoFar(C, body, size, overlap, (n - 1) + 1, R[n])
        BY <1>1, <2>2, <4>1, <4>2, CutGoesOn
      <4>. QED
        BY <4>3
    <3>3. L \in S
      <4>. HIDE DEF S
      <4>1. 0..L \subseteq S
        BY <1>2, <3>1, <3>2, AgentRun!UpTo
      <4>. QED
        BY <1>2, <4>1
    <3>4. CutSoFar(C, body, size, overlap, L, R[L])
      BY <3>3
    <3>. DEFINE last == R[L]
    <3>. HIDE DEF R, L, pieces
    <3>5. /\ last.over = FALSE => L <= last.start /\ (last.start = 0 \/ last.start + overlap < L)
          /\ last.start \in Nat /\ last.over \in BOOLEAN
          /\ ChunksCover(body, pieces, Frontier(body, overlap, last))
          /\ ChunksFit(body, size, pieces, Frontier(body, overlap, last))
          /\ ChunksTyped(C, pieces) /\ ChunksLinked(body, overlap, pieces)
      BY <1>2, <3>4 DEF CutSoFar, L
    <3>6. last.over = TRUE
      BY <1>2, <2>2, <3>5
    <3>7. Frontier(body, overlap, last) = L
      BY <3>6 DEF Frontier, L
    <3>8. \A i \in Documents!Inked(body) : i <= L
      BY <1>1 DEF Documents!Inked, L
    <3>. QED
      BY <3>5, <3>7, <3>8 DEF ChunksCover
  <2>. QED
    BY <2>1, <2>2
<1>. QED
  BY <1>1, <1>3 DEF body

(* Nothing of a text is lost by cutting it, whatever the size of a chunk   *)
(* and the overlap below it: every character is in a chunk, chunks fit the *)
(* size and share the overlap with the next one unless only blanks lie     *)
(* between them, and none is inside another.                               *)
THEOREM TextsAreCutWhole ==
  ASSUME NEW C, NEW text \in Seq(C), NEW size \in Nat \ {0},
         NEW overlap \in Nat, overlap < size
  PROVE  Documents!CutsWhole(text, size, overlap)
<1>. DEFINE body == Documents!Strip(text)
            L == Len(body)
            pieces == Documents!chunk_text(text, size, overlap)
<1>1. body \in Seq(C) /\ L \in Nat
  BY StripIs
<1>2. /\ \A i \in Documents!Inked(body) :
           \E k \in 1..Len(pieces) : pieces[k].start < i /\ i <= pieces[k].end
      /\ ChunksTyped(C, pieces) /\ ChunksFit(body, size, pieces, L)
      /\ ChunksLinked(body, overlap, pieces)
  BY ChunksAre
<1>. HIDE DEF body, pieces
<1>3. \A k \in 1..Len(pieces) :
        /\ pieces[k].end - pieces[k].start <= size /\ pieces[k].content # << >>
        /\ pieces[k].start < pieces[k].end /\ pieces[k].end <= L
  BY <1>2 DEF ChunksFit
<1>4. /\ Len(pieces) \in Nat /\ DOMAIN pieces = 1..Len(pieces)
      /\ \A k \in 1..Len(pieces) : pieces[k].start \in Nat /\ pieces[k].end \in Nat
  <2>1. pieces \in Seq(Chunk(C))
    BY <1>2 DEF ChunksTyped
  <2>2. \A k \in 1..Len(pieces) : pieces[k] \in Chunk(C)
    BY <2>1
  <2>. QED
    BY <2>1, <2>2, ChunkHas
<1>5. \A c \in Documents!ToSet(pieces) : \E k \in 1..Len(pieces) : c = pieces[k]
  BY <1>4 DEF Documents!ToSet
<1>6. \A k \in 1..Len(pieces) : pieces[k] \in Documents!ToSet(pieces)
  BY <1>4 DEF Documents!ToSet
<1>7. ASSUME NEW k \in 1..(Len(pieces) - 1)
      PROVE  LET a == pieces[k]
                 b == pieces[k + 1]
             IN  /\ a.start < b.start /\ a.end < b.end
                 /\ \/ b.start = a.end - overlap
                    \/ Documents!Inked(SubSeq(body, a.end + 1, b.start)) = {} /\ b.start > a.end - overlap
  <2>1. Linked(body, overlap, pieces[k], pieces[k + 1])
    BY <1>2 DEF ChunksLinked
  <2>2. PICK p \in Nat, q \in Nat : p = pieces[k].end /\ q = pieces[k + 1].start
    BY <1>4
  <2>3. ASSUME \A i \in Documents!Inked(body) : i <= p \/ i > q PROVE Documents!Inked(SubSeq(body, p + 1, q)) = {}
    <3>. DEFINE part == SubSeq(body, p + 1, q)
    <3>1. q <= L /\ L = Len(body)
      <4>1. k + 1 \in 1..Len(pieces)
        BY <1>4
      <4>2. pieces[k + 1].start < pieces[k + 1].end /\ pieces[k + 1].end <= L
        BY <1>3, <4>1
      <4>3. pieces[k + 1].end \in Nat /\ L \in Nat
        BY <1>1, <1>4, <4>1
      <4>. HIDE DEF L
      <4>4. q <= L
        BY <2>2, <4>2, <4>3
      <4>. QED
        BY <4>4 DEF L
    <3>2. ASSUME NEW j \in Documents!Inked(part) PROVE FALSE
      <4>1. /\ Len(part) = IF p < q THEN q - p ELSE 0
            /\ \A i \in 1..Len(part) : part[i] = body[p + i]
            /\ DOMAIN part = 1..Len(part)
        BY <1>1, <1>2, <3>1
      <4>. HIDE DEF part
      <4>2. j \in 1..Len(part) /\ part[j] # Documents!Blank
        BY <3>2, <4>1 DEF Documents!Inked
      <4>3. p + j \in 1..L /\ body[p + j] # Documents!Blank /\ p + j > p /\ p + j <= q
        BY <1>1, <3>1, <4>1, <4>2
      <4>4. p + j \in Documents!Inked(body)
        BY <1>1, <3>1, <4>3 DEF Documents!Inked
      <4>. QED
        BY <2>3, <4>3, <4>4
    <3>. QED
      BY <3>2
  <2>. QED
    BY <2>1, <2>2, <2>3 DEF Linked
<1>8. Documents!CutsWhole(text, size, overlap)
       <=> /\ \A i \in Documents!Inked(body) : \E c \in Documents!ToSet(pieces) : c.start < i /\ i <= c.end
           /\ \A c \in Documents!ToSet(pieces) : c.end - c.start <= size /\ c.content # << >>
           /\ \A i \in 1..(Len(pieces) - 1) :
                LET a == pieces[i]
                    b == pieces[i + 1]
                IN  /\ a.start < b.start /\ a.end < b.end
                    /\ \/ b.start = a.end - overlap
                       \/ Documents!Inked(SubSeq(body, a.end + 1, b.start)) = {} /\ b.start > a.end - overlap
  BY DEF Documents!CutsWhole, pieces, body
<1>. QED
  BY <1>2, <1>3, <1>5, <1>6, <1>7, <1>8

(* A page, a section or a run of rows is cut whole in what its header      *)
(* leaves of the size, and each piece of it fits with the header, but for  *)
(* a header that leaves no room: then a piece is one character.            *)
THEOREM SegmentsAreCutWhole ==
  ASSUME NEW C, NEW segment, segment.content \in Seq(C), segment.header \in Nat,
         NEW size \in Nat \ {0}, NEW overlap \in Nat
  PROVE  /\ Documents!CutsWhole(segment.content, Documents!Budget(segment, size),
                      Documents!Least(overlap, Documents!Budget(segment, size) - 1))
         /\ \A p \in DOMAIN Documents!Pieces(segment, size, overlap) :
              LET content == Documents!Pieces(segment, size, overlap)[p].content
              IN  \/ Documents!Prefix(segment) + Len(content) <= size
                  \/ Documents!Prefix(segment) >= size /\ Len(content) = 1
<1>. DEFINE room == Documents!Budget(segment, size)
            shared == Documents!Least(overlap, room - 1)
            text == segment.content
            pieces == Documents!chunk_text(text, room, shared)
<1>1. PICK h \in Nat : h = Documents!Prefix(segment)
  BY DEF Documents!Prefix
<1>2. room \in Nat \ {0} /\ (room = size - h \/ (h >= size /\ room = 1))
  BY <1>1 DEF Documents!Budget, Documents!Most
<1>. HIDE DEF room
<1>3. shared \in Nat /\ shared < room
  BY <1>2 DEF Documents!Least
<1>. HIDE DEF shared, text
<1>4. text \in Seq(C)
  BY DEF text
<1>5. Documents!CutsWhole(text, room, shared)
  BY <1>2, <1>3, <1>4, TextsAreCutWhole
<1>6. ChunksTyped(C, pieces) /\ ChunksFit(Documents!Strip(text), room, pieces, Len(Documents!Strip(text)))
  BY <1>2, <1>3, <1>4, ChunksAre
<1>7. Documents!Pieces(segment, size, overlap) = pieces
  BY DEF Documents!Pieces, room, shared, text
<1>. HIDE DEF pieces
<1>8. ASSUME NEW p \in DOMAIN pieces
      PROVE  \/ h + Len(pieces[p].content) <= size
             \/ h >= size /\ Len(pieces[p].content) = 1
  <2>1. pieces \in Seq(Chunk(C))
    BY <1>6 DEF ChunksTyped
  <2>2. p \in 1..Len(pieces) /\ pieces[p] \in Chunk(C)
    BY <1>8, <2>1
  <2>3. pieces[p].content \in Seq(C) /\ pieces[p].start \in Nat /\ pieces[p].end \in Nat
    BY <2>2, ChunkHas
  <2>4. /\ pieces[p].content # << >> /\ pieces[p].end - pieces[p].start <= room
        /\ Len(pieces[p].content) <= pieces[p].end - pieces[p].start
    BY <1>6, <2>2 DEF ChunksFit
  <2>5. Len(pieces[p].content) \in 1..room
    BY <1>2, <2>3, <2>4
  <2>6. PICK m \in Nat : m = Len(pieces[p].content) /\ m >= 1 /\ m <= room
    BY <1>2, <2>5
  <2>7. h + m <= size \/ (h >= size /\ m = 1)
    <3>1. CASE room = size - h
      BY <2>6, <3>1
    <3>2. CASE h >= size /\ room = 1
      <4>1. m >= 1 /\ m <= 1
        BY <2>6, <3>2
      <4>2. m = 1
        BY <4>1
      <4>. QED
        BY <3>2, <4>2
    <3>. QED
      BY <1>2, <3>1, <3>2
  <2>. QED
    BY <2>6, <2>7
<1>. QED
  BY <1>1, <1>5, <1>7, <1>8 DEF room, shared, text
=============================================================================
