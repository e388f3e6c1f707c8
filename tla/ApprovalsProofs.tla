--------------------------- MODULE ApprovalsProofs ---------------------------
(***************************************************************************)
(* Proofs about Approvals, for every set of actions, every finite set of   *)
(* requests, every deadline and any number of requests that die.           *)
(***************************************************************************)
EXTENDS Approvals, FiniteSetTheorems, TLAPS

-----------------------------------------------------------------------------
(* Types.  A request is at work on a row that others can see, and an id    *)
(* that is still unused has no row: without this a decision would not      *)
(* write a row.                                                            *)
Tables ==
  /\ \A a \in unused : row[a] = NULL
  /\ \A r \in Requests : req[r] # NULL => req[r].action \in Visible

Typed == TypeOK /\ Tables

(* The initial state is well typed.                                        *)
LEMMA TypeInit == Init => Typed
  BY BoundsAssumption DEF Init, Typed, Tables, TypeOK

(* The steps of a turn keep the types.                                     *)
LEMMA TypeTurn == Typed /\ Turn => Typed'
<1>. SUFFICES ASSUME Typed, Turn PROVE Typed'
  OBVIOUS
<1>. USE DEF Typed, Tables, TypeOK, Visible
<1>1. ASSUME NEW a \in Actions, Propose(a) PROVE Typed'
  <2>1. [status |-> "pending", expires |-> Deadline(now), run |-> TRUE]
          \in Approval
    BY TTLAssumption DEF Approval, Statuses, Deadline, TypeOK
  <2>. QED
    BY <1>1, <2>1 DEF Propose, TypeOK, world, history
<1>2. ASSUME NEW proposed \in SUBSET draft, CommitTurn(proposed) PROVE Typed'
  BY <1>2 DEF CommitTurn, TypeOK, world, history
<1>3. ASSUME NEW proposed \in SUBSET draft, LoseTurn(proposed) PROVE Typed'
  BY <1>3 DEF LoseTurn, TypeOK, world, history
<1>. QED
  BY <1>1, <1>2, <1>3 DEF Turn

(* The steps of a request keep the types.                                  *)
LEMMA TypeHandler ==
  ASSUME Typed, NEW r \in Requests, Handler(r)
  PROVE  Typed'
<1>. USE DEF Typed
<1>1. ASSUME NEW a \in Actions, NEW verb \in Verbs, Read(r, a, verb)
      PROVE  Typed'
  <2>1. Verdict(a, verb) \in Statuses \ {"pending"}
    BY DEF Verdict, Verbs, Statuses
  <2>2. [action |-> a, stage |-> "deciding", decision |-> Verdict(a, verb)]
          \in Request
    BY <2>1 DEF Request, Stages
  <2>3. TypeOK'
    BY <1>1, <2>2 DEF Read, TypeOK, table, world
  <2>4. Tables'
    BY <1>1, <2>2 DEF Read, Decidable, TypeOK, Tables, Visible, table, world
  <2>. QED
    BY <2>3, <2>4
<1>2. ASSUME req[r] # NULL
      PROVE  /\ req[r] \in Request
             /\ req[r].action \in Visible /\ req[r].action \in Actions
             /\ row[req[r].action] \in Approval
  BY <1>2 DEF TypeOK, Tables, Visible
<1>3. ASSUME Decide(r) PROVE Typed'
  <2>. DEFINE a == req[r].action
  <2>1. /\ a \in Actions /\ req[r].decision \in Statuses
        /\ req[r] \in Request
        /\ [row[a] EXCEPT !.status = req[r].decision] \in Approval
        /\ [req[r] EXCEPT !.stage = "decided"] \in Request
    BY <1>2, <1>3 DEF Decide, Request, Stages, Approval
  <2>2. /\ row' = [row EXCEPT ![a] =
                     [row[a] EXCEPT !.status = req[r].decision]]
        /\ row' \in [Actions -> Approval \cup {NULL}]
    BY <1>3, <2>1 DEF Decide, TypeOK
  <2>3. req' \in [Requests -> Request \cup {NULL}]
    BY <1>3, <2>1 DEF Decide, TypeOK
  <2>4. grants' \in [Actions -> Nat]
    BY <1>3, <2>1 DEF Decide, TypeOK
  <2>5. TypeOK'
    BY <1>3, <2>2, <2>3, <2>4 DEF Decide, TypeOK, world
  <2>6. Visible' = Visible
    BY <1>2, <1>3, <2>1, <2>2, NullAssumption DEF Decide, TypeOK, Visible
  <2>7. \A q \in Requests : req'[q] # NULL =>
          req[q] # NULL /\ req'[q].action = req[q].action
    BY <1>3, <2>1 DEF Decide, TypeOK
  <2>8. \A b \in unused' : row'[b] = NULL
    BY <1>2, <1>3, <2>2 DEF Decide, TypeOK, Tables, Visible
  <2>. QED
    BY <2>5, <2>6, <2>7, <2>8 DEF Tables
<1>4. ASSUME Dispatch(r) PROVE Typed'
  <2>1. AfterDispatch(r) = NULL \/
          /\ AfterDispatch(r) \in Request
          /\ AfterDispatch(r).action = req[r].action
    BY <1>2, <1>4 DEF Dispatch, AfterDispatch, Request, Stages, Outcomes
  <2>2. TypeOK'
    BY <1>4, <2>1 DEF Dispatch, TypeOK, table, world, history
  <2>3. Tables'
    BY <1>2, <1>4, <2>1 DEF Dispatch, TypeOK, Tables, Visible, table
  <2>. QED
    BY <2>2, <2>3
<1>5. ASSUME NEW ok \in BOOLEAN, NEW done \in BOOLEAN, RunTool(r, ok, done)
      PROVE  Typed'
  <2>1. /\ [req[r] EXCEPT !.stage = Ending(ok)] \in Request
        /\ [req[r] EXCEPT !.stage = Ending(ok)].action = req[r].action
        /\ req' = [req EXCEPT ![r] = [req[r] EXCEPT !.stage = Ending(ok)]]
    BY <1>2, <1>5 DEF RunTool, Ending, Request, Stages, Outcomes
  <2>2. effects' \in [Actions -> Nat]
    BY <1>2, <1>5 DEF RunTool, TypeOK
  <2>3. TypeOK'
    BY <1>5, <2>1, <2>2 DEF RunTool, TypeOK, table, history
  <2>4. Tables'
    BY <1>2, <1>5, <2>1 DEF RunTool, TypeOK, Tables, Visible, table
  <2>. QED
    BY <2>3, <2>4
<1>6. ASSUME Record(r) PROVE Typed'
  <2>1. trail' \in [Actions -> [Outcomes -> Nat]]
    BY <1>2, <1>6 DEF Record, TypeOK
  <2>2. TypeOK'
    BY <1>6, <2>1 DEF Record, TypeOK, table, history
  <2>3. Tables'
    BY <1>6 DEF Record, TypeOK, Tables, Visible, table
  <2>. QED
    BY <2>2, <2>3
<1>7. ASSUME Die(r) PROVE Typed'
  <2>1. TypeOK'
    BY <1>2, <1>7 DEF Die, TypeOK, table, world
  <2>2. Tables'
    BY <1>7 DEF Die, TypeOK, Tables, Visible, table
  <2>. QED
    BY <2>1, <2>2
<1>. QED
  BY <1>1, <1>3, <1>4, <1>5, <1>6, <1>7 DEF Handler

(* The steps around the requests keep the types.                           *)
LEMMA TypeAround ==
  ASSUME Typed,
         (\E a \in Actions : Withdraw(a) \/ CleanUpRun(a)) \/ Tick
  PROVE  Typed'
<1>. USE DEF Typed, Tables, TypeOK, Visible
<1>1. ASSUME NEW a \in Actions, Withdraw(a) PROVE Typed'
  BY <1>1 DEF Withdraw, table, world, history
<1>2. ASSUME NEW a \in Actions, CleanUpRun(a) PROVE Typed'
  <2>1. /\ row[a] \in Approval
        /\ [row[a] EXCEPT !.run = FALSE] \in Approval
        /\ row' = [row EXCEPT ![a] = [row[a] EXCEPT !.run = FALSE]]
    BY <1>2 DEF CleanUpRun, Approval
  <2>2. trail' \in [Actions -> [Outcomes -> Nat]]
    BY <1>2 DEF CleanUpRun
  <2>3. TypeOK'
    BY <1>2, <2>1, <2>2 DEF CleanUpRun, history
  <2>4. Visible' = Visible
    BY <1>2, <2>1, NullAssumption DEF CleanUpRun
  <2>5. \A b \in unused' : row'[b] = NULL
    BY <1>2, <2>1 DEF CleanUpRun
  <2>. QED
    BY <1>2, <2>3, <2>4, <2>5 DEF CleanUpRun
<1>3. CASE Tick
  BY <1>3, BoundsAssumption DEF Tick, table, world, history
<1>. QED
  BY <1>1, <1>2, <1>3

(* Every step keeps the types.                                             *)
LEMMA TypeStep == Typed /\ [Next]_vars => Typed'
<1>1. CASE UNCHANGED vars
  BY <1>1 DEF vars, table, world, history, Typed, Tables, TypeOK, Visible
<1>. QED
  BY <1>1, TypeTurn, TypeHandler, TypeAround DEF Next

(* In every reachable state the tables, the requests and the counters have *)
(* the shapes their declarations promise.                                  *)
THEOREM TypeCorrect == Spec => []TypeOK
<1>1. Typed => TypeOK
  BY DEF Typed
<1>. QED
  BY <1>1, TypeInit, TypeStep, PTL DEF Spec

-----------------------------------------------------------------------------
(* The guard of a single execution.  An approval nobody else sees has no   *)
(* past; an approval no two requests have overlapped on has at most one    *)
(* request at work, whose stage agrees with the status of the row, and the *)
(* tool has not yet been run while that request has still to run it.       *)
Rows(a) == Executions(a) + trail[a]["not_executed"]

Fresh(a) ==
  /\ row[a] # NULL => row[a].status = "pending"
  /\ effects[a] = 0 /\ Rows(a) = 0
  /\ a \notin contested
  /\ \A r \in Requests : ~At(r, a)

Settled(a) ==
  /\ \A r, q \in Requests : At(r, a) /\ At(q, a) => r = q
  /\ \A r \in Requests :
       At(r, a) => (req[r].stage = "deciding" <=> row[a].status = "pending")
  /\ row[a].status = "pending" => effects[a] = 0 /\ Rows(a) = 0
  /\ row[a].status \in {"rejected", "expired"} =>
       effects[a] = 0 /\ \A r \in Requests : ~At(r, a)
  /\ effects[a] <= 1
  /\ \A r \in Requests :
       At(r, a) /\ req[r].stage \in {"decided", "running"} => effects[a] = 0
  /\ row[a].status = "approved" /\ row[a].run /\ a \notin cut =>
       Rows(a) = IF \E r \in Requests : At(r, a) THEN 0 ELSE 1

Guarded(a) ==
  IF a \in Visible THEN a \in contested \/ Settled(a) ELSE Fresh(a)

Guard == Typed /\ \A a \in Actions : Guarded(a)

(* A step that leaves an approval, its effects, its trail and its requests *)
(* alone.                                                                  *)
Alone(a) ==
  /\ row'[a] = row[a] /\ effects'[a] = effects[a] /\ trail'[a] = trail[a]
  /\ (a \in draft') = (a \in draft)
  /\ (a \in contested') = (a \in contested) /\ (a \in cut') = (a \in cut)
  /\ \A r \in Requests :
       \/ req'[r] = req[r]
       \/ ~At(r, a) /\ ~At(r, a)'

(* Such a step leaves the approval as guarded as it was.                   *)
LEMMA AloneStays ==
  ASSUME NEW a \in Actions, Guarded(a), Alone(a)
  PROVE  Guarded(a)'
<1>1. \A r \in Requests : At(r, a)' = At(r, a)
  BY DEF Alone, At
<1>2. \A r \in Requests : At(r, a) => req'[r] = req[r]
  BY DEF Alone
<1>3. /\ Rows(a)' = Rows(a)
      /\ (a \in Visible)' <=> (a \in Visible)
  BY DEF Alone, Rows, Executions, Visible
<1>4. Fresh(a) => Fresh(a)'
  BY <1>1, <1>3 DEF Alone, Fresh
<1>5. Settled(a) => Settled(a)'
  BY <1>1, <1>2, <1>3 DEF Alone, Settled
<1>. QED
  BY <1>3, <1>4, <1>5 DEF Guarded, Alone

(* Nothing has been proposed at first.                                     *)
LEMMA GuardInit == Init => Guard
<1>. SUFFICES ASSUME Init, NEW a \in Actions PROVE Guarded(a)
  BY TypeInit DEF Guard
<1>. QED
  BY DEF Init, Guarded, Visible, Fresh, Rows, Executions, Outcomes, At

(* A turn proposes, commits or is lost: what becomes visible is fresh.     *)
LEMMA GuardTurn == Guard /\ Turn => \A a \in Actions : Guarded(a)'
<1>. SUFFICES ASSUME Guard, Turn, NEW a \in Actions PROVE Guarded(a)'
  OBVIOUS
<1>. USE DEF Guard, Typed
<1>1. ASSUME NEW b \in Actions, Propose(b) PROVE Guarded(a)'
  <2>1. CASE a # b
    <3>1. Alone(a)
      BY <1>1, <2>1 DEF Propose, Alone, TypeOK, world, history
    <3>. QED  BY <3>1, AloneStays
  <2>2. CASE a = b
    <3>1. Fresh(a) /\ a \in draft'
      BY <1>1, <2>2 DEF Propose, Guarded, Tables, Visible
    <3>2. row'[a].status = "pending"
      BY <1>1, <2>2 DEF Propose, TypeOK
    <3>. QED
      BY <1>1, <3>1, <3>2 DEF Propose, Guarded, Fresh, Visible, Rows,
         Executions, At, world, history
  <2>. QED  BY <2>1, <2>2
<1>2. ASSUME NEW proposed \in SUBSET draft, CommitTurn(proposed)
      PROVE  Guarded(a)'
  <2>1. CASE a \notin proposed
    <3>1. Alone(a)
      BY <1>2, <2>1 DEF CommitTurn, Alone, world, history
    <3>. QED  BY <3>1, AloneStays
  <2>2. CASE a \in proposed
    <3>1. Fresh(a)
      BY <1>2, <2>2 DEF Guarded, Visible
    <3>2. Fresh(a)' /\ row' = row
      BY <1>2, <3>1 DEF CommitTurn, Fresh, Rows, Executions, At, world, history
    <3>3. row'[a] # NULL => Settled(a)'
      BY <3>2 DEF Fresh, Settled
    <3>. QED
      BY <3>2, <3>3 DEF Guarded, Visible
  <2>. QED  BY <2>1, <2>2
<1>3. ASSUME NEW proposed \in SUBSET draft, LoseTurn(proposed)
      PROVE  Guarded(a)'
  <2>1. CASE a \notin proposed
    <3>1. Alone(a)
      BY <1>3, <2>1 DEF LoseTurn, Alone, world, history
    <3>. QED  BY <3>1, AloneStays
  <2>2. CASE a \in proposed
    <3>1. Fresh(a)
      BY <1>3, <2>2 DEF Guarded, Visible
    <3>2. Fresh(a)' /\ row'[a] = NULL
      BY <1>3, <2>2, <3>1
         DEF LoseTurn, Fresh, Rows, Executions, At, world, history
    <3>. QED
      BY <3>2 DEF Guarded, Visible
  <2>. QED  BY <2>1, <2>2
<1>. QED
  BY <1>1, <1>2, <1>3 DEF Turn

(* A second reader of a pending approval finds no request at work on it,   *)
(* or marks it contested.                                                  *)
LEMMA GuardRead ==
  ASSUME Guard, NEW r \in Requests, NEW b \in Actions, NEW verb \in Verbs,
         Read(r, b, verb), NEW a \in Actions
  PROVE  Guarded(a)'
<1>. USE DEF Guard, Typed
<1>1. CASE a # b
  <2>1. Alone(a)
    BY <1>1 DEF Read, Alone, At, TypeOK, table, world
  <2>. QED  BY <2>1, AloneStays
<1>2. CASE a = b /\ a \in contested
  BY <1>2 DEF Read, Guarded, Visible, table, Decidable
<1>3. CASE a = b /\ a \notin contested /\ \E q \in Requests : Deciding(q, a)
  BY <1>3 DEF Read, Guarded, Visible, table, Decidable
<1>4. CASE a = b /\ a \notin contested /\ ~ \E q \in Requests : Deciding(q, a)
  <2>1. Settled(a) /\ row[a].status = "pending"
    BY <1>4 DEF Read, Decidable, Guarded
  <2>2. \A q \in Requests : ~At(q, a)
    BY <1>4, <2>1 DEF Settled, Deciding
  <2>3. req'[r].stage = "deciding" /\ \A q \in Requests : At(q, a)' => q = r
    BY <1>4, <2>2 DEF Read, At, TypeOK
  <2>4. row'[a] = row[a] /\ effects'[a] = effects[a] /\ Rows(a)' = Rows(a)
    BY <1>4 DEF Read, table, world, Rows, Executions
  <2>5. Settled(a)'
    BY <2>1, <2>3, <2>4 DEF Settled
  <2>6. a \in Visible'
    BY <1>4 DEF Read, Decidable, Visible, table
  <2>. QED
    BY <2>5, <2>6 DEF Guarded
<1>. QED
  BY <1>1, <1>2, <1>3, <1>4

(* What a request works on stays visible, and its commit, dispatch, run,   *)
(* record or death concerns no other approval.                             *)
LEMMA OnlyItsOwn ==
  ASSUME Guard, NEW r \in Requests, NEW a, a = req[r].action,
         \/ Decide(r) \/ Dispatch(r) \/ Record(r) \/ Die(r)
         \/ \E ok, done \in BOOLEAN : RunTool(r, ok, done)
  PROVE  /\ req[r] # NULL /\ req[r] \in Request /\ At(r, a)
         /\ a \in Visible /\ a \in Actions /\ row[a] \in Approval
         /\ a \in Visible'
         /\ a \in contested => a \in contested'
         /\ \A q \in Requests \ {r} : req'[q] = req[q]
         /\ req'[r] = NULL \/ req'[r].action = a
         /\ \A b \in Actions : b # a => Guarded(b)'
<1>. USE DEF Guard, Typed
<1>1. /\ req[r] # NULL /\ req[r] \in Request /\ At(r, a)
      /\ a \in Visible /\ a \in Actions /\ row[a] \in Approval
  BY DEF Decide, Dispatch, Record, Die, RunTool, TypeOK, Tables, Visible, At
<1>2. /\ row'[a] # NULL /\ draft' = draft /\ contested' = contested
      /\ \A q \in Requests \ {r} : req'[q] = req[q]
      /\ req'[r] = NULL \/ req'[r].action = a
      /\ \A b \in Actions : b # a =>
           /\ row'[b] = row[b] /\ effects'[b] = effects[b]
           /\ trail'[b] = trail[b] /\ (b \in cut') = (b \in cut)
  <2>1. CASE Decide(r)
    <3>1. row'[a] = [row[a] EXCEPT !.status = req[r].decision]
      BY <1>1, <2>1 DEF Decide, TypeOK
    <3>2. row'[a] # NULL
      BY <1>1, <3>1, NullAssumption DEF Approval, Request
    <3>. QED
      BY <1>1, <2>1, <3>2 DEF Decide, TypeOK, Request, world
  <2>2. CASE Dispatch(r)
    BY <1>1, <2>2 DEF Dispatch, AfterDispatch, TypeOK, Request, Visible,
       table, world, history
  <2>3. CASE Record(r)
    BY <1>1, <2>3 DEF Record, TypeOK, Visible, table, history
  <2>4. CASE Die(r)
    BY <1>1, <2>4 DEF Die, TypeOK, Visible, table, world
  <2>5. ASSUME NEW ok \in BOOLEAN, NEW done \in BOOLEAN, RunTool(r, ok, done)
        PROVE  <1>2!:
    BY <1>1, <2>5 DEF RunTool, TypeOK, Request, Visible, table, history
  <2>. QED
    BY <2>1, <2>2, <2>3, <2>4, <2>5
<1>3. \A b \in Actions : b # a => Alone(b)
  BY <1>1, <1>2 DEF Alone, At
<1>. QED
  BY <1>1, <1>2, <1>3, AloneStays DEF Visible

(* Committing the decision turns the one reader's pending row into what it *)
(* decided, and only an approval goes on to be dispatched.                 *)
LEMMA GuardDecide ==
  ASSUME Guard, NEW r \in Requests, Decide(r)
  PROVE  \A a \in Actions : Guarded(a)'
<1>1. PICK a : a = req[r].action
  OBVIOUS
<1>2. /\ a \in Visible' /\ At(r, a) /\ a \in Actions
      /\ a \in contested => a \in contested'
      /\ \A b \in Actions : b # a => Guarded(b)'
      /\ \A q \in Requests \ {r} : req'[q] = req[q]
  BY <1>1, OnlyItsOwn
<1>3. ASSUME a \notin contested PROVE Settled(a)'
  <2>1. Settled(a) /\ req[r] \in Request /\ row[a] \in Approval
    BY <1>1, <1>3, OnlyItsOwn DEF Guard, Guarded
  <2>2. row[a].status = "pending" /\ effects[a] = 0 /\ Rows(a) = 0
    BY <1>2, <2>1 DEF Decide, Settled
  <2>. DEFINE left == [row[a] EXCEPT !.status = req[r].decision]
              next == IF req[r].decision = "approved"
                        THEN [req[r] EXCEPT !.stage = "decided"] ELSE NULL
  <2>6. row'[a] = left /\ req'[r] = next
    BY <1>1, <1>2 DEF Decide, Guard, Typed, TypeOK
  <2>7. left.status = req[r].decision
    BY <2>1 DEF Approval
  <2>8. IF req[r].decision = "approved"
        THEN next # NULL /\ next.action = a /\ next.stage = "decided"
        ELSE next = NULL
    <3>1. [req[r] EXCEPT !.stage = "decided"] \in Request
      BY <2>1 DEF Request, Stages
    <3>. QED
      BY <1>1, <2>1, <3>1, NullAssumption DEF Request
  <2>3. /\ effects'[a] = 0 /\ Rows(a)' = 0
        /\ row'[a].status = req[r].decision
        /\ IF req[r].decision = "approved"
           THEN At(r, a)' /\ req'[r].stage = "decided"
           ELSE ~At(r, a)'
    <3>. HIDE DEF left, next
    <3>1. effects'[a] = 0 /\ Rows(a)' = 0
      BY <2>2 DEF Decide, Rows, Executions, world
    <3>. QED
      BY <2>6, <2>7, <2>8, <3>1 DEF At
  <2>4. \A q \in Requests : At(q, a)' => q = r
    BY <1>2, <2>1 DEF Settled, At
  <2>5. req[r].decision \in {"approved", "rejected", "expired"}
    BY <2>1 DEF Request, Statuses
  <2>. QED
    BY <2>3, <2>4, <2>5 DEF Settled
<1>. QED
  BY <1>2, <1>3 DEF Guarded

(* An uncontested approval is dispatched by the request that committed it. *)
LEMMA GuardDispatch ==
  ASSUME Guard, NEW r \in Requests, Dispatch(r)
  PROVE  \A a \in Actions : Guarded(a)'
<1>1. PICK a : a = req[r].action
  OBVIOUS
<1>2. /\ a \in Visible' /\ At(r, a) /\ a \in Actions
      /\ a \in contested => a \in contested'
      /\ \A b \in Actions : b # a => Guarded(b)'
      /\ \A q \in Requests \ {r} : req'[q] = req[q]
  BY <1>1, OnlyItsOwn
<1>3. ASSUME a \notin contested PROVE Settled(a)'
  <2>1. Settled(a) /\ req[r] \in Request /\ row[a] \in Approval
    BY <1>1, <1>3, OnlyItsOwn DEF Guard, Guarded
  <2>2. /\ row[a].status = "approved" /\ effects[a] = 0
        /\ row[a].run /\ a \notin cut => Rows(a) = 0
    BY <1>2, <2>1 DEF Dispatch, Settled, Approval, Statuses
  <2>3. /\ row'[a] = row[a] /\ effects'[a] = effects[a]
        /\ Rows(a)' = Rows(a) /\ (a \in cut') = (a \in cut)
    BY DEF Dispatch, Rows, Executions, table, world, history
  <2>6. ASSUME NEW stage \in Stages
        PROVE  LET next == [req[r] EXCEPT !.stage = stage]
               IN  next # NULL /\ next.action = a /\ next.stage = stage
    <3>1. [req[r] EXCEPT !.stage = stage] \in Request
      BY <2>1 DEF Request
    <3>. QED
      BY <1>1, <2>1, <3>1, NullAssumption DEF Request
  <2>7. req'[r] = AfterDispatch(r)
    BY DEF Dispatch, Guard, Typed, TypeOK
  <2>4. IF row[a].run
        THEN At(r, a)' /\ req'[r].stage \in {"running", "not_executed"}
        ELSE ~At(r, a)'
    <3>1. "running" \in Stages /\ "not_executed" \in Stages
      BY DEF Stages, Outcomes
    <3>2. CASE a \in withdrawn
      BY <1>1, <2>2, <2>6, <2>7, <3>1, <3>2 DEF AfterDispatch, At
    <3>3. CASE a \notin withdrawn
      BY <1>1, <2>2, <2>6, <2>7, <3>1, <3>3 DEF AfterDispatch, At
    <3>. QED  BY <3>2, <3>3
  <2>5. \A q \in Requests : At(q, a)' => q = r
    BY <1>2, <2>1 DEF Settled, At
  <2>. QED
    BY <2>2, <2>3, <2>4, <2>5 DEF Settled
<1>. QED
  BY <1>2, <1>3 DEF Guarded

(* The tool is run once: its request goes on to record the outcome.        *)
LEMMA GuardRun ==
  ASSUME Guard, NEW r \in Requests, NEW ok \in BOOLEAN, NEW done \in BOOLEAN,
         RunTool(r, ok, done)
  PROVE  \A a \in Actions : Guarded(a)'
<1>1. PICK a : a = req[r].action
  OBVIOUS
<1>2. /\ a \in Visible' /\ At(r, a) /\ a \in Actions
      /\ a \in contested => a \in contested'
      /\ \A b \in Actions : b # a => Guarded(b)'
      /\ \A q \in Requests \ {r} : req'[q] = req[q]
  BY <1>1, OnlyItsOwn
<1>3. ASSUME a \notin contested PROVE Settled(a)'
  <2>1. Settled(a) /\ req[r] \in Request /\ row[a] \in Approval
    BY <1>1, <1>3, OnlyItsOwn DEF Guard, Guarded
  <2>2. /\ row[a].status = "approved" /\ effects[a] = 0
        /\ row[a].run /\ a \notin cut => Rows(a) = 0
    BY <1>2, <2>1 DEF RunTool, Settled, Approval, Statuses
  <2>3. /\ row'[a] = row[a] /\ effects'[a] \in {0, 1}
        /\ Rows(a)' = Rows(a) /\ (a \in cut') = (a \in cut)
    BY <1>1, <1>2, <2>2
       DEF RunTool, Rows, Executions, table, history, Guard, Typed, TypeOK
  <2>4. At(r, a)' /\ req'[r].stage \in {"succeeded", "failed"}
    <3>. DEFINE next == [req[r] EXCEPT !.stage = Ending(ok)]
    <3>1. req'[r] = next
      BY DEF RunTool, Guard, Typed, TypeOK
    <3>2. Ending(ok) \in {"succeeded", "failed"}
      BY DEF Ending
    <3>3. next \in Request
      BY <2>1, <3>2 DEF Request, Stages, Outcomes
    <3>4. next # NULL /\ next.action = a /\ next.stage = Ending(ok)
      BY <1>1, <2>1, <3>3, NullAssumption DEF Request
    <3>. HIDE DEF next
    <3>. QED
      BY <3>1, <3>2, <3>4 DEF At
  <2>5. \A q \in Requests : At(q, a)' => q = r
    BY <1>2, <2>1 DEF Settled, At
  <2>. QED
    BY <1>2, <2>2, <2>3, <2>4, <2>5 DEF Settled
<1>. QED
  BY <1>2, <1>3 DEF Guarded

(* Its outcome is recorded once.                                           *)
LEMMA GuardRecord ==
  ASSUME Guard, NEW r \in Requests, Record(r)
  PROVE  \A a \in Actions : Guarded(a)'
<1>1. PICK a : a = req[r].action
  OBVIOUS
<1>2. /\ a \in Visible' /\ At(r, a) /\ a \in Actions
      /\ a \in contested => a \in contested'
      /\ \A b \in Actions : b # a => Guarded(b)'
      /\ \A q \in Requests \ {r} : req'[q] = req[q]
  BY <1>1, OnlyItsOwn
<1>3. ASSUME a \notin contested PROVE Settled(a)'
  <2>1. Settled(a) /\ req[r] \in Request /\ row[a] \in Approval
    BY <1>1, <1>3, OnlyItsOwn DEF Guard, Guarded
  <2>2. /\ row[a].status = "approved" /\ effects[a] <= 1
        /\ row[a].run /\ a \notin cut => Rows(a) = 0
    BY <1>2, <2>1 DEF Record, Settled, Approval, Statuses, Outcomes
  <2>3. /\ row'[a] = row[a] /\ effects'[a] = effects[a]
        /\ (a \in cut') = (a \in cut)
    BY DEF Record, table, history
  <2>4. row[a].run /\ a \notin cut => Rows(a)' = 1
    <3>1. trail[a] \in [Outcomes -> Nat]
      BY <1>2 DEF Guard, Typed, TypeOK
    <3>2. row[a].run => trail'[a] = [trail[a] EXCEPT ![req[r].stage] = @ + 1]
      BY <1>1, <1>2 DEF Record, Recorded, Guard, Typed, TypeOK
    <3>3. req[r].stage \in {"succeeded", "failed", "not_executed"}
      BY DEF Record, Outcomes
    <3>4. row[a].run => \A o \in Outcomes :
            /\ trail[a][o] \in Nat
            /\ trail'[a][o] = IF o = req[r].stage THEN trail[a][o] + 1
                              ELSE trail[a][o]
      BY <3>1, <3>2
    <3>5. /\ "succeeded" \in Outcomes /\ "failed" \in Outcomes
          /\ "not_executed" \in Outcomes
      BY DEF Outcomes
    <3>. SUFFICES ASSUME row[a].run, a \notin cut PROVE Rows(a)' = 1
      OBVIOUS
    <3>. DEFINE s == trail[a]["succeeded"]
                f == trail[a]["failed"]
                n == trail[a]["not_executed"]
    <3>6. s \in Nat /\ f \in Nat /\ n \in Nat /\ s + f + n = 0
      BY <2>2, <3>1, <3>5 DEF Rows, Executions
    <3>7. s = 0 /\ f = 0 /\ n = 0
      <4>. HIDE DEF s, f, n
      <4>. QED  BY <3>6
    <3>8. CASE req[r].stage = "succeeded"
      BY <3>4, <3>5, <3>7, <3>8 DEF Rows, Executions
    <3>9. CASE req[r].stage = "failed"
      BY <3>4, <3>5, <3>7, <3>9 DEF Rows, Executions
    <3>10. CASE req[r].stage = "not_executed"
      BY <3>4, <3>5, <3>7, <3>10 DEF Rows, Executions
    <3>. QED
      BY <3>3, <3>8, <3>9, <3>10
  <2>5. \A q \in Requests : ~At(q, a)'
    BY <1>2, <2>1 DEF Settled, At, Record, Guard, Typed, TypeOK
  <2>. QED
    BY <2>2, <2>3, <2>4, <2>5 DEF Settled
<1>. QED
  BY <1>2, <1>3 DEF Guarded

(* A request that dies leaves its approval decided or pending, never run   *)
(* again.                                                                  *)
LEMMA GuardDie ==
  ASSUME Guard, NEW r \in Requests, Die(r)
  PROVE  \A a \in Actions : Guarded(a)'
<1>1. PICK a : a = req[r].action
  OBVIOUS
<1>2. /\ a \in Visible' /\ At(r, a) /\ a \in Actions
      /\ a \in contested => a \in contested'
      /\ \A b \in Actions : b # a => Guarded(b)'
      /\ \A q \in Requests \ {r} : req'[q] = req[q]
  BY <1>1, OnlyItsOwn
<1>3. ASSUME a \notin contested PROVE Settled(a)'
  <2>1. Settled(a)
    BY <1>1, <1>3, OnlyItsOwn DEF Guard, Guarded
  <2>2. \A q \in Requests : ~At(q, a)'
    BY <1>2, <2>1 DEF Settled, At, Die, Guard, Typed, TypeOK
  <2>3. row'[a] = row[a] /\ effects'[a] = effects[a] /\ Rows(a)' = Rows(a)
    BY DEF Die, table, world, Rows, Executions
  <2>4. row[a].status = "approved" => a \in cut'
    BY <1>1, <1>2, <2>1 DEF Die, Settled
  <2>. QED
    BY <2>1, <2>2, <2>3, <2>4 DEF Settled
<1>. QED
  BY <1>2, <1>3 DEF Guarded

(* Withdrawing a tool, cleaning up a run and the clock.                    *)
LEMMA GuardAround ==
  ASSUME Guard,
         (\E a \in Actions : Withdraw(a) \/ CleanUpRun(a)) \/ Tick
  PROVE  \A a \in Actions : Guarded(a)'
<1>. USE DEF Guard, Typed
<1>1. ASSUME NEW b \in Actions, Withdraw(b), NEW a \in Actions
      PROVE  Guarded(a)'
  <2>1. Alone(a)
    BY <1>1 DEF Withdraw, Alone, table, world, history
  <2>. QED  BY <2>1, AloneStays
<1>2. ASSUME Tick, NEW a \in Actions PROVE Guarded(a)'
  <2>1. Alone(a)
    BY <1>2 DEF Tick, Alone, table, world, history
  <2>. QED  BY <2>1, AloneStays
<1>3. ASSUME NEW b \in Actions, CleanUpRun(b), NEW a \in Actions
      PROVE  Guarded(a)'
  <2>1. CASE a # b
    <3>1. Alone(a)
      BY <1>3, <2>1 DEF CleanUpRun, Alone, TypeOK, history
    <3>. QED  BY <3>1, AloneStays
  <2>2. CASE a = b
    <3>1. row[a] \in Approval /\ row'[a] = [row[a] EXCEPT !.run = FALSE]
      BY <1>3, <2>2 DEF CleanUpRun, Visible, TypeOK
    <3>2. /\ row'[a].status = row[a].status /\ ~row'[a].run
          /\ row'[a] # NULL
      BY <3>1, NullAssumption DEF Approval
    <3>3. Rows(a)' = 0
      BY <1>3, <2>2 DEF CleanUpRun, Rows, Executions, Outcomes, TypeOK
    <3>4. Settled(a) => Settled(a)'
      BY <1>3, <3>2, <3>3 DEF CleanUpRun, Settled, At, history
    <3>. QED
      BY <1>3, <2>2, <3>2, <3>4 DEF CleanUpRun, Guarded, Visible, history
  <2>. QED  BY <2>1, <2>2
<1>. QED
  BY <1>1, <1>2, <1>3

(* Every step keeps the guard.                                             *)
LEMMA GuardStep == Guard /\ [Next]_vars => Guard'
<1>. SUFFICES ASSUME Guard, [Next]_vars PROVE \A a \in Actions : Guarded(a)'
  BY TypeStep DEF Guard
<1>1. CASE UNCHANGED vars
  <2>. SUFFICES ASSUME NEW a \in Actions PROVE Alone(a)
    BY AloneStays DEF Guard
  <2>. QED
    BY <1>1 DEF Alone, vars, table, world, history
<1>2. ASSUME NEW r \in Requests, Handler(r)
      PROVE  \A a \in Actions : Guarded(a)'
  BY <1>2, GuardRead, GuardDecide, GuardDispatch, GuardRun, GuardRecord,
     GuardDie DEF Handler
<1>. QED
  BY <1>1, <1>2, GuardTurn, GuardAround DEF Next

(* The guard holds in every reachable state.                               *)
LEMMA GuardInvariant == Spec => []Guard
  BY GuardInit, GuardStep, PTL DEF Spec

(* An action whose approval no two requests had read at the same time      *)
(* takes effect at most once.                                              *)
THEOREM RunsOnce == Spec => []UncontestedRunsOnce
<1>1. Guard => UncontestedRunsOnce
  BY DEF Guard, Guarded, Settled, Fresh, UncontestedRunsOnce
<1>. QED
  BY <1>1, GuardInvariant, PTL

(* With the same exception, an action that was rejected or that expired    *)
(* never takes effect.                                                     *)
THEOREM RefusalHolds == Spec => []RefusedNeverRuns
<1>1. Guard => RefusedNeverRuns
  BY DEF Guard, Guarded, Settled, RefusedNeverRuns, Visible
<1>. QED
  BY <1>1, GuardInvariant, PTL

(* Each approval that has been dealt with has one row on the audit trail.  *)
THEOREM TrailIsComplete == Spec => []OutcomesAreOnTrail
<1>1. Guard => OutcomesAreOnTrail
  BY DEF Guard, Guarded, Settled, Rows, OutcomesAreOnTrail, Visible
<1>. QED
  BY <1>1, GuardInvariant, PTL

-----------------------------------------------------------------------------
(* Consent.  The requests that have committed an approval and have still   *)
(* to run the tool hold the consents that are not used up.                 *)
Mandated(a) ==
  {r \in Requests : At(r, a) /\ req[r].stage \in {"decided", "running"}}

Funded ==
  \A a \in Actions : effects[a] + Cardinality(Mandated(a)) <= grants[a]

(* A step leaves the consents of an action alone, adds one with the        *)
(* request that now holds it, or uses the one its request held.            *)
Kept(a) ==
  /\ grants'[a] = grants[a] /\ effects'[a] = effects[a]
  /\ Mandated(a)' \subseteq Mandated(a)

Given(a) ==
  /\ grants'[a] = grants[a] + 1 /\ effects'[a] = effects[a]
  /\ \E r \in Requests : Mandated(a)' \subseteq Mandated(a) \cup {r}

Used(a) ==
  /\ grants'[a] = grants[a]
  /\ effects'[a] \in {effects[a], effects[a] + 1}
  /\ \E r \in Mandated(a) : Mandated(a)' \subseteq Mandated(a) \ {r}

(* These are all the steps there are.                                      *)
LEMMA ConsentMoves ==
  ASSUME Guard, [Next]_vars, NEW a \in Actions
  PROVE  Kept(a) \/ Given(a) \/ Used(a)
<1>. USE DEF Guard, Typed
<1>1. CASE UNCHANGED <<req, effects, grants>>
  BY <1>1 DEF Kept, Mandated, At
<1>2. CASE UNCHANGED vars
  BY <1>1, <1>2 DEF vars, world, history
<1>3. CASE Turn \/ Tick \/ \E b \in Actions : Withdraw(b) \/ CleanUpRun(b)
  BY <1>1, <1>3 DEF Turn, Propose, CommitTurn, LoseTurn, Tick, Withdraw,
     CleanUpRun, world, history
<1>4. ASSUME NEW r \in Requests, NEW b \in Actions, NEW verb \in Verbs,
             Read(r, b, verb)
      PROVE  Kept(a)
  <2>1. req'[r].stage = "deciding" /\ \A q \in Requests \ {r} : req'[q] = req[q]
    BY <1>4 DEF Read, TypeOK
  <2>2. Mandated(a)' \subseteq Mandated(a)
    BY <2>1 DEF Mandated, At
  <2>. QED
    BY <1>4, <2>2 DEF Read, Kept, world
<1>5. ASSUME NEW r \in Requests,
             \/ Decide(r) \/ Dispatch(r) \/ Record(r) \/ Die(r)
             \/ \E ok, done \in BOOLEAN : RunTool(r, ok, done)
      PROVE  Kept(a) \/ Given(a) \/ Used(a)
  <2>1. PICK b : b = req[r].action
    OBVIOUS
  <2>2. /\ At(r, b) /\ b \in Actions
        /\ \A q \in Requests \ {r} : req'[q] = req[q]
        /\ req'[r] = NULL \/ req'[r].action = b
    BY <1>5, <2>1, OnlyItsOwn
  <2>3. Mandated(a)' \subseteq Mandated(a) \cup {r}
    BY <2>2 DEF Mandated, At
  <2>4. r \notin Mandated(a)' => Mandated(a)' \subseteq Mandated(a) \ {r}
    BY <2>3
  <2>5. CASE Decide(r)
    <3>1. effects' = effects
      BY <2>5 DEF Decide, world
    <3>2. CASE req[r].decision = "approved" /\ a = b
      BY <2>1, <2>2, <2>3, <2>5, <3>1, <3>2 DEF Decide, Given, TypeOK
    <3>3. CASE req[r].decision = "approved" /\ a # b
      <4>1. r \notin Mandated(a)'
        BY <2>2, <3>3 DEF Mandated, At
      <4>. QED
        BY <2>1, <2>2, <2>4, <2>5, <3>1, <3>3, <4>1 DEF Decide, Kept, TypeOK
    <3>4. CASE req[r].decision # "approved"
      <4>1. req'[r] = NULL /\ grants' = grants
        BY <2>5, <3>4 DEF Decide, TypeOK
      <4>. QED
        BY <2>4, <3>1, <4>1 DEF Kept, Mandated, At
    <3>. QED  BY <3>2, <3>3, <3>4
  <2>6. CASE Dispatch(r)
    <3>1. Mandated(a)' \subseteq Mandated(a)
      <4>1. CASE a = b
        BY <2>2, <2>3, <2>6, <4>1 DEF Mandated, Dispatch
      <4>2. CASE a # b
        BY <2>2, <2>4, <4>2 DEF Mandated, At
      <4>. QED  BY <4>1, <4>2
    <3>. QED
      BY <2>6, <3>1 DEF Dispatch, Kept, world, history
  <2>7. CASE Record(r) \/ Die(r)
    <3>1. req'[r] = NULL /\ effects' = effects /\ grants' = grants
      BY <2>7 DEF Record, Die, TypeOK, world, history
    <3>. QED
      BY <2>4, <3>1 DEF Kept, Mandated, At
  <2>8. ASSUME NEW ok \in BOOLEAN, NEW done \in BOOLEAN, RunTool(r, ok, done)
        PROVE  Kept(a) \/ Used(a)
    <3>1. req'[r].stage \in {"succeeded", "failed"}
      <4>1. [req[r] EXCEPT !.stage = Ending(ok)].stage = Ending(ok)
        BY <1>5, <2>1, OnlyItsOwn DEF Request
      <4>. QED
        BY <2>8, <4>1 DEF RunTool, Ending, TypeOK
    <3>2. Mandated(a)' \subseteq Mandated(a) \ {r}
      BY <2>4, <3>1 DEF Mandated
    <3>3. CASE a = b
      <4>1. r \in Mandated(a)
        BY <2>2, <2>8, <3>3 DEF RunTool, Mandated
      <4>2. effects'[a] \in {effects[a], effects[a] + 1} /\ grants' = grants
        BY <2>1, <2>2, <2>8, <3>3 DEF RunTool, history, TypeOK
      <4>. QED  BY <3>2, <4>1, <4>2 DEF Used
    <3>4. CASE a # b
      BY <2>1, <2>8, <3>2, <3>4 DEF RunTool, Kept, history, TypeOK
    <3>. QED  BY <3>3, <3>4
  <2>. QED
    BY <1>5, <2>5, <2>6, <2>7, <2>8
<1>. QED
  BY <1>2, <1>3, <1>4, <1>5 DEF Next, Handler

(* Nothing takes effect without a consent to use up.                       *)
LEMMA FundedStep == Guard /\ Funded /\ [Next]_vars => Funded'
<1>. SUFFICES ASSUME Guard, Funded, [Next]_vars, NEW a \in Actions
              PROVE  effects'[a] + Cardinality(Mandated(a)') <= grants'[a]
  BY DEF Funded
<1>. DEFINE old == Mandated(a)
            new == Mandated(a)'
<1>1. /\ IsFiniteSet(old) /\ Cardinality(old) \in Nat
      /\ IsFiniteSet(new) /\ Cardinality(new) \in Nat
  <2>1. old \subseteq Requests /\ new \subseteq Requests
    BY DEF Mandated
  <2>. HIDE DEF old, new
  <2>. QED
    BY <2>1, RequestsFinite, FS_Subset, FS_CardinalityType
<1>2. /\ effects[a] \in Nat /\ effects'[a] \in Nat
      /\ grants[a] \in Nat /\ grants'[a] \in Nat
      /\ effects[a] + Cardinality(old) <= grants[a]
  BY TypeStep DEF Guard, Typed, TypeOK, Funded
<1>3. ASSUME Kept(a) PROVE effects'[a] + Cardinality(new) <= grants'[a]
  <2>1. new \subseteq old /\ effects'[a] = effects[a] /\ grants'[a] = grants[a]
    BY <1>3 DEF Kept
  <2>. HIDE DEF old, new
  <2>2. Cardinality(new) <= Cardinality(old)
    BY <1>1, <2>1, FS_Subset
  <2>. QED  BY <1>1, <1>2, <2>1, <2>2
<1>4. ASSUME Given(a) PROVE effects'[a] + Cardinality(new) <= grants'[a]
  <2>1. PICK r \in Requests : new \subseteq old \cup {r}
    BY <1>4 DEF Given
  <2>2. effects'[a] = effects[a] /\ grants'[a] = grants[a] + 1
    BY <1>4 DEF Given
  <2>. HIDE DEF old, new
  <2>3. /\ IsFiniteSet(old \cup {r})
        /\ Cardinality(old \cup {r}) <= Cardinality(old) + 1
        /\ Cardinality(old \cup {r}) \in Nat
    <3>1. /\ IsFiniteSet(old \cup {r})
          /\ Cardinality(old \cup {r}) =
               IF r \in old THEN Cardinality(old) ELSE Cardinality(old) + 1
      BY <1>1, FS_AddElement
    <3>. QED  BY <1>1, <3>1
  <2>4. Cardinality(new) <= Cardinality(old \cup {r})
    BY <2>1, <2>3, FS_Subset
  <2>. QED  BY <1>1, <1>2, <2>2, <2>3, <2>4
<1>5. ASSUME Used(a) PROVE effects'[a] + Cardinality(new) <= grants'[a]
  <2>1. PICK r \in old : new \subseteq old \ {r}
    BY <1>5 DEF Used
  <2>2. /\ effects'[a] \in {effects[a], effects[a] + 1}
        /\ grants'[a] = grants[a]
    BY <1>5 DEF Used
  <2>. HIDE DEF old, new
  <2>3. /\ IsFiniteSet(old \ {r})
        /\ Cardinality(old \ {r}) = Cardinality(old) - 1
    BY <1>1, <2>1, FS_RemoveElement
  <2>4. Cardinality(new) <= Cardinality(old \ {r})
    BY <2>1, <2>3, FS_Subset
  <2>. QED  BY <1>1, <1>2, <2>2, <2>3, <2>4
<1>. QED
  BY <1>3, <1>4, <1>5, ConsentMoves

(* However decisions overlap, an action takes effect at most as often as   *)
(* the user has had an approval of it committed.                           *)
THEOREM ConsentComesFirst == Spec => []EffectsHaveConsent
<1>1. Init => Funded
  <2>. SUFFICES ASSUME Init, NEW a \in Actions
                PROVE  effects[a] + Cardinality(Mandated(a)) <= grants[a]
    BY DEF Funded
  <2>1. Mandated(a) = {}
    BY DEF Init, Mandated, At
  <2>. QED
    BY <2>1, FS_EmptySet DEF Init
<1>2. Guard /\ Funded => EffectsHaveConsent
  <2>. SUFFICES ASSUME Guard, Funded, NEW a \in Actions
                PROVE  effects[a] <= grants[a]
    BY DEF EffectsHaveConsent
  <2>1. Cardinality(Mandated(a)) \in Nat
    BY RequestsFinite, FS_Subset, FS_CardinalityType DEF Mandated
  <2>. QED
    BY <2>1 DEF Guard, Typed, TypeOK, Funded
<1>. QED
  BY <1>1, <1>2, GuardInvariant, FundedStep, PTL DEF Spec

-----------------------------------------------------------------------------
(* Staleness.  As long as an approval is pending nobody has got past       *)
(* reading it; one that has lapsed is pending or expired, and every        *)
(* request that has it read will mark it expired.                          *)
PendingIsUnrun ==
  \A a \in Visible : row[a].status = "pending" =>
    /\ effects[a] = 0
    /\ \A r \in Requests : At(r, a) => req[r].stage = "deciding"

Lapsed(a) ==
  /\ a \in Visible
  /\ row[a].status \in {"pending", "expired"} /\ row[a].expires <= now
  /\ effects[a] = 0
  /\ \A r \in Requests :
       At(r, a) => req[r].stage = "deciding" /\ req[r].decision = "expired"

(* A step that leaves the row, the effects and the requests of an approval *)
(* alone, but perhaps not its trail or its run.                            *)
Unmoved(a) ==
  /\ row[a] # NULL /\ row'[a] # NULL
  /\ row'[a].status = row[a].status /\ row'[a].expires = row[a].expires
  /\ a \notin draft'
  /\ row'[a].run => row[a].run /\ trail'[a] = trail[a]
  /\ effects'[a] = effects[a] /\ now' >= now
  /\ \A r \in Requests : At(r, a) \/ At(r, a)' => req'[r] = req[r]

(* What requests and the rest of the system do around a visible approval.  *)
LEMMA VisibleMoves ==
  ASSUME Guard, [Next]_vars, NEW a \in Visible
  PROVE  \/ Unmoved(a)
         \/ \E r \in Requests, verb \in Verbs : Read(r, a, verb)
         \/ \E r \in Requests : At(r, a) /\ Handler(r)
<1>. USE DEF Guard, Typed
<1>1. /\ a \in Actions /\ row[a] # NULL /\ row[a] \in Approval
      /\ a \notin unused /\ a \notin draft /\ now \in Nat
  BY DEF Visible, TypeOK, Tables
<1>2. CASE UNCHANGED vars
  BY <1>1, <1>2 DEF Unmoved, vars, table, world, history
<1>3. ASSUME NEW b \in Actions, Propose(b) PROVE Unmoved(a)
  BY <1>1, <1>3 DEF Unmoved, Propose, TypeOK, world, At
<1>4. ASSUME NEW proposed \in SUBSET draft,
             CommitTurn(proposed) \/ LoseTurn(proposed)
      PROVE  Unmoved(a)
  BY <1>1, <1>4 DEF Unmoved, CommitTurn, LoseTurn, TypeOK, world, At
<1>5. ASSUME NEW b \in Actions, Withdraw(b) PROVE Unmoved(a)
  BY <1>1, <1>5 DEF Unmoved, Withdraw, table, world, At
<1>6. CASE Tick
  BY <1>1, <1>6 DEF Unmoved, Tick, table, world, At
<1>7. ASSUME NEW b \in Actions, CleanUpRun(b) PROVE Unmoved(a)
  <2>1. CASE a # b
    BY <1>1, <1>7, <2>1 DEF Unmoved, CleanUpRun, TypeOK, At
  <2>2. CASE a = b
    <3>1. row'[a] = [row[a] EXCEPT !.run = FALSE]
      BY <1>1, <1>7, <2>2 DEF CleanUpRun, TypeOK
    <3>2. /\ row'[a] # NULL /\ row'[a].status = row[a].status
          /\ row'[a].expires = row[a].expires /\ ~row'[a].run
      BY <1>1, <3>1, NullAssumption DEF Approval
    <3>. QED
      BY <1>1, <1>7, <3>2 DEF Unmoved, CleanUpRun, At
  <2>. QED  BY <2>1, <2>2
<1>8. ASSUME NEW r \in Requests, NEW b \in Actions, NEW verb \in Verbs,
             Read(r, b, verb), a # b
      PROVE  Unmoved(a)
  <2>1. \A q \in Requests : At(q, a) \/ At(q, a)' => req'[q] = req[q]
    BY <1>8 DEF Read, At, TypeOK
  <2>. QED
    BY <1>1, <1>8, <2>1 DEF Unmoved, Read, table, world
<1>9. ASSUME NEW r \in Requests, ~At(r, a),
             \/ Decide(r) \/ Dispatch(r) \/ Record(r) \/ Die(r)
             \/ \E ok, done \in BOOLEAN : RunTool(r, ok, done)
      PROVE  Unmoved(a)
  <2>1. PICK b : b = req[r].action
    OBVIOUS
  <2>2. /\ a # b
        /\ \A q \in Requests \ {r} : req'[q] = req[q]
        /\ req'[r] = NULL \/ req'[r].action = b
    BY <1>9, <2>1, OnlyItsOwn
  <2>3. \A q \in Requests : At(q, a) \/ At(q, a)' => req'[q] = req[q]
    BY <1>9, <2>2 DEF At
  <2>4. /\ row'[a] = row[a] /\ effects'[a] = effects[a]
        /\ trail'[a] = trail[a] /\ draft' = draft
    BY <1>1, <1>9, <2>1, <2>2 DEF Decide, Dispatch, Record, Die, RunTool,
       TypeOK, table, world
  <2>5. now' = now
    BY <1>9 DEF Decide, Dispatch, Record, Die, RunTool
  <2>. QED
    BY <1>1, <2>3, <2>4, <2>5 DEF Unmoved
<1>. QED
  BY <1>2, <1>3, <1>4, <1>5, <1>6, <1>7, <1>8, <1>9 DEF Next, Turn, Handler

(* Reading a pending approval leaves it as it is, with one more request    *)
(* that has it read.                                                       *)
LEMMA ReadEffect ==
  ASSUME Guard, NEW a \in Visible, NEW r \in Requests, NEW verb \in Verbs,
         Read(r, a, verb)
  PROVE  /\ a \in Visible' /\ row' = row /\ effects' = effects /\ now' = now
         /\ row[a].status = "pending"
         /\ req'[r].stage = "deciding"
         /\ row[a].expires <= now => req'[r].decision = "expired"
         /\ \A q \in Requests \ {r} : req'[q] = req[q]
BY DEF Guard, Typed, TypeOK, Read, Decidable, Verdict, Visible, table, world

(* A request that has not got past reading its approval commits a decision *)
(* or dies.                                                                *)
LEMMA DecidingMoves ==
  ASSUME Guard, NEW a \in Visible, NEW r \in Requests, Handler(r), At(r, a),
         req[r].stage = "deciding"
  PROVE  /\ a \in Visible' /\ now' = now /\ effects' = effects
         /\ row'[a].expires = row[a].expires
         /\ \/ row'[a].status = row[a].status
            \/ row'[a].status = req[r].decision
         /\ req[r].decision # "pending"
         /\ row'[a].status = "pending" => row[a].status = "pending"
         /\ req[r].decision = "expired" => ~At(r, a)'
         /\ row'[a].status # req[r].decision => ~At(r, a)'
         /\ \A q \in Requests \ {r} : req'[q] = req[q]
<1>. USE DEF Guard, Typed
<1>1. Decide(r) \/ Die(r)
  BY DEF Handler, Read, Dispatch, RunTool, Record, At, Outcomes
<1>2. /\ a = req[r].action /\ req[r] \in Request /\ a \in Actions
      /\ row[a] \in Approval
      /\ a \in Visible'
      /\ \A q \in Requests \ {r} : req'[q] = req[q]
  BY <1>1, OnlyItsOwn DEF At
<1>3. req[r].decision \in Statuses \ {"pending"}
  BY <1>2 DEF Request
<1>4. CASE Die(r)
  <2>1. req'[r] = NULL /\ row' = row
    BY <1>4 DEF Die, TypeOK, table
  <2>. QED
    BY <1>2, <1>3, <1>4, <2>1 DEF Die, At, world
<1>5. CASE Decide(r)
  <2>1. row'[a] = [row[a] EXCEPT !.status = req[r].decision]
    BY <1>2, <1>5 DEF Decide, TypeOK
  <2>2. /\ row'[a].status = req[r].decision
        /\ row'[a].expires = row[a].expires
    BY <1>2, <2>1 DEF Approval
  <2>3. req[r].decision # "approved" => req'[r] = NULL
    BY <1>5 DEF Decide, TypeOK
  <2>. QED
    BY <1>2, <1>3, <1>5, <2>2, <2>3 DEF Decide, At, world
<1>. QED
  BY <1>1, <1>4, <1>5

(* A pending approval has not been run, and nobody has got past reading it.*)
LEMMA PendingStep == Guard /\ PendingIsUnrun /\ [Next]_vars => PendingIsUnrun'
<1>. SUFFICES ASSUME Guard, PendingIsUnrun, [Next]_vars,
                     NEW a \in Visible', row'[a].status = "pending"
              PROVE  /\ effects'[a] = 0
                     /\ \A r \in Requests :
                          At(r, a)' => req'[r].stage = "deciding"
  BY DEF PendingIsUnrun
<1>. USE DEF Guard
<1>1. CASE a \notin Visible
  <2>1. Guarded(a)' /\ Guarded(a) /\ a \in Actions
    BY <1>1, GuardStep DEF Visible
  <2>2. Fresh(a) /\ a \notin contested
    BY <1>1, <2>1 DEF Guarded, Fresh
  <2>3. a \notin contested'
    BY <1>1, <2>2 DEF Next, vars, history, Turn, Propose, CommitTurn, LoseTurn,
       Handler, Read, Decidable, Decide, Dispatch, RunTool, Record, Die,
       Withdraw, CleanUpRun, Tick
  <2>. QED
    BY <2>1, <2>3 DEF Guarded, Settled
<1>2. CASE a \in Visible
  <2>1. CASE Unmoved(a)
    BY <1>2, <2>1 DEF Unmoved, PendingIsUnrun, At
  <2>2. ASSUME NEW r \in Requests, NEW verb \in Verbs, Read(r, a, verb)
        PROVE  /\ effects'[a] = 0
               /\ \A q \in Requests :
                    At(q, a)' => req'[q].stage = "deciding"
    BY <1>2, <2>2, ReadEffect DEF PendingIsUnrun, At
  <2>3. ASSUME NEW r \in Requests, Handler(r), At(r, a)
        PROVE  /\ effects'[a] = 0
               /\ \A q \in Requests :
                    At(q, a)' => req'[q].stage = "deciding"
    <3>1. req[r].stage = "deciding" => row[a].status = "pending"
      BY <1>2, <2>3, DecidingMoves
    <3>2. row[a].status = "pending"
      <4>1. CASE req[r].stage = "deciding"
        BY <3>1, <4>1
      <4>2. CASE req[r].stage # "deciding"
        <5>1. row' = row
          BY <2>3, <4>2 DEF Handler, Read, Decide, Dispatch, RunTool, Record,
             Die, table, At
        <5>. QED  BY <5>1
      <4>. QED  BY <4>1, <4>2
    <3>3. req[r].stage = "deciding" /\ effects[a] = 0
      BY <1>2, <2>3, <3>2 DEF PendingIsUnrun
    <3>. QED
      BY <1>2, <2>3, <3>2, <3>3, DecidingMoves DEF PendingIsUnrun, At
  <2>. QED
    BY <1>2, <2>1, <2>2, <2>3, VisibleMoves
<1>. QED
  BY <1>1, <1>2

(* What has lapsed stays so: at most it is marked expired.                 *)
LEMMA LapsedStep ==
  ASSUME NEW a \in Actions, Guard, Lapsed(a), [Next]_vars
  PROVE  Lapsed(a)'
<1>1. a \in Visible /\ row[a] \in Approval /\ now \in Nat /\ now' \in Nat
  BY TypeStep DEF Lapsed, Guard, Typed, TypeOK, Visible
<1>2. CASE Unmoved(a)
  BY <1>1, <1>2 DEF Unmoved, Lapsed, At, Visible, Approval
<1>3. ASSUME NEW r \in Requests, NEW verb \in Verbs, Read(r, a, verb)
      PROVE  Lapsed(a)'
  BY <1>1, <1>3, ReadEffect DEF Lapsed, At
<1>4. ASSUME NEW r \in Requests, Handler(r), At(r, a) PROVE Lapsed(a)'
  <2>1. req[r].stage = "deciding" /\ req[r].decision = "expired"
    BY <1>4 DEF Lapsed
  <2>. QED
    BY <1>1, <1>4, <2>1, DecidingMoves DEF Lapsed, At
<1>. QED
  BY <1>1, <1>2, <1>3, <1>4, VisibleMoves

(* A pending approval past its deadline that no request has read by then   *)
(* never takes effect afterwards.                                          *)
THEOREM StaleStaysUnrun == Spec => StalePreviewsNeverRun
<1>. SUFFICES ASSUME NEW a \in Actions
              PROVE  Spec => [](Stale(a) => [](effects[a] = 0))
  BY DEF StalePreviewsNeverRun
<1>1. Init => PendingIsUnrun
  BY DEF Init, PendingIsUnrun, Visible
<1>2. Guard /\ PendingIsUnrun /\ Stale(a) => Lapsed(a)
  BY DEF Stale, Lapsed, PendingIsUnrun
<1>3. Guard /\ Lapsed(a) /\ [Next]_vars => Lapsed(a)'
  BY LapsedStep
<1>4. Lapsed(a) => effects[a] = 0
  BY DEF Lapsed
<1>. QED
  BY <1>1, <1>2, <1>3, <1>4, PendingStep, GuardInvariant, PTL DEF Spec

-----------------------------------------------------------------------------
(* The audit.  An approval is open to it while others see its row, its run *)
(* is there and no request of it has died.                                 *)
Open(a) == a \in Visible \ cut /\ row[a].run

(* A step leaves the account of an open approval alone or adds a recorder, *)
(* executes it and makes its request a recorder, or enters the outcome of  *)
(* one recorder on the trail.                                              *)
StillOwed(a) ==
  /\ effects'[a] = effects[a] /\ Executions(a)' = Executions(a)
  /\ Recorders(a) \subseteq Recorders(a)'

Executed(a) ==
  /\ effects'[a] \in {effects[a], effects[a] + 1} /\ Executions(a)' = Executions(a)
  /\ \E r \in Requests \ Recorders(a) : Recorders(a) \cup {r} \subseteq Recorders(a)'

Entered(a) ==
  /\ effects'[a] = effects[a] /\ Executions(a)' = Executions(a) + 1
  /\ \E r \in Recorders(a) : Recorders(a) \ {r} \subseteq Recorders(a)'

(* These are all the steps there are.                                      *)
LEMMA AuditMoves ==
  ASSUME Guard, [Next]_vars, NEW a \in Actions, Open(a)'
  PROVE  \/ effects'[a] = 0
         \/ Open(a) /\ (StillOwed(a) \/ Executed(a) \/ Entered(a))
<1>. USE DEF Guard, Typed
<1>0. a \notin Visible => effects[a] = 0
  BY DEF Guarded, Fresh
<1>1. CASE UNCHANGED vars
  BY <1>1 DEF vars, table, world, history, Open, Visible, StillOwed, Executions,
              Recorders, At
<1>2. CASE Turn
  <2>1. UNCHANGED <<req, world, history>>
    BY <1>2 DEF Turn, Propose, CommitTurn, LoseTurn
  <2>2. CASE a \notin Visible
    BY <1>0, <2>1, <2>2 DEF world
  <2>3. CASE a \in Visible
    <3>1. row'[a] = row[a]
      <4>1. ASSUME NEW b \in Actions, Propose(b) PROVE row'[a] = row[a]
        BY <2>3, <4>1 DEF Propose, TypeOK, Tables, Visible
      <4>2. ASSUME NEW proposed \in SUBSET draft, CommitTurn(proposed) \/ LoseTurn(proposed)
            PROVE  row'[a] = row[a]
        BY <2>3, <4>2 DEF CommitTurn, LoseTurn, Visible
      <4>. QED
        BY <1>2, <4>1, <4>2 DEF Turn
    <3>2. Open(a)
      BY <2>1, <2>3, <3>1 DEF Open, history
    <3>3. StillOwed(a)
      BY <2>1 DEF StillOwed, Executions, Recorders, At, world
    <3>. QED
      BY <3>2, <3>3
  <2>. QED
    BY <2>2, <2>3
<1>3. ASSUME NEW r \in Requests, NEW b \in Actions, NEW verb \in Verbs, Read(r, b, verb)
      PROVE  Open(a) /\ StillOwed(a)
  <2>1. /\ UNCHANGED <<table, world, cut>> /\ req[r] = NULL
        /\ \A q \in Requests \ {r} : req'[q] = req[q]
    BY <1>3 DEF Read, TypeOK
  <2>2. Open(a)
    BY <2>1 DEF Open, Visible, table
  <2>3. Recorders(a) \subseteq Recorders(a)'
    BY <2>1 DEF Recorders, At
  <2>. QED
    BY <2>1, <2>2, <2>3 DEF StillOwed, Executions, world
<1>4. ASSUME NEW r \in Requests, Decide(r) \/ Dispatch(r) \/ Die(r)
      PROVE  Open(a) /\ StillOwed(a)
  <2>1. PICK b : b = req[r].action
    OBVIOUS
  <2>2. /\ At(r, b) /\ b \in Actions /\ b \in Visible /\ row[b] \in Approval
        /\ \A q \in Requests \ {r} : req'[q] = req[q]
    BY <1>4, <2>1, OnlyItsOwn
  <2>3. Open(a)
    <3>1. CASE Decide(r)
      <4>1. row' = [row EXCEPT ![b].status = req[r].decision] /\ draft' = draft /\ cut' = cut
        BY <2>1, <3>1 DEF Decide
      <4>2. CASE a = b
        <5>1. row'[a].run = row[a].run
          BY <2>2, <4>1, <4>2 DEF TypeOK, Approval
        <5>. QED
          BY <2>2, <4>1, <4>2, <5>1 DEF Open, Visible
      <4>3. CASE a # b
        BY <4>1, <4>3 DEF Open, Visible, TypeOK
      <4>. QED
        BY <4>2, <4>3
    <3>2. CASE Dispatch(r) \/ Die(r)
      BY <3>2 DEF Dispatch, Die, Open, Visible, table, history
    <3>. QED
      BY <1>4, <3>1, <3>2
  <2>4. Recorders(a) \subseteq Recorders(a)'
    <3>1. CASE Decide(r) \/ Dispatch(r)
      <4>1. r \notin Recorders(a)
        BY <3>1 DEF Decide, Dispatch, Recorders
      <4>. QED
        BY <2>2, <4>1 DEF Recorders, At
    <3>2. CASE Die(r)
      <4>1. r \notin Recorders(a)
        BY <2>1, <2>3, <3>2 DEF Die, Recorders, Open, At
      <4>. QED
        BY <2>2, <4>1 DEF Recorders, At
    <3>. QED
      BY <1>4, <3>1, <3>2
  <2>5. UNCHANGED world
    BY <1>4 DEF Decide, Dispatch, Die
  <2>. QED
    BY <2>3, <2>4, <2>5 DEF StillOwed, Executions, world
<1>5. ASSUME NEW r \in Requests, NEW ok \in BOOLEAN, NEW done \in BOOLEAN,
             RunTool(r, ok, done)
      PROVE  Open(a) /\ (StillOwed(a) \/ Executed(a))
  <2>1. PICK b : b = req[r].action
    OBVIOUS
  <2>2. /\ At(r, b) /\ b \in Actions /\ req[r] \in Request
        /\ \A q \in Requests \ {r} : req'[q] = req[q]
    BY <1>5, <2>1, OnlyItsOwn
  <2>3. Open(a) /\ Executions(a)' = Executions(a)
    BY <1>5 DEF RunTool, Open, Visible, table, history, Executions
  <2>4. req'[r] = [req[r] EXCEPT !.stage = Ending(ok)] /\ req[r].stage = "running"
    BY <1>5 DEF RunTool, TypeOK
  <2>5. req'[r].stage \in {"succeeded", "failed"} /\ req'[r].action = b /\ req'[r] # NULL
    BY <2>1, <2>2, <2>4, NullAssumption DEF Request, Ending, Stages, Outcomes
  <2>6. r \notin Recorders(a)
    BY <2>4 DEF Recorders
  <2>7. Recorders(a) \subseteq Recorders(a)'
    BY <2>2, <2>6 DEF Recorders, At
  <2>8. CASE a = b
    <3>1. r \in Recorders(a)'
      BY <2>5, <2>8 DEF Recorders, At
    <3>2. effects'[a] \in {effects[a], effects[a] + 1}
      BY <1>5, <2>1, <2>2, <2>8 DEF RunTool, TypeOK
    <3>. QED
      BY <2>3, <2>6, <2>7, <3>1, <3>2 DEF Executed
  <2>9. CASE a # b
    <3>1. effects'[a] = effects[a]
      BY <1>5, <2>1, <2>9 DEF RunTool, TypeOK
    <3>. QED
      BY <2>3, <2>7, <3>1 DEF StillOwed
  <2>. QED
    BY <2>8, <2>9
<1>6. ASSUME NEW r \in Requests, Record(r)
      PROVE  Open(a) /\ (StillOwed(a) \/ Entered(a))
  <2>1. PICK b : b = req[r].action
    OBVIOUS
  <2>2. /\ At(r, b) /\ b \in Actions
        /\ \A q \in Requests \ {r} : req'[q] = req[q]
    BY <1>6, <2>1, OnlyItsOwn
  <2>3. Open(a) /\ effects' = effects
    BY <1>6 DEF Record, Open, Visible, table, history
  <2>4. CASE a # b
    <3>1. trail'[a] = trail[a]
      BY <1>6, <2>1, <2>4 DEF Record, TypeOK
    <3>2. r \notin Recorders(a)
      BY <2>2, <2>4 DEF Recorders, At
    <3>3. Recorders(a) \subseteq Recorders(a)'
      BY <2>2, <3>2 DEF Recorders, At
    <3>. QED
      BY <2>3, <3>1, <3>3 DEF StillOwed, Executions
  <2>5. CASE a = b
    <3>. DEFINE stage == req[r].stage
    <3>1. /\ row[a].run /\ stage \in Outcomes
          /\ trail' = [trail EXCEPT ![a][stage] = @ + 1]
      BY <1>6, <2>1, <2>3, <2>5 DEF Record, Recorded, Open
    <3>2. trail[a] \in [Outcomes -> Nat] /\ trail \in [Actions -> [Outcomes -> Nat]]
      BY DEF TypeOK
    <3>3. /\ trail'[a][stage] = trail[a][stage] + 1
          /\ \A o \in Outcomes \ {stage} : trail'[a][o] = trail[a][o]
      BY <3>1, <3>2
    <3>4. \A o \in Outcomes : trail[a][o] \in Nat
      BY <3>2
    <3>5. CASE stage = "not_executed"
      <4>1. r \notin Recorders(a)
        BY <3>5 DEF Recorders
      <4>2. Recorders(a) \subseteq Recorders(a)'
        BY <2>2, <4>1 DEF Recorders, At
      <4>3. Executions(a)' = Executions(a)
        BY <3>3, <3>5 DEF Executions, Outcomes
      <4>. QED
        BY <2>3, <4>2, <4>3 DEF StillOwed
    <3>6. CASE stage \in {"succeeded", "failed"}
      <4>1. r \in Recorders(a)
        BY <2>2, <2>5, <3>6 DEF Recorders
      <4>2. Recorders(a) \ {r} \subseteq Recorders(a)'
        BY <2>2 DEF Recorders, At
      <4>3. Executions(a)' = Executions(a) + 1
        <5>1. CASE stage = "succeeded"
          BY <3>3, <3>4, <5>1 DEF Executions, Outcomes
        <5>2. CASE stage = "failed"
          BY <3>3, <3>4, <5>2 DEF Executions, Outcomes
        <5>. QED
          BY <3>6, <5>1, <5>2
      <4>. QED
        BY <2>3, <4>1, <4>2, <4>3 DEF Entered
    <3>. QED
      BY <3>1, <3>5, <3>6 DEF Outcomes
  <2>. QED
    BY <2>4, <2>5
<1>7. ASSUME NEW b \in Actions, Withdraw(b) PROVE Open(a) /\ StillOwed(a)
  BY <1>7 DEF Withdraw, Open, Visible, StillOwed, Executions, Recorders, At,
              table, world, history
<1>8. ASSUME NEW b \in Actions, CleanUpRun(b) PROVE Open(a) /\ StillOwed(a)
  <2>1. a # b
    <3>1. row'[b].run = FALSE
      BY <1>8 DEF CleanUpRun, TypeOK, Visible, Approval
    <3>. QED
      BY <3>1 DEF Open
  <2>2. row'[a] = row[a] /\ trail'[a] = trail[a] /\ UNCHANGED <<draft, req, effects, cut>>
    BY <1>8, <2>1 DEF CleanUpRun, TypeOK, history
  <2>. QED
    BY <2>2 DEF Open, Visible, StillOwed, Executions, Recorders, At
<1>9. CASE Tick
  BY <1>9 DEF Tick, Open, Visible, StillOwed, Executions, Recorders, At,
              table, world, history
<1>. QED
  BY <1>1, <1>2, <1>3, <1>4, <1>5, <1>6, <1>7, <1>8, <1>9 DEF Next, Handler

LEMMA AuditStep == Guard /\ EffectsAreAudited /\ [Next]_vars => EffectsAreAudited'
<1>. SUFFICES ASSUME Guard, EffectsAreAudited, [Next]_vars, NEW a \in Actions, Open(a)'
              PROVE  effects'[a] <= Executions(a)' + Cardinality(Recorders(a)')
  BY DEF EffectsAreAudited, Open, Visible
<1>. DEFINE old == Recorders(a)
            new == Recorders(a)'
            had == Executions(a)
            has == Executions(a)'
<1>1. /\ IsFiniteSet(old) /\ Cardinality(old) \in Nat
      /\ IsFiniteSet(new) /\ Cardinality(new) \in Nat
  <2>1. old \subseteq Requests /\ new \subseteq Requests
    BY DEF Recorders
  <2>. HIDE DEF old, new
  <2>. QED
    BY <2>1, RequestsFinite, FS_Subset, FS_CardinalityType
<1>2. effects[a] \in Nat /\ effects'[a] \in Nat /\ had \in Nat /\ has \in Nat
  <2>1. TypeOK /\ TypeOK'
    BY TypeStep DEF Guard, Typed
  <2>2. /\ effects[a] \in Nat /\ trail[a] \in [Outcomes -> Nat]
        /\ effects'[a] \in Nat /\ trail'[a] \in [Outcomes -> Nat]
    BY <2>1 DEF TypeOK
  <2>. QED
    BY <2>2 DEF Executions, Outcomes
<1>3. Open(a) => effects[a] <= had + Cardinality(old)
  BY DEF EffectsAreAudited, Open, Visible
<1>4. ASSUME effects'[a] = 0 PROVE effects'[a] <= has + Cardinality(new)
  <2>. HIDE DEF old, new, had, has
  <2>. QED
    BY <1>1, <1>2, <1>4
<1>5. ASSUME Open(a), StillOwed(a) PROVE effects'[a] <= has + Cardinality(new)
  <2>1. old \subseteq new /\ effects'[a] = effects[a] /\ has = had
    BY <1>5 DEF StillOwed
  <2>. HIDE DEF old, new, had, has
  <2>2. Cardinality(old) <= Cardinality(new)
    BY <1>1, <2>1, FS_Subset
  <2>. QED
    BY <1>1, <1>2, <1>3, <1>5, <2>1, <2>2
<1>6. ASSUME Open(a), Executed(a) PROVE effects'[a] <= has + Cardinality(new)
  <2>1. PICK r \in Requests \ old : old \cup {r} \subseteq new
    BY <1>6 DEF Executed
  <2>2. effects'[a] \in {effects[a], effects[a] + 1} /\ has = had
    BY <1>6 DEF Executed
  <2>. HIDE DEF old, new, had, has
  <2>3. Cardinality(old \cup {r}) = Cardinality(old) + 1
    BY <1>1, <2>1, FS_AddElement
  <2>4. Cardinality(old \cup {r}) <= Cardinality(new)
    BY <1>1, <2>1, FS_Subset
  <2>. QED
    BY <1>1, <1>2, <1>3, <1>6, <2>2, <2>3, <2>4
<1>7. ASSUME Open(a), Entered(a) PROVE effects'[a] <= has + Cardinality(new)
  <2>1. PICK r \in old : old \ {r} \subseteq new
    BY <1>7 DEF Entered
  <2>2. effects'[a] = effects[a] /\ has = had + 1
    BY <1>7 DEF Entered
  <2>. HIDE DEF old, new, had, has
  <2>3. Cardinality(old \ {r}) = Cardinality(old) - 1
    BY <1>1, <2>1, FS_RemoveElement
  <2>4. Cardinality(old \ {r}) <= Cardinality(new)
    BY <1>1, <2>1, FS_Subset
  <2>. QED
    BY <1>1, <1>2, <1>3, <1>7, <2>2, <2>3, <2>4
<1>. QED
  BY <1>4, <1>5, <1>6, <1>7, AuditMoves

(* What took effect is on the trail or about to be recorded, whatever      *)
(* requests overlap, fail or time out (action_dispatch_service and         *)
(* tool_executor's audit rows).                                            *)
THEOREM AuditIsComplete == Spec => []EffectsAreAudited
<1>1. Init => EffectsAreAudited
  BY DEF Init, EffectsAreAudited, Visible
<1>2. EffectsAreAudited /\ Guard /\ [Next]_vars => EffectsAreAudited'
  BY AuditStep
<1>. QED
  BY <1>1, <1>2, GuardInvariant, PTL DEF Spec
=============================================================================
