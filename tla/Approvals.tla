------------------------------ MODULE Approvals ------------------------------
(***************************************************************************)
(* The human in the loop of GUMMY OS: a turn's tool gate proposes an       *)
(* action as a pending approval, the user approves or rejects it in a      *)
(* request of its own, and an approved action is run and written to the    *)
(* audit trail by the request that approved it.                            *)
(*                                                                         *)
(* A request reads the approval, then commits its decision, then re-reads  *)
(* the row and dispatches: other requests move between any two of these    *)
(* steps.  The decision is an UPDATE of the row by its id, whatever the    *)
(* row has become since it was read.                                       *)
(*                                                                         *)
(* Operators whose name has an underscore are faulty variants of the       *)
(* definition they precede; no specification uses them.                    *)
(***************************************************************************)
EXTENDS Integers, FiniteSets

CONSTANTS
  Actions,     \* the ids an approval can have; an id is never used twice
  Requests,    \* the concurrent approve and reject requests of the user
  TTL,         \* ACTION_APPROVAL_TTL_SECONDS, in clock units
  MaxTime,     \* bound: the last instant of the clock
  MaxKills,    \* bound: how many requests die half way
  NULL

Statuses == {"pending", "approved", "rejected", "expired"}
Verbs == {"approved", "rejected"}
Outcomes == {"succeeded", "failed", "not_executed"}

(* A row of action_approvals (run: the producing run is still there), and  *)
(* a request at work on one: it has a decision to commit, has committed an *)
(* approval, is running the tool, or has an outcome to record.             *)
Approval == [ status : Statuses, expires : Nat, run : BOOLEAN ]
Stages == {"deciding", "decided", "running"} \cup Outcomes
Request ==
  [ action : Actions, stage : Stages, decision : Statuses \ {"pending"} ]

ASSUME RequestsFinite == IsFiniteSet(Requests)
ASSUME TTLAssumption == TTL \in Nat
ASSUME BoundsAssumption == MaxTime \in Nat /\ MaxKills \in Nat
ASSUME NullAssumption == NULL \notin Approval /\ NULL \notin Request

VARIABLES
  unused,     \* ids no row has had yet
  row,        \* the action_approvals table, NULL for an id without a row
  draft,      \* rows inserted by a turn that has not committed
  req,        \* per request: the approval it is at work on, or NULL
  withdrawn,  \* actions whose tool has left the catalog
  effects,    \* per action: how often its tool took effect in the world
  trail,      \* tool_invocations rows of the dispatches, per action and outcome
  grants,     \* history: per action, the approvals the user has had committed
  contested,  \* history: actions read by a request while another had them read
  cut,        \* history: actions whose request died after its commit
  now, kills

table == <<unused, row, draft>>
world == <<effects, trail>>
history == <<grants, contested, cut>>
vars == <<table, req, withdrawn, world, history, now, kills>>

Visible == {a \in Actions : row[a] # NULL /\ a \notin draft}
At(r, a) == req[r] # NULL /\ req[r].action = a
Deciding(r, a) == At(r, a) /\ req[r].stage = "deciding"

-----------------------------------------------------------------------------
Init ==
  /\ unused = Actions
  /\ row = [a \in Actions |-> NULL]
  /\ draft = {}
  /\ req = [r \in Requests |-> NULL]
  /\ withdrawn = {}
  /\ effects = [a \in Actions |-> 0]
  /\ trail = [a \in Actions |-> [o \in Outcomes |-> 0]]
  /\ grants = [a \in Actions |-> 0]
  /\ contested = {} /\ cut = {}
  /\ now = 0 /\ kills = 0

-----------------------------------------------------------------------------
(* The gate answers "prompt": the turn inserts a pending approval, which   *)
(* nobody else sees before the turn commits, and which goes with it when   *)
(* it does not.                                                            *)

Deadline(at) == at + TTL

Propose(a) ==
  /\ a \in unused
  /\ unused' = unused \ {a}
  /\ row' = [row EXCEPT ![a] =
       [status |-> "pending", expires |-> Deadline(now), run |-> TRUE]]
  /\ draft' = draft \cup {a}
  /\ UNCHANGED <<req, withdrawn, world, history, now, kills>>

CommitTurn(proposed) ==
  /\ draft' = draft \ proposed
  /\ UNCHANGED <<unused, row, req, withdrawn, world, history, now, kills>>

LoseTurn(proposed) ==
  /\ draft' = draft \ proposed
  /\ row' = [a \in Actions |-> IF a \in proposed THEN NULL ELSE row[a]]
  /\ UNCHANGED <<unused, req, withdrawn, world, history, now, kills>>

-----------------------------------------------------------------------------
(* Deciding.  Only a pending approval is decided; one past its deadline is *)
(* marked expired instead.                                                 *)

Decidable_AnyStatus(a) == a \in Visible

Decidable(a) == a \in Visible /\ row[a].status = "pending"

Verdict_NoDeadline(a, verb) == verb

Verdict(a, verb) == IF row[a].expires <= now THEN "expired" ELSE verb

Read(r, a, verb) ==
  /\ req[r] = NULL
  /\ Decidable(a)
  /\ req' = [req EXCEPT ![r] =
       [action |-> a, stage |-> "deciding", decision |-> Verdict(a, verb)]]
  /\ contested' = IF \E q \in Requests : Deciding(q, a)
                    THEN contested \cup {a} ELSE contested
  /\ UNCHANGED <<table, withdrawn, world, grants, cut, now, kills>>

Decide(r) ==
  /\ req[r] # NULL /\ req[r].stage = "deciding"
  /\ LET a == req[r].action
         approves == req[r].decision = "approved"
     IN  /\ row' = [row EXCEPT ![a].status = req[r].decision]
         /\ grants' = IF approves THEN [grants EXCEPT ![a] = @ + 1] ELSE grants
         /\ req' = [req EXCEPT ![r] =
              IF approves THEN [@ EXCEPT !.stage = "decided"] ELSE NULL]
  /\ UNCHANGED <<unused, draft, withdrawn, world, contested, cut, now, kills>>

-----------------------------------------------------------------------------
(* Dispatching, by the request that approved: from the row as it is now.   *)

AfterDispatch_SilentRefusal(r) ==
  LET a == req[r].action
  IN  IF row[a].status # "approved" \/ ~row[a].run \/ a \in withdrawn
      THEN NULL
      ELSE [req[r] EXCEPT !.stage = "running"]

AfterDispatch(r) ==
  LET a == req[r].action
  IN  IF row[a].status # "approved" \/ ~row[a].run
      THEN NULL
      ELSE [req[r] EXCEPT !.stage = IF a \in withdrawn
                                      THEN "not_executed" ELSE "running"]

Dispatch(r) ==
  /\ req[r] # NULL /\ req[r].stage = "decided"
  /\ req' = [req EXCEPT ![r] = AfterDispatch(r)]
  /\ UNCHANGED <<table, withdrawn, world, history, now, kills>>

(* The tool succeeds, or it fails or times out, with its effect done or    *)
(* not: every ending is an outcome to record.                              *)
Ending_RetriesFailure(ok) == IF ok THEN "succeeded" ELSE "running"

Ending(ok) == IF ok THEN "succeeded" ELSE "failed"

RunTool(r, ok, done) ==
  /\ req[r] # NULL /\ req[r].stage = "running"
  /\ ok => done
  /\ req' = [req EXCEPT ![r].stage = Ending(ok)]
  /\ effects' = IF done THEN [effects EXCEPT ![req[r].action] = @ + 1]
                        ELSE effects
  /\ UNCHANGED <<table, withdrawn, trail, history, now, kills>>

(* The row of the trail refers to the run and cannot be inserted once the  *)
(* run is gone.                                                            *)
Recorded_SuccessOnly(r) == row[req[r].action].run /\ req[r].stage = "succeeded"

Recorded(r) == row[req[r].action].run

Record(r) ==
  /\ req[r] # NULL /\ req[r].stage \in Outcomes
  /\ trail' = IF Recorded(r)
                THEN [trail EXCEPT ![req[r].action][req[r].stage] = @ + 1]
                ELSE trail
  /\ req' = [req EXCEPT ![r] = NULL]
  /\ UNCHANGED <<table, withdrawn, effects, history, now, kills>>

(* A request dies with its process.  Nothing takes its work up again.      *)
Die(r) ==
  /\ req[r] # NULL
  /\ kills < MaxKills
  /\ kills' = kills + 1
  /\ req' = [req EXCEPT ![r] = NULL]
  /\ cut' = IF req[r].stage = "deciding" THEN cut ELSE cut \cup {req[r].action}
  /\ UNCHANGED <<table, withdrawn, world, grants, contested, now>>

-----------------------------------------------------------------------------
(* Around the requests: a tool leaves the catalog, a run is cleaned up     *)
(* (approvals keep their row without it, its audit rows go with it), and   *)
(* time passes.                                                            *)
Withdraw(a) ==
  /\ a \notin withdrawn
  /\ withdrawn' = withdrawn \cup {a}
  /\ UNCHANGED <<table, req, world, history, now, kills>>

CleanUpRun(a) ==
  /\ a \in Visible /\ row[a].run
  /\ row' = [row EXCEPT ![a].run = FALSE]
  /\ trail' = [trail EXCEPT ![a] = [o \in Outcomes |-> 0]]
  /\ UNCHANGED <<unused, draft, req, withdrawn, effects, history, now, kills>>

Tick ==
  /\ now < MaxTime
  /\ now' = now + 1
  /\ UNCHANGED <<table, req, withdrawn, world, history, kills>>

Turn ==
  \/ \E a \in Actions : Propose(a)
  \/ \E proposed \in SUBSET draft :
       proposed # {} /\ (CommitTurn(proposed) \/ LoseTurn(proposed))

Handler(r) ==
  \/ \E a \in Actions, verb \in Verbs : Read(r, a, verb)
  \/ Decide(r) \/ Dispatch(r) \/ Record(r) \/ Die(r)
  \/ \E ok, done \in BOOLEAN : RunTool(r, ok, done)

Next ==
  \/ Turn
  \/ \E r \in Requests : Handler(r)
  \/ \E a \in Actions : Withdraw(a) \/ CleanUpRun(a)
  \/ Tick

Spec == Init /\ [][Next]_vars

-----------------------------------------------------------------------------
(* Types of the state.                                                     *)
TypeOK ==
  /\ unused \subseteq Actions
  /\ row \in [Actions -> Approval \cup {NULL}]
  /\ draft \subseteq Actions
  /\ req \in [Requests -> Request \cup {NULL}]
  /\ withdrawn \subseteq Actions
  /\ effects \in [Actions -> Nat]
  /\ trail \in [Actions -> [Outcomes -> Nat]]
  /\ grants \in [Actions -> Nat]
  /\ contested \subseteq Actions /\ cut \subseteq Actions
  /\ now \in Nat /\ kills \in Nat

(* Unless two requests had the approval read at the same time, its action  *)
(* takes effect at most once: the committed pending -> approved transition *)
(* is the guard dispatch_approved relies on, through retries, later        *)
(* requests and requests that die.                                         *)
UncontestedRunsOnce == \A a \in Actions \ contested : effects[a] <= 1

(* With the same exception, what the user rejected or let expire never     *)
(* takes effect, before the decision or after it.                          *)
RefusedNeverRuns ==
  \A a \in Visible \ contested :
    row[a].status \in {"rejected", "expired"} => effects[a] = 0

(* An action never takes effect more often than the user has approved it,  *)
(* even where decisions overlap: no failure, timeout or crash makes the    *)
(* program run an approved action again by itself.                         *)
EffectsHaveConsent == \A a \in Actions : effects[a] <= grants[a]

(* What took effect is on the audit trail or about to be, whatever the     *)
(* tool's ending was; except where the request died, or where the run that *)
(* the trail hangs from has been cleaned up.                               *)
Executions(a) == trail[a]["succeeded"] + trail[a]["failed"]
Recorders(a) ==
  {r \in Requests : At(r, a) /\ req[r].stage \in {"succeeded", "failed"}}

EffectsAreAudited ==
  \A a \in Visible \ cut :
    row[a].run => effects[a] <= Executions(a) + Cardinality(Recorders(a))

(* An approval that has been dealt with has left exactly one row on the    *)
(* trail: what its execution came to, or why there was none.               *)
OutcomesAreOnTrail ==
  \A a \in Visible \ (contested \cup cut) :
    (/\ row[a].status = "approved" /\ row[a].run
     /\ \A r \in Requests : ~At(r, a))
    => Executions(a) + trail[a]["not_executed"] = 1

(* A preview that has gone stale, with no request having it read, is never *)
(* acted on again: it can only expire.                                     *)
Stale(a) ==
  /\ a \in Visible /\ row[a].status = "pending" /\ row[a].expires <= now
  /\ \A r \in Requests : ~At(r, a)

StalePreviewsNeverRun ==
  \A a \in Actions : [](Stale(a) => [](effects[a] = 0))

(* What the docstring of dispatch_approved says and the code does not keep *)
(* when two approvals overlap: "Execution happens exactly once", "a        *)
(* double-click cannot produce two writes or two shell commands".          *)
RunsAtMostOnce == \A a \in Actions : effects[a] <= 1
=============================================================================
