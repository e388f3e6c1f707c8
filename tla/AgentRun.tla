------------------------------ MODULE AgentRun ------------------------------
(***************************************************************************)
(* One run of the agents of GUMMY OS: the orchestrator routes a message,   *)
(* opens a run, drives its steps one after the other or as branches that   *)
(* run at the same time, lets the last step of a chain call tools, keeps   *)
(* the trace of it (run, steps, hops, tool calls), and composes the reply. *)
(*                                                                         *)
(* The trace is written on the turn's session and commits or vanishes with *)
(* the turn (module Turns).  Only the handlers of parallel branches run    *)
(* concurrently, and they write nothing: what they came to is taken up     *)
(* branch by branch once all of them have ended.                           *)
(*                                                                         *)
(* Operators whose name has an underscore are faulty variants of the       *)
(* definition they precede; no specification uses them.                    *)
(***************************************************************************)
EXTENDS Router

CONSTANTS
  Messages,       \* the messages the user sends
  ToolCalling,    \* whether the provider can call tools
  Requested,      \* tool names a model asks for, known or made up
  Allowances,     \* tools the user granted a standing allowance for
  StepCosts,      \* the token costs a step can have
  MaxRunSteps,    \* AGENT_MAX_RUN_STEPS
  MaxRunCost,     \* AGENT_MAX_RUN_COST_TOKENS
  MaxIterations,  \* MAX_TOOL_ITERATIONS
  MaxCalls        \* MAX_TOOL_CALLS_PER_STEP

VARIABLES
  plan,      \* the routing decision
  stage,     \* where the orchestrator stands
  run,       \* the agent_runs row: its status and cost
  steps,     \* the agent_steps rows
  hops,      \* the agent_messages rows: a step's index and a role
  guard,     \* _RunGuard: steps and tokens recorded so far
  informed,  \* per step, the steps whose findings its prompt carries
  loop,      \* the tool loop: generations begun, calls still to run, the cap
  told,      \* tool messages the model is to see, oldest first
  read,      \* how many of them the last generation saw
  audit,     \* tool_invocations rows
  pending,   \* how many approvals the run has left for the user
  effects,   \* the tools that were executed
  reply      \* the reply: "none" yet, "empty" or "text"

trace == <<run, steps, hops>>
tools == <<loop, told, read, audit, pending, effects>>
vars == <<plan, stage, run, steps, hops, guard, informed, loop, told, read,
          audit, pending, effects, reply>>

(* What is assumed of the constants; of a message, only what it is.        *)
Assumption ==
  /\ \A message \in Messages : IsMessage(message)
  /\ StepCosts \subseteq Nat
  /\ MaxRunSteps \in Nat /\ MaxRunCost \in Nat
  /\ MaxIterations \in Nat \ {0} /\ MaxCalls \in Nat \ {0}

Stages ==
  { "idle", "context", "steps", "working", "gathering", "looping", "failing",
    "closing", "replying", "failed", "done" }
StepStatuses == { "running", "succeeded", "failed" }
Step ==
  [ agent : Agents, status : StepStatuses, cost : Nat, said : BOOLEAN ]
Hop == [ step : Nat, role : { "task", "result", "error" } ]

Planned == Len(plan.agents)
Current == Len(steps)
Chain == plan.shape # "parallel"
Terminal == Current = Planned

Init ==
  /\ plan = Plan("single", << "general" >>)
  /\ stage = "idle"
  /\ run = [status |-> "none", cost |-> 0]
  /\ steps = << >> /\ hops = << >>
  /\ guard = [steps |-> 0, cost |-> 0]
  /\ informed = << >>
  /\ loop = [iterations |-> 0, calls |-> << >>, capped |-> FALSE]
  /\ told = << >> /\ read = 0 /\ audit = << >>
  /\ pending = 0 /\ effects = {}
  /\ reply = "none"

-----------------------------------------------------------------------------
(* Opening the run and gathering its context, which may fail.              *)
OpenRun(message) ==
  /\ stage = "idle"
  /\ plan' = Route(message)
  /\ run' = [run EXCEPT !.status = "running"]
  /\ stage' = "context"
  /\ UNCHANGED <<steps, hops, guard, informed, tools, reply>>

BuildContext(ok) ==
  /\ stage = "context"
  /\ stage' = IF ok THEN "steps" ELSE "failing"
  /\ UNCHANGED <<plan, trace, guard, informed, tools, reply>>

-----------------------------------------------------------------------------
(* Steps are opened while the run is below its caps.  A branch counts as a *)
(* step before any of them has run.                                        *)
WithinCaps_Uncosted(branches) == guard.steps + branches <= MaxRunSteps

WithinCaps(branches) ==
  /\ guard.steps + branches <= MaxRunSteps
  /\ guard.cost < MaxRunCost

Opened(agent) ==
  [agent |-> agent, status |-> "running", cost |-> 0, said |-> FALSE]

(* What reaches the prompt of the next step of a chain: a step before the  *)
(* last gets its predecessors' findings; the last one gets their outputs,  *)
(* of which only the recall agent's digest is read.                        *)
Findings(i) ==
  {j \in 1..(i - 1) : IF i < Planned THEN steps[j].said
                                     ELSE steps[j].agent = "recall"}

BudgetStops ==
  /\ stage = "steps"
  /\ ~WithinCaps(IF Chain THEN 1 ELSE Planned)
  /\ stage' = "failing"
  /\ UNCHANGED <<plan, trace, guard, informed, tools, reply>>

OpenStep ==
  /\ stage = "steps" /\ Chain /\ WithinCaps(1)
  /\ LET i == Current + 1
     IN  /\ steps' = Append(steps, Opened(plan.agents[i]))
         /\ hops' = Append(hops, [step |-> i, role |-> "task"])
         /\ informed' = Append(informed, Findings(i))
         /\ stage' =
              IF i = Planned /\ ToolCalling /\ plan.agents[i] # "recall"
                 /\ ToolsOf(plan.agents[i]) # {}
              THEN "looping" ELSE "working"
  /\ UNCHANGED <<plan, run, guard, tools, reply>>

FanOut ==
  /\ stage = "steps" /\ ~Chain /\ WithinCaps(Planned)
  /\ steps' = [i \in 1..Planned |-> Opened(plan.agents[i])]
  /\ hops' = [i \in 1..Planned |-> [step |-> i, role |-> "task"]]
  /\ informed' = [i \in 1..Planned |-> {}]
  /\ stage' = "gathering"
  /\ UNCHANGED <<plan, run, guard, tools, reply>>

-----------------------------------------------------------------------------
(* Closing a step: its row, its cost on the run and on the guard, its hop. *)
CloseSuccess_LastCost(i, cost, said) ==
  /\ steps' = [steps EXCEPT ![i].status = "succeeded", ![i].cost = cost,
                            ![i].said = said]
  /\ run' = [run EXCEPT !.cost = cost]
  /\ guard' = [steps |-> guard.steps + 1, cost |-> guard.cost + cost]
  /\ hops' = Append(hops, [step |-> i, role |-> "result"])

CloseSuccess(i, cost, said) ==
  /\ steps' = [steps EXCEPT ![i].status = "succeeded", ![i].cost = cost,
                            ![i].said = said]
  /\ run' = [run EXCEPT !.cost = @ + cost]
  /\ guard' = [steps |-> guard.steps + 1, cost |-> guard.cost + cost]
  /\ hops' = Append(hops, [step |-> i, role |-> "result"])

CloseFailure(i) ==
  /\ steps' = [steps EXCEPT ![i].status = "failed"]
  /\ hops' = Append(hops, [step |-> i, role |-> "error"])

Finish(cost, said) ==
  /\ CloseSuccess(Current, cost, said)
  /\ stage' = IF Terminal THEN "closing" ELSE "steps"

(* The model answers a step that calls no tools.                           *)
Answer(cost, said) ==
  /\ stage = "working"
  /\ Finish(cost, said)
  /\ UNCHANGED <<plan, informed, tools, reply>>

(* A step of a chain fails, in its prompt, its model or its loop: the run  *)
(* fails with it.                                                          *)
StepFails ==
  /\ stage \in {"working", "looping"}
  /\ CloseFailure(Current)
  /\ stage' = "failing"
  /\ UNCHANGED <<plan, run, guard, informed, tools, reply>>

(* Branches are taken up in the order of the plan.  Each fails on its own; *)
(* the run fails when all of them have.                                    *)
Branch == CHOOSE i \in 1..Planned :
            steps[i].status = "running" /\ \A j \in 1..(i - 1) :
                                             steps[j].status # "running"

AfterBranches_LastDecides(ok) ==
  IF Branch < Planned THEN "gathering" ELSE IF ok THEN "closing" ELSE "failing"

AfterBranches(ok) ==
  IF Branch < Planned THEN "gathering"
  ELSE IF ok \/ \E i \in 1..Planned : steps[i].status = "succeeded"
       THEN "closing" ELSE "failing"

GatherResult(cost, said) ==
  /\ stage = "gathering"
  /\ CloseSuccess(Branch, cost, said)
  /\ stage' = AfterBranches(TRUE)
  /\ UNCHANGED <<plan, informed, tools, reply>>

GatherFailure ==
  /\ stage = "gathering"
  /\ CloseFailure(Branch)
  /\ stage' = AfterBranches(FALSE)
  /\ UNCHANGED <<plan, run, guard, informed, tools, reply>>

-----------------------------------------------------------------------------
(* The tool loop.  A generation either answers or asks for calls, of which *)
(* the first few are run.  The last permitted generation may still ask.    *)
Generations == loop.iterations
AwaitsModel == stage = "looping" /\ loop.calls = << >> /\ ~loop.capped

FirstFew_All(calls) == calls

FirstFew(calls) ==
  SubSeq(calls, 1, IF Len(calls) > MaxCalls THEN MaxCalls ELSE Len(calls))

AskForTools(calls) ==
  /\ AwaitsModel
  /\ calls # << >>
  /\ loop' = [iterations |-> Generations + 1, calls |-> FirstFew(calls),
              capped |-> FALSE]
  /\ read' = Len(told)
  /\ UNCHANGED <<plan, stage, trace, guard, informed, told, audit, pending,
                 effects, reply>>

AnswerFromTools(cost, said) ==
  /\ AwaitsModel
  /\ read' = Len(told)
  /\ loop' = [loop EXCEPT !.iterations = @ + 1]
  /\ Finish(cost, said)
  /\ UNCHANGED <<plan, informed, told, audit, pending, effects, reply>>

(* One call through the gate: what it comes to is told to the model and    *)
(* left on the audit trail.  A call that is let through may be refused for *)
(* its arguments, fail or run out of time.                                 *)
Verdict(tool) ==
  IF tool \notin BuiltIn THEN "block"
  ELSE LET judged == Judged(plan.agents[Planned], tool, Allowances)
       IN  IF judged = "allow" /\ tool \notin Executable
           THEN "unavailable" ELSE judged

Outcome(tool, ending) ==
  CASE Verdict(tool) = "block" -> "denied"
    [] Verdict(tool) = "prompt" -> "approval_required"
    [] Verdict(tool) = "unavailable" -> "unavailable"
    [] Verdict(tool) = "allow" -> ending

Row(tool, ending) ==
  CASE Verdict(tool) = "block" ->
         [tool |-> tool, decision |-> "blocked", status |-> "not_executed"]
    [] Verdict(tool) \in {"prompt", "unavailable"} ->
         [tool |-> tool, decision |-> "pending", status |-> "not_executed"]
    [] Verdict(tool) = "allow" ->
         [tool |-> tool, decision |-> "allowed",
          status |-> IF ending = "success" THEN "succeeded" ELSE "failed"]

AtCap(rest) == rest = << >> /\ Generations = MaxIterations

Invoke(ending) ==
  /\ stage = "looping" /\ loop.calls # << >>
  /\ LET tool == Head(loop.calls)
         rest == Tail(loop.calls)
     IN  /\ told' = Append(told, [tool |-> tool, outcome |-> Outcome(tool, ending)])
         /\ audit' = Append(audit, Row(tool, ending))
         /\ pending' = pending + (IF Verdict(tool) = "prompt" THEN 1 ELSE 0)
         /\ effects' = IF Verdict(tool) = "allow" THEN effects \cup {tool}
                                                 ELSE effects
         /\ loop' = [loop EXCEPT !.calls = rest, !.capped = AtCap(rest)]
  /\ UNCHANGED <<plan, stage, trace, guard, informed, read, reply>>

(* The cap: the loop ends with the text of its last generation, or with a  *)
(* sentence of its own.                                                    *)
AnswerAtTheCap(cost) ==
  /\ stage = "looping" /\ loop.capped
  /\ Finish(cost, TRUE)
  /\ UNCHANGED <<plan, informed, tools, reply>>

-----------------------------------------------------------------------------
(* The run's end.  The reply of a chain is that of its last step, with a   *)
(* sentence in its place when that is empty; the replies of branches are   *)
(* merged, with a note on those that failed.                               *)
FailRun ==
  /\ stage = "failing"
  /\ run' = [run EXCEPT !.status = "failed"]
  /\ stage' = "failed"
  /\ UNCHANGED <<plan, steps, hops, guard, informed, tools, reply>>

CloseRun ==
  /\ stage = "closing"
  /\ run' = [run EXCEPT !.status = "succeeded"]
  /\ stage' = "replying"
  /\ UNCHANGED <<plan, steps, hops, guard, informed, tools, reply>>

Composed ==
  IF Chain \/ \E i \in 1..Planned : steps[i].said \/ steps[i].status = "failed"
  THEN "text" ELSE "empty"

Reply ==
  /\ stage = "replying"
  /\ reply' = Composed
  /\ stage' = "done"
  /\ UNCHANGED <<plan, trace, guard, informed, tools>>

-----------------------------------------------------------------------------
Calls == UNION {[1..n -> Requested] : n \in 1..(MaxCalls + 1)}

Next ==
  \/ \E message \in Messages : OpenRun(message)
  \/ \E ok \in BOOLEAN : BuildContext(ok)
  \/ BudgetStops \/ OpenStep \/ FanOut
  \/ \E cost \in StepCosts, said \in BOOLEAN :
       Answer(cost, said) \/ GatherResult(cost, said) \/ AnswerFromTools(cost, said)
  \/ StepFails \/ GatherFailure
  \/ \E calls \in Calls : AskForTools(calls)
  \/ \E ending \in {"success", "failed", "timeout"} : Invoke(ending)
  \/ \E cost \in StepCosts : AnswerAtTheCap(cost)
  \/ FailRun \/ CloseRun \/ Reply

Spec == Init /\ [][Next]_vars

-----------------------------------------------------------------------------
(* Types of the state.                                                     *)
TypeOK ==
  /\ plan \in [shape : Shapes, agents : Seq(Agents)] /\ Planned > 0
  /\ stage \in Stages
  /\ run \in [status : {"none", "running", "succeeded", "failed"}, cost : Nat]
  /\ steps \in Seq(Step) /\ hops \in Seq(Hop)
  /\ guard \in [steps : Nat, cost : Nat]
  /\ informed \in Seq(SUBSET Nat)
  /\ loop \in [iterations : 0..MaxIterations, calls : Seq(Requested),
               capped : BOOLEAN]
  /\ told \in Seq([tool : Requested,
                    outcome : {"denied", "approval_required", "unavailable",
                               "success", "failed", "timeout"}])
  /\ read \in Nat
  /\ audit \in Seq([tool : Requested,
                     decision : {"allowed", "pending", "blocked"},
                     status : {"succeeded", "failed", "not_executed"}])
  /\ pending \in Nat /\ effects \subseteq Requested
  /\ reply \in {"none", "empty", "text"}

(* The trace tells the run.  When a run has ended none of its steps is     *)
(* open, each has its task on the trace and one hop back that agrees with  *)
(* its status; it succeeded when its whole chain did, or one branch, and   *)
(* then it has a reply, empty only where every branch answered with        *)
(* nothing and none failed.                                                *)
Back(i) == {k \in DOMAIN hops : hops[k].step = i /\ hops[k].role # "task"}
Succeeded(i) == steps[i].status = "succeeded"

TraceTellsTheRun ==
  stage \in {"failed", "done"} =>
    /\ \A i \in DOMAIN steps :
         /\ steps[i].status # "running"
         /\ \E k \in DOMAIN hops : hops[k] = [step |-> i, role |-> "task"]
         /\ Cardinality(Back(i)) = 1
         /\ \A k \in Back(i) : hops[k].role = "result" <=> Succeeded(i)
    /\ run.status = "succeeded" <=>
         /\ Current = Planned
         /\ IF Chain THEN \A i \in DOMAIN steps : Succeeded(i)
                     ELSE \E i \in DOMAIN steps : Succeeded(i)
    /\ run.status = "succeeded" => reply # "none"
    /\ reply = "empty" => ~Chain /\ \A i \in DOMAIN steps :
                                      Succeeded(i) /\ ~steps[i].said

(* A run overspends its token cap by one round at most.  What it cost is   *)
(* what its steps did.  A step of a chain is opened when what the steps    *)
(* before it cost is below the cap: it overspends by its last step.  The   *)
(* branches of a parallel plan are all opened on one check, before any of  *)
(* them has cost anything: such a run overspends by the whole round.       *)
CostUpTo(rows) ==
  LET sum[k \in 0..Len(rows)] == IF k = 0 THEN 0 ELSE sum[k - 1] + rows[k].cost
  IN  sum

Checked == IF Chain THEN Current - 1 ELSE 0

OverspendsByOneRound ==
  steps # << >> =>
    /\ run.cost = CostUpTo(steps)[Current]
    /\ CostUpTo(steps)[Checked] < MaxRunCost
    /\ ~Chain => Current = Planned

(* The model never answers over the head of its tools: every call that was *)
(* taken up is told with the outcome the audit trail has, in order, and    *)
(* only a loop that was cut at its cap ends with outcomes its last         *)
(* generation has not seen, no more of them than one generation may ask    *)
(* for.                                                                    *)
Agree(row, message) ==
  /\ row.tool = message.tool
  /\ row.status = "succeeded" <=> message.outcome = "success"
  /\ row.decision = "blocked" <=> message.outcome = "denied"
  /\ row.status = "not_executed" <=>
       message.outcome \in {"denied", "approval_required", "unavailable"}

AnswersHaveSeenTheirTools ==
  /\ Len(audit) = Len(told)
  /\ \A k \in DOMAIN told : Agree(audit[k], told[k])
  /\ Len(told) - read <= MaxCalls
  /\ stage \in {"closing", "replying", "done"} =>
       loop.capped \/ read = Len(told)

(* Within a run nothing takes effect that the user would have to be asked  *)
(* about: what is executed is green or allowed once and for all, and each  *)
(* call that is not is either refused or waits for the user.               *)
UnaskedIsGreen ==
  /\ \A tool \in effects :
       \/ TierOf(tool) = "green"
       \/ TierOf(tool) = "yellow" /\ tool \in Allowances
  /\ pending = Cardinality({k \in DOMAIN told :
                              told[k].outcome = "approval_required"})

(* What orchestrator_service says of a chain and does not do for its last  *)
(* step: "The hand-off: structured findings for the NEXT step".            *)
FindingsAreHandedOn ==
  \A i \in DOMAIN informed :
    Chain /\ i > 1 /\ steps[i - 1].said => i - 1 \in informed[i]
=============================================================================
