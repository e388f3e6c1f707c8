------------------------------- MODULE Router -------------------------------
(***************************************************************************)
(* How GUMMY OS decides which agents answer a message: one of them, a      *)
(* pipeline whose steps build on each other, or branches that run at the   *)
(* same time.                                                              *)
(*                                                                         *)
(* A message is the sequence of its clauses.  A clause has a score for     *)
(* each specialist (its keywords found in the clause) and is dependent     *)
(* when its connective states an order ("and then") or its words refer     *)
(* back to an earlier result ("apply to them").                            *)
(*                                                                         *)
(* Operators whose name has an underscore are faulty variants of the       *)
(* definition they precede; no specification uses them.                    *)
(***************************************************************************)
EXTENDS Catalog, Sequences, FiniteSets

MinScore == 1           \* AGENT_ROUTER_MIN_SCORE
MaxCompoundSteps == 3   \* COMPOUND_MAX_STEPS

SpecialistKeys == {Specialists[i] : i \in DOMAIN Specialists}
Shapes == { "single", "pipeline", "parallel" }
Plan(shape, agents) == [ shape |-> shape, agents |-> agents ]

(* The router finds a score for each specialist, clause by clause.         *)
Score == [SpecialistKeys -> Nat]
Clause == [ scores : Score, dependent : BOOLEAN ]

(* The specialist a clause is for: the highest score that clears the bar,  *)
(* a tie broken by the manifests' priorities; "none" when nobody clears    *)
(* it.                                                                     *)
Outdoes(scores, a, b) ==
  \/ scores[a] > scores[b]
  \/ scores[a] = scores[b] /\ Priority[a] > Priority[b]

BestSpecialist(scores) ==
  LET fit == {a \in DOMAIN scores : scores[a] >= MinScore}
  IN  IF fit = {} THEN "none"
      ELSE CHOOSE a \in fit : \A b \in fit \ {a} : Outdoes(scores, a, b)

-----------------------------------------------------------------------------
(* The steps of a compound message.  Clause k opens a step when it has a   *)
(* specialist other than that of the step before it; any other clause is   *)
(* folded into the step that is open, and lost when there is none.         *)
Wanted(clauses, k) == BestSpecialist(clauses[k].scores)

OpenSteps_DedupedGlobally(clauses) ==
  LET first == {k \in DOMAIN clauses :
                  /\ Wanted(clauses, k) # "none"
                  /\ \A j \in 1..(k - 1) : Wanted(clauses, j) # Wanted(clauses, k)}
      Nth(n) == CHOOSE k \in first : Cardinality({j \in first : j <= k}) = n
  IN  [n \in 1..Cardinality(first) |->
         [agent |-> Wanted(clauses, Nth(n)),
          dependent |-> clauses[Nth(n)].dependent]]

Extended(clauses, before, k) ==
  LET agent == Wanted(clauses, k)
      again == before # << >> /\ before[Len(before)].agent = agent
  IN  IF agent = "none" \/ again THEN before
      ELSE Append(before, [agent |-> agent, dependent |-> clauses[k].dependent])

StepsUpTo(clauses) ==
  LET steps[k \in 0..Len(clauses)] ==
        IF k = 0 THEN << >> ELSE Extended(clauses, steps[k - 1], k)
  IN  steps

OpenSteps(clauses) == StepsUpTo(clauses)[Len(clauses)]

Distinct(steps) == Cardinality({steps[i].agent : i \in DOMAIN steps})

Compound(clauses) ==
  LET steps == OpenSteps(clauses)
  IN  Len(clauses) >= 2 /\ Distinct(steps) >= 2

ShapeOf(steps) ==
  IF \E i \in DOMAIN steps \ {1} : steps[i].dependent
  THEN "pipeline" ELSE "parallel"

Truncated(steps) ==
  SubSeq(steps, 1, IF Len(steps) > MaxCompoundSteps
                     THEN MaxCompoundSteps ELSE Len(steps))

CompoundPlan(clauses) ==
  LET steps == Truncated(OpenSteps(clauses))
  IN  Plan(ShapeOf(steps), [i \in DOMAIN steps |-> steps[i].agent])

RecallPipeline == Plan("pipeline", << "recall", "general" >>)

(* A message has its clauses, the scores of the whole of it, the agent the *)
(* user pinned or "none", whether its thread is a research thread, and     *)
(* what the classifier would say where it is switched on.                  *)
IsMessage(message) ==
  /\ message.clauses \in Seq(Clause) /\ message.scores \in Score
  /\ message.research \in BOOLEAN

Route(message) ==
  LET best == BestSpecialist(message.scores)
  IN  CASE message.pinned \in Agents -> Plan("single", << message.pinned >>)
        [] message.pinned \notin Agents \cup {"none"} ->
             Plan("single", << "general" >>)
        [] message.pinned = "none" /\ message.research -> RecallPipeline
        [] message.pinned = "none" /\ ~message.research
             /\ Compound(message.clauses) -> CompoundPlan(message.clauses)
        [] message.pinned = "none" /\ ~message.research
             /\ ~Compound(message.clauses) ->
             IF best # "none" THEN Plan("single", << best >>)
             ELSE IF message.classified = "recall" THEN RecallPipeline
             ELSE Plan("single", << "general" >>)

-----------------------------------------------------------------------------
(* The plan of a compound message follows its clauses: a step for every    *)
(* clause whose specialist differs from the nearest one before it, in      *)
(* their order and no more than the cap, with A, B, A expressible; and the *)
(* steps only run at the same time when none of those after the first was  *)
(* said to depend on an earlier one.                                       *)
Openers(clauses) ==
  LET fit == {k \in DOMAIN clauses : Wanted(clauses, k) # "none"}
      Nearest(k) == {j \in fit : j < k /\ \A i \in fit : i <= j \/ i >= k}
  IN  {k \in fit : \A j \in Nearest(k) : Wanted(clauses, j) # Wanted(clauses, k)}

FollowsItsClauses(clauses) ==
  LET openers == Openers(clauses)
      Place(k) == Cardinality({j \in openers : j <= k})
      kept == {k \in openers : Place(k) <= MaxCompoundSteps}
      plan == Route([clauses |-> clauses, scores |-> clauses[1].scores,
                     pinned |-> "none", research |-> FALSE,
                     classified |-> "none"])
  IN  Cardinality({Wanted(clauses, k) : k \in openers}) >= 2 =>
        /\ Len(plan.agents) = Cardinality(kept)
        /\ \A k \in kept : plan.agents[Place(k)] = Wanted(clauses, k)
        /\ plan.shape = "parallel" <=>
             \A k \in kept : Place(k) = 1 \/ ~clauses[k].dependent
=============================================================================
