----------------------------- MODULE Knowledge -----------------------------
(***************************************************************************)
(* What GUMMY OS knows that bears on a message: memories, goals, file      *)
(* excerpts and web hits, put on one scale, ranked, and packed into the    *)
(* tokens a prompt has for them; and the short cut that answers a question *)
(* about the user straight from one memory.  These operators change no     *)
(* state.                                                                  *)
(*                                                                         *)
(* Memory signals are in hundredths; scores on the common scale are in     *)
(* units of 10^-8, in which the decay by tenths is exact.                  *)
(***************************************************************************)
EXTENDS Selection, SequencesExt

CONSTANTS
  RETRIEVAL_CANDIDATE_MULTIPLIER,   \* candidates read per memory wanted
  KNOWLEDGE_MAX_MEMORIES,           \* memories of a context
  DEFAULT_CONTEXT_MAX_MEMORIES      \* memories of an agent's pack
RETRIEVAL_MIN_SEMANTIC_SIMILARITY == 45

UpTo(n, s) == SubSeq(s, 1, IF n < Len(s) THEN n ELSE Len(s))
Clamped(x, top) == IF x < 0 THEN 0 ELSE IF x > top THEN top ELSE x

(* The first of each kind, in order.                                       *)
Firsts(s, Of(_)) ==
  Taken(s, Chosen(Len(s), {i \in DOMAIN s : \A j \in 1..(i - 1) : Of(s[j]) # Of(s[i])}))

-----------------------------------------------------------------------------
(* Memories.  A memory has its likeness to the query, its recency, the     *)
(* importance and the confidence, and what its text says when normalized.  *)
HybridScore(m) ==
  55 * m.similarity + 20 * m.importance + 15 * m.recency + 10 * m.confidence

RetrieveMemories_CutFirst(pool, floor, limit) ==
  LET candidates == UpTo(RETRIEVAL_CANDIDATE_MULTIPLIER * limit,
                         Sorted(pool, LAMBDA a, b : a.similarity > b.similarity))
      ranked == Sorted(Kept(candidates, LAMBDA m : m.similarity >= floor),
                       LAMBDA a, b : HybridScore(a) > HybridScore(b))
  IN  Firsts(UpTo(limit, ranked), LAMBDA m : m.text)
RetrieveMemories(pool, floor, limit) ==
  LET candidates == UpTo(RETRIEVAL_CANDIDATE_MULTIPLIER * limit,
                         Sorted(pool, LAMBDA a, b : a.similarity > b.similarity))
      ranked == Sorted(Kept(candidates, LAMBDA m : m.similarity >= floor),
                       LAMBDA a, b : HybridScore(a) > HybridScore(b))
  IN  UpTo(limit, Firsts(ranked, LAMBDA m : m.text))

(* The memories a reader of so many is given, with their scores.           *)
Recall(pool, limit) ==
  LET found == RetrieveMemories(pool, RETRIEVAL_MIN_SEMANTIC_SIMILARITY, limit)
  IN  [i \in DOMAIN found |->
         [score |-> HybridScore(found[i]), text |-> found[i].text, cost |-> found[i].cost]]

(* A recall brings a score nearer to one, once in a cool-down.             *)
Reinforced(score, step, quiet) ==
  IF quiet THEN Clamped(score + (step * (1000000 - score)) \div 100, 1000000) ELSE score

-----------------------------------------------------------------------------
(* The common scale.                                                       *)
Whole == 100000000
Decayed(n) ==                \* the first of n + 1, and nine tenths with each
  LET decayed[order \in 0..n] ==
        IF order = 0 THEN 60000000 ELSE (decayed[order - 1] * 9) \div 10
  IN  decayed

PriorityRank == [low |-> 1, medium |-> 2, high |-> 3]   \* GOAL_PRIORITY_RANK
DeadlineProximity(days) ==   \* 30 when there is no deadline or a later one
  Clamped(((30 - days) * 10000000) \div 3, Whole)
GoalScore(goal) ==           \* a tenth of the scale for each rank
  Clamped(Whole \div 2 + PriorityRank[goal.priority] * (Whole \div 10)
            + DeadlineProximity(goal.days) \div 5, Whole)

(* The items of a context, in the order of their sources, with the score   *)
(* on their own scale and their rank on the common one.                    *)
Item(source, entry, native, rank) ==
  [source |-> source, text |-> entry.text, cost |-> entry.cost,
   native |-> native, rank |-> rank]

SearchItems(hits) ==
  LET named == Chosen(Len(hits), {i \in DOMAIN hits : hits[i].named})
      native(n) == Decayed(Len(hits))[named[n] - 1]
  IN  [n \in DOMAIN named |->
         Item("search", hits[named[n]], native(n), native(n) \div 2)]

ScoredItems(context) ==
  [i \in DOMAIN context.memories |->
     LET native == Clamped(context.memories[i].score * 10000, Whole)
     IN  Item("memory", context.memories[i], native, native)]
  \o [i \in DOMAIN context.goals |->
     Item("goal", context.goals[i], GoalScore(context.goals[i]), GoalScore(context.goals[i]))]
  \o [i \in DOMAIN context.files |->
     LET native == Decayed(Len(context.files))[i - 1]
     IN  Item("file", context.files[i], native,
              native + IF context.attached THEN Whole ELSE 0)]
  \o SearchItems(context.search)

TieBreak == [file |-> 3, goal |-> 2, memory |-> 1, search |-> 0]
Outranks(a, b) ==
  \/ a.rank > b.rank
  \/ a.rank = b.rank /\ TieBreak[a.source] > TieBreak[b.source]
  \/ a.rank = b.rank /\ a.source = b.source /\ a.native > b.native
Rank(context) == Sorted(ScoredItems(context), Outranks)

(* The items that are packed into the prompt: repetitions and what no      *)
(* longer fits are passed over, but the first item is always taken.  The   *)
(* list of the user's files comes first in the count.                      *)
Kind(item) == <<item.source, item.text>>
Pack(packed, item, budget) ==
  IF \/ Kind(item) \in packed.seen
     \/ packed.items # << >> /\ packed.used + item.cost > budget
  THEN packed
  ELSE [items |-> Append(packed.items, item),
        seen |-> packed.seen \cup {Kind(item)},
        used |-> packed.used + item.cost]

PackedUpTo(ranked, inventory, budget) ==
  LET packed[n \in 0..Len(ranked)] ==
        IF n = 0 THEN [items |-> << >>, seen |-> {}, used |-> inventory]
        ELSE Pack(packed[n - 1], ranked[n], budget)
  IN  packed
Build(ranked, inventory, budget) == PackedUpTo(ranked, inventory, budget)[Len(ranked)]

-----------------------------------------------------------------------------
(* Retrieval asks the sources one after the other and does without those   *)
(* that break down; after a memory search that aborted the transaction, no *)
(* statement of it succeeds, here or later in the turn.  Only the files a  *)
(* message came with have to be there.                                     *)
Retrieve(known, broken, aborted) ==
  LET poisoned == aborted /\ "memory" \in broken
      gone(source) == source \in broken \/ poisoned
      left(source, items) == IF gone(source) THEN << >> ELSE items
  IN  IF known.attached /\ (gone("file") \/ known.foreign)
      THEN [raised |-> TRUE]
      ELSE [raised |-> FALSE, poisoned |-> poisoned,
            memories |-> left("memory", Recall(known.memories, KNOWLEDGE_MAX_MEMORIES)),
            goals |-> left("goal", UpTo(5, known.goals)),
            files |-> left("file", UpTo(8, known.files)),
            inventory |-> IF gone("file") THEN 0 ELSE known.inventory,
            search |-> << >>, attached |-> known.attached]
SourcesUsed(context) ==
  {s \in {"memory", "goal", "file"} :
     \/ s = "memory" /\ context.memories # << >>
     \/ s = "goal" /\ context.goals # << >>
     \/ s = "file" /\ (context.files # << >> \/ context.inventory > 0)}

(* The pack of an agent is built the same way, with the open tasks; but it *)
(* is not built without the memories or the tasks.  A failed lookup of     *)
(* goals or recent files is rolled back to a savepoint, and the contents   *)
(* of files come last, so an outage of either costs nothing else.          *)
BuildPack(known, broken) ==
  LET left(source, items) == IF source \in broken THEN << >> ELSE items
  IN  IF \/ broken \cap {"memory", "task"} # {}
         \/ known.attached /\ ("file" \in broken \/ known.foreign)
      THEN [raised |-> TRUE]
      ELSE [raised |-> FALSE,
            memories |-> Recall(known.memories, DEFAULT_CONTEXT_MAX_MEMORIES),
            goals |-> left("goal", UpTo(5, known.goals)),
            tasks |-> UpTo(10, known.tasks),
            files |-> left("file", UpTo(8, known.files)),
            inventory |-> IF "file" \in broken THEN 0 ELSE known.inventory,
            search |-> << >>, attached |-> known.attached]

(* The context an agent is handed no longer tells attachments from finds.  *)
FromPack(context) == [context EXCEPT !.attached = FALSE]

-----------------------------------------------------------------------------
(* The short cut: a fact has so many of the signals of the question and a  *)
(* length; it is scored in units of 10^-4.                                 *)
ScoreFact(fact, signals) ==
  IF fact.hits = 0 THEN 0
  ELSE Clamped((7000 * fact.hits) \div signals
               + (IF fact.length <= 80 THEN 3000 ELSE 240000 \div fact.length), 10000)

(* The place of the fact that answers, or 0 when the model has to.         *)
TryAnswer(facts, signals) ==
  LET score(i) == ScoreFact(facts[i], signals)
      order == InOrder(Len(facts), Pairs(Len(facts), LAMBDA i, j : score(i) > score(j)))
      runnerUp == IF Len(facts) > 1 THEN score(order[2]) ELSE 0
  IN  IF facts = << >> \/ score(order[1]) = 0 \/ score(order[1]) - runnerUp < 1500
      THEN 0 ELSE order[1]

-----------------------------------------------------------------------------
(* What is retrieved is relevant and said once.  Nothing comes before, or  *)
(* instead of, a memory that beats it in every respect, unless that says   *)
(* what has been said; and what is left out while there is room repeats.   *)
RetrievesTheRelevant(pool, floor, limit) ==
  LET found == RetrieveMemories(pool, floor, limit)
      texts == {found[i].text : i \in DOMAIN found}
      beats(a, b) == /\ a.similarity > b.similarity /\ a.importance > b.importance
                     /\ a.recency > b.recency /\ a.confidence > b.confidence
  IN  /\ Len(found) <= limit /\ Cardinality(texts) = Len(found)
      /\ \A i, j \in DOMAIN found : i < j => ~beats(found[j], found[i])
      /\ \A i \in DOMAIN found : found[i].similarity >= floor
      /\ \A m \in ToSet(pool) \ ToSet(found) :
           /\ \A i \in DOMAIN found : beats(m, found[i]) => m.text \in texts
           /\ m.similarity >= floor /\ Len(found) < limit
                /\ Len(pool) <= RETRIEVAL_CANDIDATE_MULTIPLIER * limit
              => m.text \in texts

(* Scores that recalls reinforce stay within bounds, never fall, and rise  *)
(* once however many recalls fall in one cool-down.                        *)
AfterRecalls(score, step, recalls) ==
  LET after[n \in 0..recalls] ==
        IF n = 0 THEN score ELSE Reinforced(after[n - 1], step, n = 1)
  IN  after
ReinforcesOnce(score, step, recalls) ==
  LET after == AfterRecalls(score, step, recalls)
  IN  /\ score <= after[1] /\ after[recalls] = after[1] /\ after[1] <= 1000000

(* Attached files lead, and no web hit stands before a goal or before what *)
(* its own source scores 0.30 or more: less than the code means, which is  *)
(* that a hit never overrides what is known.  What a source put first      *)
(* stays first, and an agent, which is not told about attachments, sees    *)
(* the same order of everything else.                                      *)
RanksFairly(context) ==
  LET ranked == Rank(context)
      told == Rank(FromPack(context))
      of(source, items) == Kept(items, LAMBDA i : i.source = source)
  IN  /\ \A i, j \in DOMAIN ranked : i < j =>
           /\ context.attached /\ ranked[j].source = "file" => ranked[i].source = "file"
           /\ \/ ranked[j].source = "goal"
              \/ ranked[j].source # "search" /\ ranked[j].native >= 30000000
              => ranked[i].source # "search"
      /\ of("file", ranked) = of("file", ScoredItems(context))
      /\ of("search", ranked) = SearchItems(context.search)
      /\ Kept(ranked, LAMBDA i : i.source # "file")
           = Kept(told, LAMBDA i : i.source # "file")
      /\ ~context.attached => told = ranked

(* The prompt holds what fits: more than the budget only for a first item, *)
(* or a list of files, that is over it alone; and whatever is left out     *)
(* repeats something taken or did not fit after what outranks it.          *)
Cost(items, inventory) ==
  LET cost[n \in 0..Len(items)] ==
        IF n = 0 THEN inventory ELSE cost[n - 1] + items[n].cost
  IN  cost
PacksWhatFits(ranked, inventory, budget) ==
  LET packed == Build(ranked, inventory, budget)
      items == packed.items
      cost == Cost(items, inventory)
      kept(i) == Contains(items, ranked[i])
      above(n, i) == \A k \in 1..n : \E j \in 1..(i - 1) : items[k] = ranked[j]
  IN  /\ packed.used = cost[Len(items)]
      /\ packed.used <= budget \/ Len(items) <= 1
      /\ ranked # << >> => items # << >> /\ items[1] = ranked[1]
      /\ \A i \in DOMAIN ranked :
           \/ kept(i)
           \/ \E j \in 1..(i - 1) : kept(j) /\ Kind(ranked[j]) = Kind(ranked[i])
           \/ \E n \in 1..Len(items) : above(n, i) /\ cost[n] + ranked[i].cost > budget
      /\ \A i, j \in DOMAIN items : i # j => Kind(items[i]) # Kind(items[j])

(* A source that breaks down costs the turn what it would have given and   *)
(* nothing else, but for two that take the turn down: files the message    *)
(* came with, and a memory search that aborted the transaction, after      *)
(* which there is nothing to tell and nothing the turn writes is kept.     *)
DegradesGracefully(known, broken, aborted) ==
  LET context == Retrieve(known, broken, aborted)
      poisoned == aborted /\ "memory" \in broken
  IN  IF context.raised
      THEN known.attached /\ (known.foreign \/ "file" \in broken \/ poisoned)
      ELSE /\ known.attached => ~known.foreign
           /\ context.poisoned => poisoned /\ SourcesUsed(context) = {}
           /\ ~context.poisoned =>
                SourcesUsed(context) = SourcesUsed(Retrieve(known, {}, FALSE)) \ broken

(* An agent is grounded in what the fallback core would be, whatever is    *)
(* out: what either is told of goals and files is the same, and the agent  *)
(* has each of the core's memories, or one that says the same and scores   *)
(* no less, or is full of memories that score no less.  It has them in the *)
(* same order if the core looked at all there are: it looks at fewer       *)
(* candidates.  And an agent goes without its tasks never.                 *)
PacksAgree(known, broken) ==
  LET pack == BuildPack(known, broken)
      context == Retrieve(known, broken, FALSE)
  IN  /\ context.raised => pack.raised
      /\ pack.raised /\ ~context.raised => broken \cap {"memory", "task"} # {}
      /\ ~pack.raised =>
           /\ \A m \in ToSet(context.memories) :
                \/ \E n \in ToSet(pack.memories) : n.text = m.text /\ n.score >= m.score
                \/ /\ Len(pack.memories) = DEFAULT_CONTEXT_MAX_MEMORIES
                   /\ \A n \in ToSet(pack.memories) : n.score >= m.score
           /\ Len(known.memories) <= RETRIEVAL_CANDIDATE_MULTIPLIER * KNOWLEDGE_MAX_MEMORIES
                => IsPrefix(context.memories, pack.memories)
           /\ context.goals = pack.goals /\ context.files = pack.files
           /\ context.inventory = pack.inventory
           /\ Len(known.tasks) > 0 => pack.tasks # << >>

(* An instant answer is not a guess: no other fact has as many signals and *)
(* is as short, and said twice the answer is left to the model.            *)
AnswersClearly(facts, signals) ==
  LET answer == TryAnswer(facts, signals)
  IN  answer # 0 =>
        /\ facts[answer].hits > 0
        /\ \A i \in DOMAIN facts \ {answer} :
             facts[i].hits < facts[answer].hits \/ facts[i].length > facts[answer].length
        /\ TryAnswer(Append(facts, facts[answer]), signals) = 0
=============================================================================
