---------------------------- MODULE MCOperators -----------------------------
(***************************************************************************)
(* The operators that keep no state, on every input of a bounded size.     *)
(***************************************************************************)
EXTENDS Integers, Sequences, FiniteSets

SeqsTo(n, S) == UNION {[1..k -> S] : k \in 0..n}

Router == INSTANCE Router
Extraction == INSTANCE Extraction WITH CSV_ROWS_PER_SEGMENT <- 2
Documents == INSTANCE Documents WITH
  Candidates <- 2, MinSimilarity <- 50, MaxSearchLimit <- 3, Multiplier <- 2
Knowledge == INSTANCE Knowledge WITH
  RETRIEVAL_CANDIDATE_MULTIPLIER <- 2, KNOWLEDGE_MAX_MEMORIES <- 1,
  DEFAULT_CONTEXT_MAX_MEMORIES <- 2
Evidence == INSTANCE Evidence WITH
  RETRIEVAL_CANDIDATE_MULTIPLIER <- 2, KNOWLEDGE_MAX_MEMORIES <- 1,
  DEFAULT_CONTEXT_MAX_MEMORIES <- 2, Limit <- 2
Providers == INSTANCE Providers WITH QUERY_CACHE_MAX_ENTRIES <- 2

-----------------------------------------------------------------------------
(* Compound messages, for the router.                                      *)
Scores(agent) ==
  [a \in Router!SpecialistKeys |-> IF a = agent THEN 1 ELSE 0]
Clause(agent, dependent) ==
  [scores |-> Scores(agent), dependent |-> dependent]
Clauses ==
  {Clause(agent, dependent) :
     agent \in {"none", "career", "research", "engineer"},
     dependent \in BOOLEAN}
CompoundMessages == UNION {[1..n -> Clauses] : n \in 2..4}

(* Files to take apart: of up to five parts, enough for three row groups.  *)
Parts == {part \in [ink : BOOLEAN, heading : BOOLEAN] : part.heading => part.ink}
Uploaded ==
  [format : Extraction!Formats, readable : BOOLEAN, parts : SeqsTo(5, Parts)]

(* Texts to cut into windows that overlap, and documents of two segments   *)
(* with no header, a short one, and one that leaves no room.               *)
Texts(n) == SeqsTo(n, {" ", "x"})
Cuts == {cut \in [text : Texts(7), size : 1..4, overlap : 0..3] :
           cut.overlap < cut.size}
Segments == SeqsTo(2, [content : Texts(3), header : {0, 1, 3}])

(* What the index holds of three chunks of two files: without a vector,    *)
(* too far from the query, or near, one perhaps not mine; and of four, by  *)
(* two words.                                                              *)
Rows == [mine : BOOLEAN, similarity : {-1, 40, 60}, words : 0..2]
Indexed(rows) ==
  [c \in DOMAIN rows |->
     [file |-> IF c = 3 THEN 2 ELSE 1, place |-> c, mine |-> rows[c].mine,
      similarity |-> rows[c].similarity, words |-> rows[c].words, terms |-> {}]]
Worded(terms) ==
  [c \in DOMAIN terms |->
     [file |-> IF c > 2 THEN 2 ELSE 1, place |-> c, mine |-> c # 3,
      similarity |-> 60, words |-> Cardinality(terms[c]), terms |-> terms[c]]]
Question(outcome, terms) ==
  [outcome |-> outcome, embedded |-> TRUE, terms |-> terms]
Outcomes == {"answered", "broken", "aborted"}
Attachments ==
  [mine : [{"f1", "f2"} -> 0..2], attached : SeqsTo(3, {"f1", "f2", "f3"})]
Groundings ==
  [terms : [1..2 -> SUBSET {"t1"}], outcome : Outcomes,
   mine : [{"f1", "f2"} -> 0..1], attached : SeqsTo(2, {"f1", "f2", "f3"}),
   inventory : {<< >>, <<"f1">>}, outage : {"none", "list", "excerpts"}]

(* Pools of memories that differ in every signal, one of them irrelevant.  *)
Recalled(similarity, importance, recency, text) ==
  [similarity |-> similarity, importance |-> importance, recency |-> recency,
   confidence |-> importance, text |-> text, cost |-> 1]
Pools ==
  SeqsTo(3, {Recalled(s, i, r, t) : s \in {50, 90}, i \in {10, 90}, r \in {10, 90},
                                  t \in {"a", "b"}}
            \cup {Recalled(40, 90, 90, "a")})

(* Contexts whose scores lie on both sides of each other's.                *)
Entry(text) == [text |-> text, cost |-> 1]
Remembered(score) == [score |-> score, text |-> "m", cost |-> 1]
Goal(priority, days) ==
  [priority |-> priority, days |-> days, text |-> "g", cost |-> 1]
Contexts ==
  [memories : {<< >>} \cup {<<Remembered(a), Remembered(b)>> :
                              a \in {2000, 10000}, b \in {2999, 6000}},
   goals : {<< >>} \cup {<<Goal(p, d)>> :
                           p \in {"low", "medium", "high"}, d \in {-3, 10, 30}},
   files : {[i \in 1..n |-> Entry("f")] : n \in {0, 3, 8}},
   attached : BOOLEAN, inventory : {0},
   search : SeqsTo(2, [text : {"s"}, cost : {1}, named : BOOLEAN])]

(* Items to pack into a budget of five; sources that break down, and pools *)
(* of which the agent looks at four memories and the core at two.          *)
Packable ==
  SeqsTo(3, [source : {"memory", "file"}, text : {"a", "b"}, cost : {1, 2, 4},
             native : {0}, rank : {0}])
Alike ==
  <<Recalled(90, 10, 10, "a"), Recalled(85, 10, 10, "b"), Recalled(70, 90, 90, "a"),
    Recalled(65, 90, 90, "d"), Recalled(60, 90, 10, "c")>>
SomeAlike ==
  {SelectSeq(Alike, LAMBDA m : m \in S) :
     S \in {S \in SUBSET {Alike[i] : i \in 1..5} : Cardinality(S) \in {0, 3, 4}}}
Knowable ==
  [memories : SomeAlike, goals : SeqsTo(1, {Goal("low", 3)}),
   tasks : SeqsTo(1, {"task"}), files : SeqsTo(1, {Entry("f")}),
   inventory : {0, 2}, attached : BOOLEAN, foreign : BOOLEAN]
Outages ==
  [known : Knowable, broken : SUBSET {"memory", "goal", "task", "file"},
   aborted : BOOLEAN]
Facts == SeqsTo(3, [hits : 0..3, length : {20, 80, 100, 400}])

(* Hits: one page twice over, one title twice on a site, and one useless.  *)
Hit(page, title, cost) ==
  [page |-> page, site |-> "s", title |-> title, cost |-> cost]
Hits == {Hit("p", "t", 1), Hit("q", "t", 1), Hit("r", "u", 2), Hit("", "v", 1)}
Packs ==
  {[memories |-> memories, goals |-> << >>, files |-> << >>, attached |-> FALSE,
    search |-> << >>, inventory |-> 3 * Len(memories)] :
     memories \in SeqsTo(1, {[score |-> 6000, text |-> "m", cost |-> 2]})}
Searches ==
  [config : [enabled : BOOLEAN, keyed : BOOLEAN], may : BOOLEAN,
   question : [fresh : BOOLEAN, cued : BOOLEAN],
   provider : [fails : BOOLEAN, hits : SeqsTo(3, Hits)], pack : Packs]

(* Completions, streams, tool calls and queries.                           *)
Tokens == {"<think>", "</think>", "word"}
Streams ==
  [lines : SeqsTo(3, {line \in [text : SeqsTo(1, Tokens), failed : BOOLEAN,
                                  done : BOOLEAN] : line.failed => line.text = << >>}),
   ending : Providers!Exchanges]
Completions ==
  [llm : Providers!LLM, keyed : BOOLEAN, exchange : Providers!Exchanges,
   tokens : SeqsTo(2, Tokens)]
Entries ==
  SeqsTo(3, {entry \in [name : {"", "a"},
                         id : {<<"none", 0>>, <<"own", 1>>, <<"own", 2>>, <<"call", 1>>},
                         arguments : {"object", "text of one", "neither"}] :
               entry.name = "" => entry.arguments = "neither"})
Queries ==
  {[text |-> t, width |-> w, exchange |-> "answered"] :
     t \in {"a", "b", "c"}, w \in {2, 3}}
  \cup {[text |-> "a", width |-> 2, exchange |-> "dropped"]}
Config(provider, keyed) ==
  [provider |-> provider, keyed |-> keyed, dimension |-> 2]
Asked ==
  [config : {Config("ollama", FALSE)}, queries : SeqsTo(4, Queries)]
  \cup [config : {Config("openai", TRUE), Config("openai", FALSE), Config("hf", FALSE)},
        queries : SeqsTo(3, Queries)]

-----------------------------------------------------------------------------
OperatorParts ==
  {"router", "extraction", "cutting", "segments", "search", "terms",
   "attachments", "grounding", "recall", "reinforcement", "ranking", "packing",
   "retrieval", "facts", "evidence", "tokens", "streams", "completions",
   "toolcalls", "queries"}

Inputs(part) ==
  CASE part = "router" -> CompoundMessages
    [] part = "extraction" -> Uploaded
    [] part = "cutting" -> Cuts
    [] part = "segments" -> Segments
    [] part = "search" -> {rows \in [1..3 -> Rows] : rows[1].mine /\ rows[2].mine}
    [] part = "terms" -> [1..4 -> SUBSET {"t1", "t2"}]
    [] part = "attachments" -> Attachments
    [] part = "grounding" -> Groundings
    [] part = "recall" -> Pools
    [] part = "reinforcement" -> {0, 500000, 990000, 1000000}
    [] part = "ranking" -> Contexts
    [] part = "packing" -> Packable
    [] part = "retrieval" -> Outages
    [] part = "facts" -> Facts
    [] part = "evidence" -> Searches
    [] part = "tokens" -> SeqsTo(7, Tokens)
    [] part = "streams" -> Streams
    [] part = "completions" -> Completions
    [] part = "toolcalls" -> Entries
    [] part = "queries" -> Asked

(* What is said of each, stated in its module.                             *)
DoesItsPart(part, in) ==
  CASE part = "router" -> Router!FollowsItsClauses(in)
    [] part = "extraction" -> Extraction!CitesWhereItStands(in)
    [] part = "cutting" -> Documents!CutsWhole(in.text, in.size, in.overlap)
    [] part = "segments" ->
         \A overlap \in {0, 2} : Documents!CitesOneSegment(in, 3, overlap)
    [] part = "search" ->
         \A embedded, wordy \in BOOLEAN, limit \in 1..2 :
           Documents!FindsWithReason(Indexed(in), embedded, wordy, limit)
    [] part = "terms" ->
         \A outcome \in Outcomes, limit \in 1..2 :
           Documents!FallsBack(Worded(in), Question(outcome, {"t1", "t2"}), limit)
    [] part = "attachments" ->
         \A limit \in 1..4 :
           Documents!GroundsAttachments(in.mine, in.attached, limit)
    [] part = "grounding" ->
         \A asked \in SUBSET {"t1"} :
           Documents!GroundsTheTurn(Worded(in.terms), Question(in.outcome, asked),
             in.mine, in.attached, in.inventory, in.outage, 2)
    [] part = "recall" ->
         \A limit \in 1..2 : Knowledge!RetrievesTheRelevant(in, 45, limit)
    [] part = "reinforcement" -> Knowledge!ReinforcesOnce(in, 5, 3)
    [] part = "ranking" -> Knowledge!RanksFairly(in)
    [] part = "packing" ->
         \A inventory \in {0, 6} : Knowledge!PacksWhatFits(in, inventory, 5)
    [] part = "retrieval" ->
         /\ Knowledge!DegradesGracefully(in.known, in.broken, in.aborted)
         /\ Knowledge!PacksAgree(in.known, in.broken)
    [] part = "facts" -> \A signals \in 3..6 : Knowledge!AnswersClearly(in, signals)
    [] part = "evidence" ->
         \A budget \in {3, 9}, admitted \in BOOLEAN :
           Evidence!HonestAboutNow(in.config, in.may, in.question, in.provider,
                                   in.pack, budget, admitted)
    [] part = "tokens" -> Providers!SaysTheAnswer(in)
    [] part = "streams" -> Providers!StreamsTheReply(in.lines, in.ending)
    [] part = "completions" ->
         Providers!FailsInItsTerms(in.llm, in.keyed, in.exchange, in.tokens)
    [] part = "toolcalls" -> Providers!CallsArePaired(in)
    [] part = "queries" -> Providers!RemembersQueries(in.config, in.queries)
=============================================================================
