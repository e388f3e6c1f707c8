----------------------------- MODULE MCServices -----------------------------
(***************************************************************************)
(* Small instances of the services, for TLC.  In each behaviour one        *)
(* service, the part, moves and the others stay where they began: they     *)
(* share no state, so that an interleaving of two shows nothing that the   *)
(* two alone do not, and their state spaces add up instead of multiplying. *)
(* A service may have several parts, each within bounds of its own.        *)
(* The operators that keep no state are parts, too, which take one input.  *)
(***************************************************************************)
EXTENDS Services, MCOperators

VARIABLES part, input

-----------------------------------------------------------------------------
(* One agent, with tools and without; a recall pipeline; chains of two and *)
(* three; three branches; and a compound message longer than a run.        *)
Message(clauses) ==
  [clauses |-> clauses, scores |-> Scores("none"), pinned |-> "none",
   research |-> FALSE, classified |-> "none"]

MCMessages ==
  { Message(<<Clause("none", FALSE)>>),
    [Message(<<Clause("none", FALSE)>>) EXCEPT !.research = TRUE],
    [Message(<<Clause("none", FALSE)>>) EXCEPT !.pinned = "engineer"],
    Message(<<Clause("career", FALSE), Clause("engineer", TRUE)>>),
    Message(<<Clause("career", FALSE), Clause("research", TRUE),
              Clause("engineer", FALSE)>>),
    Message(<<Clause("career", FALSE), Clause("research", FALSE),
              Clause("engineer", FALSE)>>) }

(* One known fact, another that elaborates it.                             *)
MCStored == [m \in {"m1"} |-> "short"]
MCNear == {<<"short", "long">>, <<"long", "short">>}
MCElaborates == {<<"long", "short">>}

(* Tools of a process and of a server behind HTTP, whose keys fall together *)
(* when they are sanitized; entries that are malformed, repeated, disabled. *)
Configuration(server, valid, enabled, process) ==
  [server |-> server, valid |-> valid, enabled |-> enabled, process |-> process]

MCConfigured ==
  << Configuration("a__b", FALSE, TRUE, TRUE), Configuration("a", TRUE, TRUE, TRUE),
     Configuration("a", TRUE, TRUE, FALSE), Configuration("x", TRUE, FALSE, TRUE),
     Configuration("a__b", TRUE, TRUE, FALSE) >>
MCOffers ==
  [s \in {"a", "a__b", "x"} |->
     IF s = "a" THEN <<"read.file", "", "b__c", "read-file">> ELSE <<"c">>]
MCKey(server, tool) ==
  CASE server = "a" /\ tool = "b__c" -> "mcp__a__b__c"
    [] server = "a__b" -> "mcp__a__b__c"
    [] OTHER -> "mcp__a__read_file"
MCListed ==
  [s \in {"a", "a__b", "x"} |-> IF s = "a__b" THEN {"mcp__a__b__c"} ELSE {}]

-----------------------------------------------------------------------------
(* The parts, and the corner of its service's states each keeps to: what   *)
(* is learned in windows of one turn, and from two turns that overlap;     *)
(* enough sessions for a token that two requests exchange, a reset between *)
(* a sign-in and its session, two links; two uploads of the same bytes,    *)
(* and two reindexes of one file; two requests on the milestones of a      *)
(* goal, and on its status and a task.                                     *)
Moving ==
  {"agents", "memories", "windows", "overlaps", "rotations", "resets", "links",
   "channel", "uploads", "reindexes", "milestones", "statuses", "servers"}

OnePassword == \A c \in Caller : call[c].password # "p2"
Edits(op) == \E r \in Request : edit[r].op = op

Corner ==
  CASE part = "windows" -> turns["t2"].stage = "idle"
    [] part = "overlaps" -> asked <= 2
    [] part = "rotations" -> links = << >> /\ OnePassword
    [] part = "resets" -> Len(tokens) <= 2 /\ Len(links) <= 1
    [] part = "links" -> Len(tokens) <= 1 /\ OnePassword
    [] part = "uploads" -> runs <= 2
    [] part = "reindexes" ->
         \A r \in Request : task[r].op # "idle" => task[r].file = "f1"
    [] part = "milestones" -> ~Edits("status") /\ ~Edits("task")
    [] part = "statuses" ->
         /\ writes <= 2 /\ milestones["m2"] = "absent"
         /\ \A r \in Request : edit[r].op = "milestone" => edit[r].on = "m1"
    [] OTHER -> TRUE

MCInit == part \in Moving \cup OperatorParts /\ input = << >> /\ Init

TakesItsInput ==
  /\ part \in OperatorParts /\ input = << >>
  /\ \E in \in Inputs(part) : input' = <<in>>
  /\ UNCHANGED <<part, vars>>

Moves ==
  /\ UNCHANGED <<part, input>>
  /\ \/ part = "agents" /\ AgentsMove
     \/ part = "memories" /\ MemoriesMove
     \/ part \in {"windows", "overlaps"} /\ LearningMoves
     \/ part \in {"rotations", "resets", "links"} /\ SessionsMove
     \/ part = "channel" /\ ChannelMoves
     \/ part \in {"uploads", "reindexes"} /\ FilesMove
     \/ part \in {"milestones", "statuses"} /\ GoalsMove
     \/ part = "servers" /\ ServersMove
  /\ Corner'

MCNext == Moves \/ TakesItsInput

MCSpec == MCInit /\ [][MCNext]_<<part, input, vars>> /\ Memories!Fairness

-----------------------------------------------------------------------------
(* The operators without a state do what their modules say of them, on     *)
(* every input of a bounded size.                                          *)
AllDo(parts) == part \in parts => \A i \in DOMAIN input : DoesItsPart(part, input[i])

(* A compound message is answered by a step for every clause whose         *)
(* specialist is not that of the one before it, in their order and up to   *)
(* the cap, and its steps run side by side only when none depends on an    *)
(* earlier one (router.py, route).                                         *)
RoutesEveryClause == AllDo({"router"})

(* A document is cut, indexed, found and cited without losing a part of it *)
(* or naming a place it does not stand at; and a turn is grounded in what  *)
(* its files say, whichever search breaks down (extraction_service.py,     *)
(* chunking_service.py, hybrid_retrieval.py, file_context_service.py).     *)
FilesGroundTheTurn ==
  AllDo({"extraction", "cutting", "segments", "search", "terms", "attachments",
         "grounding"})


(* A model's text, its stream, its tool calls and its failures are taken   *)
(* for what they are, with the gaps their modules name, and a query is     *)
(* given the vector of its own text (services/llm, services/embeddings).   *)
ModelsAreUnderstood ==
  AllDo({"tokens", "streams", "completions", "toolcalls", "queries"})
=============================================================================
