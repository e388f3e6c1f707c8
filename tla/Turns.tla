-------------------------------- MODULE Turns --------------------------------
(***************************************************************************)
(* The turns of one conversation of GUMMY OS, several of them at once: two *)
(* tabs, a client that retries, a Telegram message beside the web client.  *)
(* A turn stores the user's message, gets a reply (from memory, from an    *)
(* orchestrated run, or from the fallback), stores it, and commits.        *)
(*                                                                         *)
(* A turn works in a transaction of its own, which other turns do not see. *)
(* Not all of it is one transaction: recalled memories are reinforced, and *)
(* some tools work, by committing the session they are given, with what    *)
(* the turn has in it by then.  Such a turn is called torn here.           *)
(*                                                                         *)
(* Operators whose name has an underscore are faulty variants of the       *)
(* definition they precede; no specification uses them.                    *)
(***************************************************************************)
EXTENDS Integers, FiniteSets, FiniteSetsExt

CONSTANTS
  Turns,      \* turn requests of the conversation
  Streamed,   \* those that stream their reply (stream_turn, else run_turn)
  MaxDeaths   \* bound: how many turns are cancelled or killed

ASSUME StreamedAssumption == Streamed \subseteq Turns
ASSUME MaxDeathsAssumption == MaxDeaths \in Nat

(* A reply comes from memory, from the run, or from the fallback; "standin" *)
(* is the sentence a run that said nothing leaves in place of a reply.     *)
Replies == {"recall", "agent", "standin", "fallback"}
Titles == {"none", "auto", "user"}
RunStatuses == {"none", "running", "succeeded", "failed"}

(* Rows of messages of the conversation.                                   *)
Message == [ seq : Nat \ {0}, turn : Turns, text : {"question"} \cup Replies ]

(* A turn at work: where it is, whether it found the conversation empty,   *)
(* the title it loaded, a number it has read, what it has inserted since   *)
(* its last commit, its run as its session has it, its reply, and what its *)
(* client has been shown: deltas without text or with some, or a reply.    *)
Partial == {"empty", "part"}
Ended == {"done", "failed", "died"}
Stages ==
  {"idle", "opened", "asking", "asked", "retrieving", "answering", "fallback",
   "grounded", "answered", "replying", "replied", "counted", "saved"} \cup Ended
Turn ==
  [ stage : Stages, first : BOOLEAN, title : Titles, number : Nat,
    unsaved : SUBSET Message, run : RunStatuses,
    text : Replies \cup {"none"}, shown : Replies \cup {"none"} \cup Partial ]

VARIABLES
  message, run, count, title,  \* messages, agent_runs, the conversation's row
  turn,                        \* per turn: its progress and its session
  jobs, worker,                \* the enrichment queue, and the worker
  torn, dropped                \* history: turns that committed half way, and
                               \* whether a job was ever lost

conversation == <<message, run, count, title>>
enrichment == <<jobs, worker, dropped>>
vars == <<conversation, turn, enrichment, torn>>

NewTurn ==
  [ stage |-> "idle", first |-> FALSE, title |-> "none", number |-> 0,
    unsaved |-> {}, run |-> "none", text |-> "none", shown |-> "none" ]

Init ==
  /\ message = {} /\ count = 0 /\ title = "none"
  /\ run = [t \in Turns |-> "none"]
  /\ turn = [t \in Turns |-> NewTurn]
  /\ jobs = {} /\ worker = "idle" /\ dropped = FALSE
  /\ torn = {}

At(t, stage) == turn[t].stage = stage
Visible(t) == message \cup turn[t].unsaved
Seqs(rows) == {m.seq : m \in rows}
Questions(t) == {m \in message : m.turn = t /\ m.text = "question"}
Answers(t) == {m \in message : m.turn = t /\ m.text \in Replies}

-----------------------------------------------------------------------------
(* Transactions.  A commit half way makes what the turn has inserted so    *)
(* far visible, with its run as it stands.  A session that fails or dies   *)
(* loses what it had not committed.                                        *)

CommitHalfWay(t, stage) ==
  /\ message' = Visible(t)
  /\ run' = [run EXCEPT ![t] = turn[t].run]
  /\ turn' = [turn EXCEPT ![t].stage = stage, ![t].unsaved = {}]
  /\ torn' = torn \cup {t}
  /\ UNCHANGED <<count, title, enrichment>>

Over(t, stage) == [NewTurn EXCEPT !.stage = stage, !.shown = turn[t].shown]

Rollback_Leaks(t, stage) ==
  /\ turn' = [turn EXCEPT ![t].stage = stage]
  /\ UNCHANGED <<conversation, enrichment, torn>>

Rollback(t, stage) ==
  /\ turn' = [turn EXCEPT ![t] = Over(t, stage)]
  /\ UNCHANGED <<conversation, enrichment, torn>>

Move(t, change) ==
  /\ turn' = [turn EXCEPT ![t] = change]
  /\ UNCHANGED <<conversation, enrichment, torn>>

-----------------------------------------------------------------------------
(* The conversation is loaded once; its row in the session is not read     *)
(* again.                                                                  *)
Open(t) ==
  /\ At(t, "idle")
  /\ Move(t, [turn[t] EXCEPT !.stage = "opened", !.first = (message = {}),
                             !.title = title])

(* append_message: read the largest number the session sees, then insert.  *)
(* The insert waits for another session that has inserted that number and  *)
(* not committed; it fails when the number is taken for good.              *)

NextSeq_CommittedOnly(t) == Max({0} \cup Seqs(message)) + 1

NextSeq(t) == Max({0} \cup Seqs(Visible(t))) + 1

Number(t) ==
  /\ turn[t].stage \in {"opened", "answered"}
  /\ Move(t, [turn[t] EXCEPT !.number = NextSeq(t),
       !.stage = IF @ = "opened" THEN "asking" ELSE "replying"])

Held_NotSeen(t) == FALSE

Held(t) == \E u \in Turns \ {t} : turn[t].number \in Seqs(turn[u].unsaved)

Taken_NoConstraint(t) == FALSE

Taken(t) == turn[t].number \in Seqs(Visible(t))

Row(t) ==
  [ seq |-> turn[t].number, turn |-> t,
    text |-> IF At(t, "asking") THEN "question" ELSE turn[t].text ]

Insert(t) ==
  /\ turn[t].stage \in {"asking", "replying"}
  /\ ~Held(t) /\ ~Taken(t)
  /\ Move(t, [turn[t] EXCEPT !.unsaved = @ \cup {Row(t)},
       !.stage = IF @ = "asking" THEN "asked" ELSE "replied"])

Collide(t) ==
  /\ turn[t].stage \in {"asking", "replying"}
  /\ ~Held(t) /\ Taken(t)
  /\ Rollback(t, "failed")

-----------------------------------------------------------------------------
(* Getting a reply.  What a client that streams has been shown grows; one  *)
(* that does not is shown nothing before the end.                          *)

Shown(t, text) == IF t \in Streamed THEN text ELSE turn[t].shown

(* instant recall: an answer from a stored fact, without a run.            *)
Recall(t) ==
  /\ At(t, "asked")
  /\ Move(t, [turn[t] EXCEPT !.stage = "answered", !.text = "recall",
                             !.shown = Shown(t, "recall")])

RouteFails(t) ==
  /\ At(t, "asked")
  /\ Move(t, [turn[t] EXCEPT !.stage = "fallback"])

OpenRun(t) ==
  /\ At(t, "asked")
  /\ Move(t, [turn[t] EXCEPT !.stage = "retrieving", !.run = "running"])

(* context_builder.build: memories that are relevant are reinforced, and   *)
(* the reinforcement is committed.                                         *)
Retrieve(t) ==
  /\ At(t, "retrieving")
  /\ \/ CommitHalfWay(t, "answering")
     \/ Move(t, [turn[t] EXCEPT !.stage = "answering"])

(* A tool of the agent commits the session it was given (automation_create *)
(* and memory_read do).  Tools run before any of the reply is shown.       *)
ToolCommits(t) ==
  /\ At(t, "answering") /\ turn[t].shown = "none"
  /\ CommitHalfWay(t, "answering")

(* A delta may be without text: that of a tool loop that ends in silence.  *)
ShowDelta(t) ==
  /\ At(t, "answering") /\ t \in Streamed
  /\ \E delta \in Partial :
       Move(t, [turn[t] EXCEPT !.shown = IF @ = "part" THEN @ ELSE delta])

RunSucceeds_StaysOpen(t) ==
  /\ At(t, "answering")
  /\ Move(t, [turn[t] EXCEPT !.stage = "answered", !.text = "agent",
                             !.shown = Shown(t, "agent")])

RunSucceeds(t) ==
  /\ At(t, "answering")
  /\ Move(t, [turn[t] EXCEPT !.stage = "answered", !.run = "succeeded",
                             !.text = "agent", !.shown = Shown(t, "agent")])

(* The model said nothing: the run succeeds, and compose_reply puts a      *)
(* sentence in the reply's place, which no delta carries.                  *)
RunIsSilent(t) ==
  /\ At(t, "answering") /\ turn[t].shown # "part"
  /\ Move(t, [turn[t] EXCEPT !.stage = "answered", !.run = "succeeded",
                             !.text = "standin"])

RunFails_StaysOpen(t) ==
  /\ turn[t].stage \in {"retrieving", "answering"}
  /\ Move(t, [turn[t] EXCEPT !.stage = "fallback"])

RunFails(t) ==
  /\ turn[t].stage \in {"retrieving", "answering"}
  /\ Move(t, [turn[t] EXCEPT !.stage = "fallback", !.run = "failed"])

(* generate_grounded_reply, the fallback: its retrieval commits as well.   *)
Ground(t) ==
  /\ At(t, "fallback")
  /\ \/ CommitHalfWay(t, "grounded")
     \/ Move(t, [turn[t] EXCEPT !.stage = "grounded"])

FallbackShown_Silent(t) == turn[t].shown

FallbackShown(t) ==
  IF turn[t].shown = "none" THEN Shown(t, "fallback") ELSE turn[t].shown

FallbackAnswers(t) ==
  /\ At(t, "grounded")
  /\ Move(t, [turn[t] EXCEPT !.stage = "answered", !.text = "fallback",
                             !.shown = FallbackShown(t)])

FallbackFails(t) ==
  /\ turn[t].stage \in {"fallback", "grounded"}
  /\ Rollback(t, "failed")

-----------------------------------------------------------------------------
(* The end of a turn: the messages are counted, the conversation's row is  *)
(* touched, a first turn tries to title the thread it loaded untitled, and *)
(* all is committed.  Then the turn is queued for enrichment.              *)

Messages_WithoutReply(t) == Cardinality(Visible(t)) - 1

Messages(t) == Cardinality(Visible(t))

CountMessages(t) ==
  /\ At(t, "replied")
  /\ Move(t, [turn[t] EXCEPT !.stage = "counted", !.number = Messages(t)])

InlineTitle_Always(t) == IF turn[t].first THEN {title, "auto"} ELSE {title}

InlineTitle(t) ==
  IF turn[t].first /\ turn[t].title = "none" THEN {title, "auto"} ELSE {title}

Commit(t) ==
  /\ At(t, "counted")
  /\ message' = Visible(t)
  /\ run' = [run EXCEPT ![t] = turn[t].run]
  /\ count' = turn[t].number
  /\ title' \in InlineTitle(t)
  /\ turn' = [turn EXCEPT ![t].stage = "saved", ![t].unsaved = {}]
  /\ UNCHANGED <<enrichment, torn>>

Queued_FirstTurns(t) == IF turn[t].first THEN {t} ELSE {}

Queued(t) == {t}

Finish(t) ==
  /\ At(t, "saved")
  /\ jobs' = jobs \cup Queued(t)
  /\ turn' = [turn EXCEPT ![t] = [Over(t, "done") EXCEPT !.shown =
       IF t \in Streamed THEN @ ELSE turn[t].text]]
  /\ UNCHANGED <<conversation, worker, dropped, torn>>

(* The client goes away, the process dies, or the database fails.  With the *)
(* process, the queue of the worker is lost as well (LoseQueue below).     *)
Die(t) ==
  /\ turn[t].stage \notin {"idle"} \cup Ended
  /\ Cardinality({u \in Turns : At(u, "died")}) < MaxDeaths
  /\ Rollback(t, "died")

-----------------------------------------------------------------------------
(* The user renames the thread, and the enrichment worker titles one that  *)
(* it finds untitled, some time after it looked.                           *)

Rename ==
  /\ title' = "user"
  /\ UNCHANGED <<message, run, count, turn, enrichment, torn>>

TakeJob(t) ==
  /\ worker = "idle" /\ t \in jobs
  /\ jobs' = jobs \ {t}
  /\ worker' = IF title = "none" THEN "titling" ELSE "idle"
  /\ UNCHANGED <<conversation, dropped, turn, torn>>

WriteTitle ==
  /\ worker = "titling"
  /\ worker' = "idle"
  /\ title' = "auto"
  /\ UNCHANGED <<message, run, count, jobs, dropped, turn, torn>>

DropJob ==
  /\ worker = "titling"
  /\ worker' = "idle"
  /\ dropped' = TRUE
  /\ UNCHANGED <<conversation, jobs, turn, torn>>

LoseQueue ==
  /\ jobs # {} \/ worker # "idle"
  /\ jobs' = {} /\ worker' = "idle" /\ dropped' = TRUE
  /\ UNCHANGED <<conversation, turn, torn>>

-----------------------------------------------------------------------------
Reply(t) ==
  \/ Recall(t) \/ RouteFails(t) \/ OpenRun(t)
  \/ Retrieve(t) \/ ToolCommits(t) \/ ShowDelta(t)
  \/ RunSucceeds(t) \/ RunIsSilent(t) \/ RunFails(t)
  \/ Ground(t) \/ FallbackAnswers(t) \/ FallbackFails(t)

Step(t) ==
  \/ Number(t) \/ Insert(t) \/ Collide(t)
  \/ Reply(t)
  \/ CountMessages(t) \/ Commit(t) \/ Finish(t)

Work == (\E t \in Turns : TakeJob(t)) \/ WriteTitle \/ DropJob

Next ==
  \/ \E t \in Turns : Open(t) \/ Step(t) \/ Die(t)
  \/ Rename
  \/ Work \/ LoseQueue

Spec == Init /\ [][Next]_vars

(* The event loop runs every request that is under way, remote calls end   *)
(* (they have timeouts), and the worker drains its queue.  Nobody has to   *)
(* open a turn, rename or die.                                             *)
FairSpec ==
  /\ Spec
  /\ \A t \in Turns : WF_vars(Step(t))
  /\ WF_vars(Work)

-----------------------------------------------------------------------------
(* Types (models/message.py, models/agent_run.py, models/conversation.py). *)
TypeOK ==
  /\ message \subseteq Message
  /\ run \in [Turns -> RunStatuses]
  /\ count \in Nat /\ title \in Titles
  /\ turn \in [Turns -> Turn]
  /\ jobs \subseteq Turns /\ worker \in {"idle", "titling"}
  /\ torn \subseteq Turns /\ dropped \in BOOLEAN

(* At most one turn at a time has messages of the conversation that are    *)
(* not committed: the numbers, with their unique constraint, work as a     *)
(* lock, held from the question to the next commit, model calls included.  *)
OneWriter ==
  \A t, u \in Turns : t # u => turn[t].unsaved = {} \/ turn[u].unsaved = {}

(* A turn is stored as a whole or not at all: when nothing committed it    *)
(* half way, it has no message and no run in the database, or a question   *)
(* with its reply right behind it and no run left open.                    *)
WholeUnlessTorn ==
  \A t \in Turns \ torn :
    \/ Questions(t) = {} /\ Answers(t) = {} /\ run[t] = "none"
    \/ /\ run[t] # "running"
       /\ \E q \in Questions(t), a \in Answers(t) :
            /\ Questions(t) = {q} /\ Answers(t) = {a}
            /\ a.seq = q.seq + 1

(* A stored reply comes after its question, and the trace that is stored   *)
(* with it tells where it came from: from a run that succeeded, from the   *)
(* fallback after a run that failed or was never opened, or from memory.   *)
(* A run stored as succeeded has its reply stored.                         *)
RepliesMatchTheirTrace ==
  \A t \in Turns :
    /\ \A a \in Answers(t) :
         /\ \E q \in Questions(t) : q.seq < a.seq
         /\ \/ a.text \in {"agent", "standin"} /\ run[t] = "succeeded"
            \/ a.text = "fallback" /\ run[t] \in {"none", "failed"}
            \/ a.text = "recall" /\ run[t] = "none"
    /\ run[t] = "succeeded" => Answers(t) # {}

(* When a turn is over, what its client was shown is the reply that is     *)
(* stored, with two exceptions: a client that was cut off by a failing run *)
(* keeps the deltas of that run, and one that streams a run that says      *)
(* nothing sees nothing of the sentence stored for it.                     *)
ShownIsStored ==
  \A t \in Turns : At(t, "done") =>
    \E a \in Answers(t) :
      \/ turn[t].shown = a.text
      \/ turn[t].shown \in Partial /\ a.text = "fallback"
      \/ t \in Streamed /\ turn[t].shown \in {"none", "empty"} /\ a.text = "standin"

(* A client that was shown a whole reply keeps it, unless the request dies *)
(* or the turn was committed half way: then another turn can take the      *)
(* reply's number, and the insert of the reply fails.                      *)
ShownRepliesAreKept ==
  \A t \in Turns : At(t, "failed") /\ turn[t].shown \in Replies => t \in torn

(* conversations.message_count is the number of messages up to the last    *)
(* reply, whatever overlapping turns counted.                              *)
CountReachesTheLastReply ==
  LET replies == UNION {Answers(t) : t \in Turns}
  IN count = Max({0} \cup Seqs(replies))

(* The stored messages are an append-only log, numbered 1, 2, 3 ... in the *)
(* order in which they were committed.                                     *)
Log ==
  [ i \in 1..Max({0} \cup Seqs(message)) |->
      LET m == CHOOSE m \in message : m.seq = i
      IN [turn |-> m.turn, text |-> m.text] ]

T == INSTANCE Transcript WITH log <- Log

ImplementsTranscript == T!Spec

(* A turn that was started ends: turns that wait for each other's numbers  *)
(* never wait in a circle.                                                 *)
EveryTurnEnds ==
  \A t \in Turns : At(t, "opened") ~> turn[t].stage \in Ended

(* A conversation with a finished turn does not stay untitled, even when   *)
(* its first turn died and left only a question (unless a job was lost, in *)
(* a restart or because the worker failed on it: jobs are not retried).    *)
ThreadsGetTitled ==
  (\E t \in Turns : At(t, "done")) ~> (title # "none" \/ dropped)

(* A title the user has given stays, once nobody who had found the thread  *)
(* untitled before is still at work: only such a turn, or the worker, can  *)
(* overwrite it.                                                           *)
TitleSettled ==
  /\ title = "user" /\ worker = "idle"
  /\ \A t \in Turns : turn[t].first => turn[t].title # "none"

UserTitlesStick == [][TitleSettled => TitleSettled']_vars

(* What the docstrings of agent_run_repository.py and orchestrate_stream   *)
(* say: the trace of a run lands with the messages of its turn.            *)
TraceLandsWithTheMessages ==
  \A t \in Turns : run[t] # "none" => Questions(t) # {} /\ Answers(t) # {}

(* What stream_turn says of its fallback: nothing has been emitted yet.    *)
NothingShownBeforeFallback ==
  \A t \in Turns :
    turn[t].stage \in {"fallback", "grounded"} => turn[t].shown = "none"
=============================================================================
