------------------------------ MODULE Learning ------------------------------
(***************************************************************************)
(* What GUMMY OS learns from the turns of a user.  Every turn counts its   *)
(* message in the user's profile, on the turn's session.  After a turn the *)
(* enrichment worker summarises what the last summary does not cover, and  *)
(* extracts durable facts from what it has not looked at yet.              *)
(*                                                                         *)
(* A message is its number; what can be learned from it is one fact.  The  *)
(* order of messages, the title and the queue's loss are in module Turns,  *)
(* what becomes of a stored fact in module Memories.                       *)
(*                                                                         *)
(* Operators whose name has an underscore are faulty variants of the       *)
(* definition they precede; no specification uses them.                    *)
(***************************************************************************)
EXTENDS Integers, Sequences, FiniteSets

CONSTANTS
  Turn,          \* turns that can be under way together
  MaxMessages,   \* bound on the messages of a behaviour
  MaxDelta,      \* SUMMARY_MAX_DELTA_MESSAGES
  Trigger,       \* SUMMARY_TRIGGER_MESSAGE_COUNT
  MaxFound       \* EXTRACTION_MAX_MEMORIES

VARIABLES
  asked,      \* user messages committed
  profile,    \* message_count of the user_profiles row, -1 without a row
  turns,      \* per turn, its stage and the count it has read
  enrich,     \* jobs in the worker's queue
  consumer,   \* the worker: stage, window, facts left, facts just stored
  summaries,  \* through which message each summary covers
  extracted,  \* last_extracted_seq
  stored,     \* messages whose fact is in memory
  linked,     \* messages whose memory is linked to the conversation
  skipped,    \* messages of which no fact was reported
  refused,    \* messages whose fact the parser or its filters threw away
  beyond,     \* messages whose fact was one too many for its window
  cut,        \* facts, or their links, lost when a window broke off
  crossed     \* how often a message landed while another turn was counting

unlearnt == <<skipped, refused, beyond>>
learned == <<summaries, extracted, stored, linked, unlearnt, cut>>
chat == <<asked, profile, turns, crossed>>
learningVars == <<asked, profile, turns, crossed, enrich, consumer, summaries,
                  extracted, stored, linked, skipped, refused, beyond, cut>>

(* What is assumed of the constants.                                       *)
Assumption ==
  /\ MaxMessages \in Nat /\ MaxDelta \in Nat
  /\ Trigger \in Nat /\ MaxFound \in Nat

Message == 1..MaxMessages
NoProfile == -1
AtRest == [ stage |-> "idle", from |-> 0, to |-> 0, found |-> {}, fresh |-> {},
            refused |-> {}, beyond |-> {} ]
Away == [ stage |-> "idle", seen |-> NoProfile ]

Init ==
  /\ asked = 0 /\ profile = NoProfile
  /\ turns = [t \in Turn |-> Away] /\ crossed = 0
  /\ enrich = 0 /\ consumer = AtRest
  /\ summaries = << >> /\ extracted = 0
  /\ stored = {} /\ linked = {} /\ cut = {}
  /\ skipped = {} /\ refused = {} /\ beyond = {}

-----------------------------------------------------------------------------
(* A turn and the profile.  The turn loads the row, counts its message on  *)
(* the copy, and writes it when the session next flushes; the write holds  *)
(* the row, or its key, until the turn commits.                            *)
Begin(t) ==
  /\ turns[t].stage = "idle"
  /\ turns' = [turns EXCEPT ![t] = [stage |-> "counting", seen |-> profile]]
  /\ UNCHANGED <<asked, profile, crossed, enrich, consumer, learned>>

Held == \E t \in Turn : turns[t].stage = "counted"

CountMessage(t) ==
  /\ turns[t].stage = "counting" /\ ~Held
  /\ turns[t].seen = NoProfile => profile = NoProfile
  /\ turns' = [turns EXCEPT ![t].stage = "counted"]
  /\ UNCHANGED <<asked, profile, crossed, enrich, consumer, learned>>

(* A row that another turn has created since is an error that is caught,   *)
(* but leaves the session unusable: the turn is lost.                      *)
SpoiltByProfile(t) ==
  /\ turns[t].stage = "counting" /\ ~Held
  /\ turns[t].seen = NoProfile /\ profile # NoProfile
  /\ turns' = [turns EXCEPT ![t] = Away]
  /\ UNCHANGED <<asked, profile, crossed, enrich, consumer, learned>>

Count(seen) == IF seen = NoProfile THEN 0 ELSE seen

Counted_NewAtZero(seen) == IF seen = NoProfile THEN 0 ELSE seen + 1

Counted(seen) == IF seen = NoProfile THEN 1 ELSE seen + 1

AtCount(t) == turns[t].stage \in {"counting", "counted"}

Lands(t) ==
  /\ asked < MaxMessages
  /\ asked' = asked + 1
  /\ profile' = Counted(turns[t].seen)
  /\ crossed' = IF \E u \in Turn \ {t} : AtCount(u) THEN crossed + 1 ELSE crossed

(* Message and count land together: in the middle of the turn, when memory *)
(* retrieval commits its session, or at its end.                           *)
CommitMidway(t) ==
  /\ turns[t].stage = "counted" /\ Lands(t)
  /\ turns' = [turns EXCEPT ![t].stage = "landed"]
  /\ UNCHANGED <<enrich, consumer, learned>>

EndTurn(t) ==
  /\ \/ turns[t].stage = "counted" /\ Lands(t)
     \/ turns[t].stage = "landed" /\ UNCHANGED <<asked, profile, crossed>>
  /\ turns' = [turns EXCEPT ![t] = Away]
  /\ enrich' = enrich + 1
  /\ UNCHANGED <<consumer, learned>>

LoseTurn(t) ==
  /\ turns[t].stage # "idle"
  /\ turns' = [turns EXCEPT ![t] = Away]
  /\ UNCHANGED <<asked, profile, crossed, enrich, consumer, learned>>

-----------------------------------------------------------------------------
(* A job of the worker: first the summary, then the extraction, each on a  *)
(* session of its own, so that one failing leaves the other alone.         *)
Smaller(a, b) == IF a < b THEN a ELSE b
Window(from) == Smaller(from + MaxDelta, asked)
Covered == IF summaries = << >> THEN 0 ELSE summaries[Len(summaries)]

TakeJob ==
  /\ consumer.stage = "idle" /\ enrich > 0
  /\ enrich' = enrich - 1
  /\ consumer' = [AtRest EXCEPT !.stage = "summary"]
  /\ UNCHANGED <<chat, learned>>

(* A summary is due by the number of its messages or by their length.      *)
ReadForSummary(long) ==
  LET due == Window(Covered) > Covered
             /\ (long \/ Window(Covered) - Covered >= Trigger)
  IN  /\ consumer.stage = "summary"
      /\ consumer' = IF due THEN [AtRest EXCEPT !.stage = "summarising",
                                      !.from = Covered, !.to = Window(Covered)]
                     ELSE [AtRest EXCEPT !.stage = "extraction"]
      /\ UNCHANGED <<chat, enrich, learned>>

WriteSummary ==
  /\ consumer.stage = "summarising"
  /\ summaries' = Append(summaries, consumer.to)
  /\ consumer' = [AtRest EXCEPT !.stage = "extraction"]
  /\ UNCHANGED <<chat, enrich, extracted, stored, linked, unlearnt, cut>>

SummaryFails ==
  /\ consumer.stage \in {"summary", "summarising"}
  /\ consumer' = [AtRest EXCEPT !.stage = "extraction"]
  /\ UNCHANGED <<chat, enrich, learned>>

ReadForExtraction ==
  /\ consumer.stage = "extraction"
  /\ consumer' = IF Window(extracted) = extracted THEN AtRest
                 ELSE [AtRest EXCEPT !.stage = "extracting",
                          !.from = extracted, !.to = Window(extracted)]
  /\ UNCHANGED <<chat, enrich, learned>>

(* The model's answer.  Facts it reports are thrown away when they cannot  *)
(* be parsed (all of them, at times), say too little, or are of a category *)
(* unknown or sensitive; of the others the first few are taken.  With none *)
(* the watermark is committed by the worker, otherwise with the first fact *)
(* that is stored: then the rest of the window is done with.               *)
Looked == (consumer.from + 1)..consumer.to

FirstFew_OneLess(facts, more) == more # {} => Cardinality(facts) = MaxFound - 1

FirstFew(facts, more) == more # {} => Cardinality(facts) = MaxFound

Apart(A, B, C) == A \cap B = {} /\ A \cap C = {} /\ B \cap C = {}

Pass(facts, discarded, more) ==
  /\ extracted' = consumer.to
  /\ skipped' = skipped \cup (Looked \ (facts \cup discarded \cup more))
  /\ refused' = refused \cup discarded
  /\ beyond' = beyond \cup more

Found(facts, discarded, more) ==
  /\ consumer.stage = "extracting"
  /\ Apart(facts, discarded, more)
  /\ Cardinality(facts) <= MaxFound /\ FirstFew(facts, more)
  /\ IF facts = {}
     THEN /\ Pass(facts, discarded, more)
          /\ consumer' = AtRest
     ELSE /\ UNCHANGED <<extracted, unlearnt>>
          /\ consumer' = [consumer EXCEPT !.stage = "storing", !.found = facts,
                             !.refused = discarded, !.beyond = more]
  /\ UNCHANGED <<chat, enrich, summaries, stored, linked, cut>>

(* Storing a fact commits, and with it the link of the fact before.        *)
Partial == consumer.stage = "storing" /\ extracted = consumer.to

Store(fact) ==
  /\ consumer.stage = "storing" /\ fact \in consumer.found
  /\ IF Partial THEN UNCHANGED <<extracted, unlearnt>>
     ELSE Pass(consumer.found, consumer.refused, consumer.beyond)
  /\ stored' = stored \cup {fact}
  /\ linked' = linked \cup consumer.fresh
  /\ consumer' = [consumer EXCEPT !.found = @ \ {fact}, !.fresh = {fact}]
  /\ UNCHANGED <<chat, enrich, summaries, cut>>

(* All stored: the traits of the profile are derived anew, and only they   *)
(* are written.                                                            *)
FinishExtraction ==
  /\ consumer.stage = "storing" /\ consumer.found = {}
  /\ linked' = linked \cup consumer.fresh
  /\ consumer' = AtRest
  /\ UNCHANGED <<chat, enrich, summaries, extracted, stored, unlearnt, cut>>

(* A failure of the model or of the first fact leaves the window to the    *)
(* next job.  After the first fact the watermark is past the window.       *)
Abandon ==
  /\ cut' = IF Partial THEN cut \cup consumer.found \cup consumer.fresh ELSE cut
  /\ UNCHANGED <<summaries, stored, linked, unlearnt>>

AfterFailure_Skipping ==
  IF consumer.stage = "extracting" THEN consumer.to ELSE extracted

AfterFailure == extracted

ExtractionFails ==
  /\ consumer.stage \in {"extraction", "extracting", "storing"}
  /\ extracted' = AfterFailure
  /\ Abandon
  /\ consumer' = AtRest
  /\ UNCHANGED <<chat, enrich>>

Restart ==
  /\ turns' = [t \in Turn |-> Away]
  /\ enrich' = 0 /\ consumer' = AtRest
  /\ Abandon
  /\ UNCHANGED <<asked, profile, crossed, extracted>>

-----------------------------------------------------------------------------
Next ==
  \/ \E t \in Turn : Begin(t) \/ CountMessage(t) \/ SpoiltByProfile(t)
                       \/ CommitMidway(t) \/ EndTurn(t) \/ LoseTurn(t)
  \/ TakeJob \/ (\E long \in BOOLEAN : ReadForSummary(long))
  \/ WriteSummary \/ SummaryFails
  \/ ReadForExtraction
  \/ \E facts, discarded, more \in SUBSET Looked : Found(facts, discarded, more)
  \/ (\E fact \in Message : Store(fact)) \/ FinishExtraction \/ ExtractionFails
  \/ Restart

Spec == Init /\ [][Next]_learningVars

-----------------------------------------------------------------------------
TypeOK ==
  /\ asked \in 0..MaxMessages /\ profile \in NoProfile..MaxMessages
  /\ turns \in [Turn -> [ stage : {"idle", "counting", "counted", "landed"},
                          seen : NoProfile..MaxMessages ]]
  /\ crossed \in 0..MaxMessages
  /\ enrich \in Nat
  /\ consumer \in
       [ stage : {"idle", "summary", "summarising", "extraction", "extracting",
                  "storing"},
         from : 0..MaxMessages, to : 0..MaxMessages, found : SUBSET Message,
         fresh : SUBSET Message, refused : SUBSET Message,
         beyond : SUBSET Message ]
  /\ summaries \in Seq(Message) /\ extracted \in 0..MaxMessages
  /\ \A known \in {stored, linked, skipped, refused, beyond, cut} :
       known \subseteq Message

(* What becomes of every message.  The watermark is past a message only if *)
(* its fact is stored or being stored, or is given up in one of the ways   *)
(* the code has: the model reported none, the parser or a filter refused   *)
(* it, its window had as many facts without it as are taken of one, or the *)
(* storing of its window broke off after the first fact.  Every memory is  *)
(* linked to the conversation but the last of such a window; a summary     *)
(* covers more than the one before, and nothing uncommitted; and the       *)
(* profile counts every message but, at most, one for each that landed     *)
(* while another turn was counting.                                        *)
InHand == IF consumer.stage = "storing" THEN consumer.found ELSE {}
Facts == stored \cup cut \cup InHand
Nearby(m) == {n \in Facts : n - m < MaxDelta /\ m - n < MaxDelta}

LearnsFromEveryTurn ==
  /\ extracted <= asked
  /\ 1..extracted \subseteq Facts \cup skipped \cup refused \cup beyond
  /\ \A m \in beyond : Cardinality(Nearby(m)) >= MaxFound
  /\ stored \subseteq 1..extracted
  /\ stored \ linked \subseteq cut \cup consumer.fresh
  /\ \A k \in DOMAIN summaries :
       summaries[k] <= asked /\ (k > 1 => summaries[k] > summaries[k - 1])
  /\ Count(profile) <= asked /\ asked <= Count(profile) + crossed
=============================================================================
