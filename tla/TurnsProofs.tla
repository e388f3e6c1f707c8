----------------------------- MODULE TurnsProofs -----------------------------
(***************************************************************************)
(* Proofs about Turns, for any set of turns, any part of them streamed,    *)
(* and any number of turns that die.  From PACKING on, the sections are    *)
(* about what a turn computes on the way: what of the knowledge there is   *)
(* it retrieves, ranks and packs into its prompt, and what a provider's    *)
(* answer comes to.                                                        *)
(***************************************************************************)
EXTENDS Turns, FiniteSetTheorems, SequenceTheorems, TLAPS

(* What a turn computes on the way.  Evidence extends Knowledge.           *)
CONSTANTS RETRIEVAL_CANDIDATE_MULTIPLIER, KNOWLEDGE_MAX_MEMORIES,
          DEFAULT_CONTEXT_MAX_MEMORIES, QUERY_CACHE_MAX_ENTRIES, Limit
Knowledge == INSTANCE Evidence
Providers == INSTANCE Providers

(* The largest of the numbers 1..n, or 0, is n.                            *)
LEMMA MaxUpTo ==
  ASSUME NEW n \in Nat
  PROVE  Max({0} \cup 1..n) = n
<1>. DEFINE S == {0} \cup 1..n
<1>1. n \in S /\ \A y \in S : n >= y
  OBVIOUS
<1>2. \A x \in S : (\A y \in S : x >= y) => x = n
  BY <1>1
<1>. HIDE DEF S
<1>3. (CHOOSE x \in S : \A y \in S : x >= y) = n
  BY <1>1, <1>2
<1>. QED
  BY <1>3 DEF Max, S

-----------------------------------------------------------------------------
(* Numbers.  Every session sees the numbers 1, 2, ... up to some n, each   *)
(* on one message; what it has inserted itself is above what is committed; *)
(* and a number that it has read is at most one above what it sees.        *)
UpTo(rows) == \E n \in Nat : Seqs(rows) = 1..n
Distinct(rows) == \A m1, m2 \in rows : m1.seq = m2.seq => m1 = m2
Fresh(t) == \A m \in turn[t].unsaved : m.seq \notin Seqs(message)
ReadNumber(t) ==
  turn[t].stage \in {"asking", "replying"} =>
    /\ turn[t].number >= 1
    /\ 1..(turn[t].number - 1) \subseteq Seqs(Visible(t))

Numbers ==
  /\ UpTo(message) /\ Distinct(message)
  /\ \A t \in Turns :
       UpTo(Visible(t)) /\ Distinct(Visible(t)) /\ Fresh(t) /\ ReadNumber(t)
  /\ OneWriter

(* The number a session reads is one above all it sees.                    *)
LEMMA NextSeqIsNext ==
  ASSUME NEW t \in Turns, UpTo(Visible(t))
  PROVE  /\ NextSeq(t) \in Nat \ {0}
         /\ Seqs(Visible(t)) = 1..(NextSeq(t) - 1)
<1>1. PICK n \in Nat : Seqs(Visible(t)) = 1..n
  BY DEF UpTo
<1>2. NextSeq(t) = n + 1
  BY <1>1, MaxUpTo DEF NextSeq
<1>. QED
  BY <1>1, <1>2

(* The initial state.                                                      *)
LEMMA InitNumbers == Init => TypeOK /\ Numbers
<1>. SUFFICES ASSUME Init PROVE TypeOK /\ Numbers
  OBVIOUS
<1>1. TypeOK
  BY DEF Init, TypeOK, NewTurn, Turn, Stages, Titles,
         RunStatuses, Replies, Ended
<1>2. Seqs({}) = 1..0 /\ \A t \in Turns : Visible(t) = {}
  BY DEF Init, NewTurn, Visible, Seqs
<1>3. UpTo({}) /\ Distinct({})
  BY <1>2 DEF UpTo, Distinct
<1>4. \A t \in Turns : Fresh(t) /\ ReadNumber(t)
  BY DEF Init, NewTurn, Fresh, ReadNumber
<1>5. message = {} /\ OneWriter
  BY DEF Init, NewTurn, OneWriter
<1>. QED
  BY <1>1, <1>2, <1>3, <1>4, <1>5 DEF Numbers

-----------------------------------------------------------------------------
(* Every step of a turn leaves the other turns alone, and does one of four *)
(* things with messages.                                                   *)
Others(t) == \A u \in Turns \ {t} : turn'[u] = turn[u]
Keeps(t) == message' = message /\ turn'[t].unsaved = turn[t].unsaved
Forgets(t) == message' = message /\ turn'[t].unsaved = {}
Settles(t) == message' = Visible(t) /\ turn'[t].unsaved = {}

Act(t) == Open(t) \/ Step(t) \/ Die(t)

(* A turn arrives at an insert only with a number it has just read.        *)
ReadsOrLeaves(t) == turn'[t].stage \in {"asking", "replying"} => Number(t)

(* Which step of a turn does what.                                         *)
LEMMA ActShape ==
  ASSUME TypeOK, NEW t \in Turns, Act(t)
  PROVE  /\ Others(t) /\ ReadsOrLeaves(t)
         /\ Keeps(t) \/ Insert(t) \/ Forgets(t) \/ Settles(t)
<1>1. turn[t] \in Turn
  BY DEF TypeOK
<1>. USE DEF Others, ReadsOrLeaves, Keeps, Forgets, Settles, conversation,
             enrichment
<1>2. ASSUME NEW change, Move(t, change) PROVE Others(t) /\ turn'[t] = change
  BY <1>2 DEF Move, TypeOK
<1>3. ASSUME NEW stage, Rollback(t, stage), stage \notin {"asking", "replying"}
      PROVE  Others(t) /\ ReadsOrLeaves(t) /\ Forgets(t)
  BY <1>1, <1>3 DEF Rollback, Over, NewTurn, TypeOK, Turn
<1>4. ASSUME NEW stage, CommitHalfWay(t, stage),
             stage \notin {"asking", "replying"}
      PROVE  Others(t) /\ ReadsOrLeaves(t) /\ Settles(t)
  BY <1>1, <1>4 DEF CommitHalfWay, TypeOK, Turn
<1>5. CASE Open(t)
  <2>1. /\ Others(t) /\ message' = message
        /\ turn'[t] = [turn[t] EXCEPT !.stage = "opened",
                         !.first = (message = {}), !.title = title]
    BY <1>2, <1>5 DEF Open, Move
  <2>2. turn'[t].stage = "opened" /\ turn'[t].unsaved = turn[t].unsaved
    BY <1>1, <2>1 DEF Turn
  <2>. QED
    BY <2>1, <2>2
<1>6. CASE Number(t)
  BY <1>1, <1>2, <1>6 DEF Number, Move, Turn
<1>7. CASE Insert(t)
  <2>1. /\ Others(t)
        /\ turn'[t] = [turn[t] EXCEPT !.unsaved = @ \cup {Row(t)},
             !.stage = IF @ = "asking" THEN "asked" ELSE "replied"]
    BY <1>2, <1>7 DEF Insert
  <2>2. turn'[t].stage \in {"asked", "replied"}
    BY <1>1, <2>1 DEF Turn
  <2>. QED
    BY <1>7, <2>1, <2>2
<1>8. CASE Collide(t)
  BY <1>3, <1>8 DEF Collide
<1>9. CASE Reply(t)
  <2>1. CASE Recall(t)
    BY <1>1, <1>2, <2>1 DEF Recall, At, Move, Turn
  <2>2. CASE RouteFails(t)
    BY <1>1, <1>2, <2>2 DEF RouteFails, At, Move, Turn
  <2>3. CASE OpenRun(t)
    BY <1>1, <1>2, <2>3 DEF OpenRun, At, Move, Turn
  <2>4. CASE Retrieve(t)
    BY <1>1, <1>2, <1>4, <2>4 DEF Retrieve, At, Move, Turn
  <2>5. CASE ToolCommits(t)
    BY <1>4, <2>5 DEF ToolCommits
  <2>6. CASE ShowDelta(t)
    BY <1>1, <1>2, <2>6 DEF ShowDelta, At, Move, Turn
  <2>7. CASE RunSucceeds(t)
    BY <1>1, <1>2, <2>7 DEF RunSucceeds, At, Move, Turn
  <2>12. CASE RunIsSilent(t)
    BY <1>1, <1>2, <2>12 DEF RunIsSilent, At, Move, Turn
  <2>8. CASE RunFails(t)
    BY <1>1, <1>2, <2>8 DEF RunFails, At, Move, Turn
  <2>9. CASE Ground(t)
    BY <1>1, <1>2, <1>4, <2>9 DEF Ground, At, Move, Turn
  <2>10. CASE FallbackAnswers(t)
    BY <1>1, <1>2, <2>10 DEF FallbackAnswers, At, Move, Turn
  <2>11. CASE FallbackFails(t)
    BY <1>3, <2>11 DEF FallbackFails
  <2>. QED
    BY <1>9, <2>1, <2>2, <2>3, <2>4, <2>5, <2>6, <2>7, <2>8, <2>9, <2>10, <2>11,
       <2>12
       DEF Reply
<1>10. CASE CountMessages(t)
  BY <1>1, <1>2, <1>10 DEF CountMessages, At, Move, Turn
<1>11. CASE Commit(t)
  BY <1>1, <1>11 DEF Commit, At, TypeOK, Turn
<1>12. CASE Finish(t)
  BY <1>1, <1>12 DEF Finish, At, Over, NewTurn, TypeOK, Turn
<1>13. CASE Die(t)
  BY <1>3, <1>13 DEF Die
<1>. QED
  BY <1>5, <1>6, <1>7, <1>8, <1>9, <1>10, <1>11, <1>12, <1>13 DEF Act, Step

(* An insert takes the next number: the other sessions have nothing that   *)
(* is not committed, or the insert would wait.                             *)
LEMMA InsertIsNext ==
  ASSUME TypeOK, Numbers, NEW t \in Turns, Insert(t)
  PROVE  /\ Seqs(Visible(t)) = 1..(turn[t].number - 1)
         /\ turn[t].number \in Nat \ {0}
         /\ \A u \in Turns \ {t} : turn[u].unsaved = {}
<1>1. turn[t].number \in Nat
  BY DEF TypeOK, Turn
<1>2. PICK n \in Nat : Seqs(Visible(t)) = 1..n
  BY DEF Numbers, UpTo
<1>3. /\ turn[t].number \notin Seqs(Visible(t))
      /\ turn[t].number >= 1
      /\ 1..(turn[t].number - 1) \subseteq Seqs(Visible(t))
  BY DEF Insert, Taken, Numbers, ReadNumber
<1>4. turn[t].number = n + 1
  <2>1. turn[t].number > n
    BY <1>1, <1>2, <1>3
  <2>2. ASSUME turn[t].number > n + 1 PROVE FALSE
    <3>1. n + 1 \in 1..(turn[t].number - 1)
      BY <1>1, <2>2
    <3>. QED
      BY <1>2, <1>3, <3>1
  <2>. QED
    BY <1>1, <2>1, <2>2
<1>5. ASSUME NEW u \in Turns \ {t}, turn[u].unsaved # {} PROVE FALSE
  <2>1. Visible(t) = message
    BY <1>5 DEF Numbers, OneWriter, Visible
  <2>2. PICK m \in turn[u].unsaved : m.seq \notin 1..n
    BY <1>2, <1>5, <2>1 DEF Numbers, Fresh
  <2>3. PICK k \in Nat : Seqs(Visible(u)) = 1..k
    BY DEF Numbers, UpTo
  <2>4. m.seq \in 1..k
    BY <2>2, <2>3 DEF Visible, Seqs
  <2>5. n + 1 \in Seqs(Visible(u)) /\ n + 1 \notin Seqs(message)
    BY <1>2, <2>1, <2>2, <2>3, <2>4
  <2>6. n + 1 \in Seqs(turn[u].unsaved)
    BY <2>5 DEF Visible, Seqs
  <2>. QED
    BY <1>4, <2>6 DEF Insert, Held
<1>. QED
  BY <1>1, <1>2, <1>4, <1>5

(* A step of a turn keeps the numbers.                                     *)
LEMMA NumbersAct ==
  ASSUME TypeOK, Numbers, NEW t \in Turns, Act(t)
  PROVE  Numbers'
<1>1. /\ Others(t) /\ ReadsOrLeaves(t)
      /\ Keeps(t) \/ Insert(t) \/ Forgets(t) \/ Settles(t)
  BY ActShape
<1>2. turn[t] \in Turn
  BY DEF TypeOK
<1>3. ASSUME Insert(t)
      PROVE  message' = message /\ turn'[t].unsaved = turn[t].unsaved \cup {Row(t)}
  BY <1>2, <1>3 DEF Insert, Move, TypeOK, Turn, conversation
<1>4. message \subseteq message'
  BY <1>1, <1>3 DEF Keeps, Forgets, Settles, Visible
<1>5. ASSUME NEW u \in Turns \ {t} PROVE ReadNumber(u)'
  <2>1. Seqs(Visible(u)) \subseteq Seqs(Visible(u))'
    BY <1>1, <1>4, <1>5 DEF Others, Visible, Seqs
  <2>. QED
    BY <1>1, <1>5, <2>1 DEF Others, Numbers, ReadNumber
<1>6. ReadNumber(t)'
  <2>1. SUFFICES ASSUME turn'[t].stage \in {"asking", "replying"}
                 PROVE  ReadNumber(t)'
    BY DEF ReadNumber
  <2>2. Number(t)
    BY <1>1, <2>1 DEF ReadsOrLeaves
  <2>3. /\ message' = message /\ turn'[t].unsaved = turn[t].unsaved
        /\ turn'[t].number = NextSeq(t)
    BY <1>2, <2>2 DEF Number, Move, TypeOK, Turn, conversation
  <2>4. Visible(t)' = Visible(t)
    BY <2>3 DEF Visible
  <2>5. Seqs(Visible(t))' = 1..(NextSeq(t) - 1) /\ NextSeq(t) \in Nat \ {0}
    BY <2>4, NextSeqIsNext DEF Numbers, Seqs
  <2>. QED
    BY <2>3, <2>5 DEF ReadNumber
<1>7. SUFFICES
        /\ UpTo(message)' /\ Distinct(message)' /\ OneWriter'
        /\ \A u \in Turns : UpTo(Visible(u))' /\ Distinct(Visible(u))' /\ Fresh(u)'
  BY <1>5, <1>6 DEF Numbers
<1>8. CASE Keeps(t)
  <2>1. message' = message /\ \A u \in Turns : turn'[u].unsaved = turn[u].unsaved
    BY <1>1, <1>8 DEF Keeps, Others
  <2>2. \A u \in Turns : Visible(u)' = Visible(u)
    BY <2>1 DEF Visible
  <2>. QED
    BY <2>1, <2>2 DEF Numbers, UpTo, Distinct, Fresh, OneWriter, Seqs
<1>9. CASE Insert(t)
  <2>1. /\ message' = message
        /\ turn'[t].unsaved = turn[t].unsaved \cup {Row(t)}
        /\ \A u \in Turns \ {t} : turn'[u].unsaved = {} /\ turn[u].unsaved = {}
    BY <1>1, <1>3, <1>9, InsertIsNext DEF Others
  <2>2. /\ \A u \in Turns \ {t} : Visible(u)' = message
        /\ Visible(t)' = Visible(t) \cup {Row(t)}
    BY <2>1 DEF Visible
  <2>3. Row(t).seq = turn[t].number
    BY DEF Row
  <2>4. Seqs(Visible(t))' = Seqs(Visible(t)) \cup {turn[t].number}
    BY <2>2, <2>3 DEF Seqs
  <2>5. Seqs(Visible(t))' = 1..turn[t].number
    BY <1>9, <2>4, InsertIsNext
  <2>6. UpTo(Visible(t))'
    BY <1>9, <2>5, InsertIsNext DEF UpTo
  <2>7. turn[t].number \notin Seqs(Visible(t))
    BY <1>9 DEF Insert, Taken
  <2>8. Distinct(Visible(t))'
    BY <2>2, <2>3, <2>7 DEF Distinct, Seqs, Numbers
  <2>9. Fresh(t)'
    BY <2>1, <2>3, <2>7 DEF Fresh, Seqs, Visible, Numbers
  <2>10. ASSUME NEW u \in Turns \ {t}
         PROVE  UpTo(Visible(u))' /\ Distinct(Visible(u))' /\ Fresh(u)'
    BY <2>1, <2>2, <2>10 DEF Numbers, UpTo, Distinct, Fresh, Seqs
  <2>11. OneWriter'
    BY <2>1 DEF OneWriter
  <2>12. UpTo(message)' /\ Distinct(message)'
    BY <2>1 DEF Numbers, UpTo, Distinct, Seqs
  <2>. QED
    BY <2>6, <2>8, <2>9, <2>10, <2>11, <2>12
<1>10. CASE Forgets(t)
  <2>1. /\ message' = message /\ turn'[t].unsaved = {}
        /\ \A u \in Turns \ {t} : turn'[u] = turn[u]
    BY <1>1, <1>10 DEF Forgets, Others
  <2>2. /\ \A u \in Turns \ {t} : Visible(u)' = Visible(u)
        /\ Visible(t)' = message
    BY <2>1 DEF Visible
  <2>. QED
    BY <2>1, <2>2 DEF Numbers, UpTo, Distinct, Fresh, OneWriter, Seqs
<1>11. CASE Settles(t)
  <2>1. /\ message' = Visible(t) /\ turn'[t].unsaved = {}
        /\ \A u \in Turns \ {t} : turn'[u] = turn[u]
    BY <1>1, <1>11 DEF Settles, Others
  <2>2. Visible(t)' = Visible(t)
    BY <2>1 DEF Visible
  <2>3. ASSUME NEW u \in Turns \ {t}
        PROVE  UpTo(Visible(u))' /\ Distinct(Visible(u))' /\ Fresh(u)'
    <3>1. CASE turn[t].unsaved = {}
      <4>1. message' = message /\ Visible(u)' = Visible(u)
        BY <2>1, <2>3, <3>1 DEF Visible
      <4>. QED
        BY <2>1, <2>3, <4>1 DEF Numbers, UpTo, Distinct, Fresh, Seqs
    <3>2. CASE turn[u].unsaved = {}
      <4>1. Visible(u)' = Visible(t) /\ turn'[u].unsaved = {}
        BY <2>1, <2>3, <3>2 DEF Visible
      <4>. QED
        BY <2>3, <4>1 DEF Numbers, UpTo, Distinct, Fresh, Seqs
    <3>. QED
      BY <2>3, <3>1, <3>2 DEF Numbers, OneWriter
  <2>4. UpTo(Visible(t))' /\ Distinct(Visible(t))' /\ Fresh(t)'
    BY <2>1, <2>2 DEF Numbers, UpTo, Distinct, Fresh, Seqs
  <2>5. UpTo(message)' /\ Distinct(message)' /\ OneWriter'
    BY <2>1 DEF Numbers, UpTo, Distinct, OneWriter, Seqs
  <2>. QED
    BY <2>3, <2>4, <2>5
<1>. QED
  BY <1>1, <1>8, <1>9, <1>10, <1>11

-----------------------------------------------------------------------------
(* Where a turn's messages are.  Up to the insert of its question there    *)
(* are none; then the question is in its session, or in the database when  *)
(* the turn is torn; then the reply is in its session; then both are in    *)
(* the database.  A turn that ended early leaves nothing, or its question  *)
(* when it was torn, or both when it was cut off after its commit.         *)
Mine(t) == {m \in message : m.turn = t}

Matches(text, status) ==
  \/ text \in {"agent", "standin"} /\ status = "succeeded"
  \/ text = "fallback" /\ status \in {"none", "failed"}
  \/ text = "recall" /\ status = "none"

Ask(t, q) == q \in Message /\ q.turn = t /\ q.text = "question"
Exchange(t, q, a) ==
  /\ Ask(t, q)
  /\ a \in Message /\ a.turn = t /\ a.text \in Replies /\ q.seq < a.seq

NothingStored(t) == t \notin torn /\ Mine(t) = {} /\ run[t] = "none"
AskStored(t, q) ==
  t \in torn /\ Mine(t) = {q} /\ run[t] \in {"none", "running", "failed"}
BothStored(t, q, a) ==
  /\ Mine(t) = {q, a} /\ Matches(a.text, run[t])
  /\ t \notin torn => a.seq = q.seq + 1

AskKept(t, q) ==
  \/ NothingStored(t) /\ turn[t].unsaved = {q}
  \/ AskStored(t, q) /\ turn[t].unsaved = {}
BothKept(t, q, a) ==
  \/ NothingStored(t) /\ turn[t].unsaved = {q, a} /\ a.seq = q.seq + 1
  \/ AskStored(t, q) /\ turn[t].unsaved = {a}
Follows(t, q) ==
  turn[t].stage = "replying" =>
    q.seq < turn[t].number /\ (t \notin torn => turn[t].number = q.seq + 1)

(* What a client was shown, when the reply is this text.                   *)
Seen(t, shown, text) ==
  \/ shown = text
  \/ t \in Streamed /\ shown \in Partial /\ text = "fallback"
  \/ t \in Streamed /\ shown \in {"none", "empty"} /\ text = "standin"

Early == {"idle", "opened", "asking"}
Middle ==
  {"asked", "retrieving", "answering", "fallback", "grounded", "answered",
   "replying"}
Late == {"replied", "counted"}

Place(t) ==
  /\ turn[t].stage \in Early =>
       NothingStored(t) /\ turn[t].unsaved = {}
  /\ turn[t].stage \in Middle =>
       \E q : Ask(t, q) /\ AskKept(t, q) /\ Follows(t, q)
  /\ turn[t].stage \in Late =>
       \E q, a : Exchange(t, q, a) /\ BothKept(t, q, a) /\ a.text = turn[t].text
  /\ turn[t].stage \in {"saved"} \cup Ended =>
       /\ turn[t].unsaved = {}
       /\ \/ NothingStored(t)
          \/ \E q : Ask(t, q) /\ AskStored(t, q)
          \/ \E q, a : Exchange(t, q, a) /\ BothStored(t, q, a)
  /\ turn[t].stage = "saved" =>
       \E q, a : Exchange(t, q, a) /\ BothStored(t, q, a) /\ a.text = turn[t].text
  /\ turn[t].stage = "done" =>
       \E q, a : /\ Exchange(t, q, a) /\ BothStored(t, q, a)
                 /\ Seen(t, turn[t].shown, a.text)
  /\ At(t, "failed") /\ turn[t].shown \in Replies => t \in torn

(* How a turn's run, reply and screen go together.                         *)
OnScreen(t) ==
  IF t \in Streamed
  THEN Seen(t, turn[t].shown, turn[t].text)
  ELSE turn[t].shown = "none"

Trace(t) ==
  /\ turn[t].shown \in Partial => t \in Streamed
  /\ turn[t].stage \in Early \cup {"asked"} =>
       turn[t].run = "none" /\ turn[t].shown = "none"
  /\ turn[t].stage \in {"retrieving", "answering"} =>
       turn[t].run = "running" /\ turn[t].shown \in {"none"} \cup Partial
  /\ turn[t].stage \in {"fallback", "grounded"} =>
       turn[t].run \in {"none", "failed"} /\ turn[t].shown \in {"none"} \cup Partial
  /\ turn[t].stage \in {"answered", "replying"} \cup Late =>
       Matches(turn[t].text, turn[t].run)
  /\ turn[t].stage \in {"answered", "replying", "saved"} \cup Late =>
       turn[t].text \in Replies /\ OnScreen(t)

Places == \A t \in Turns : Place(t) /\ Trace(t)

Inv == TypeOK /\ Numbers /\ Places

(* A question that is not committed has the largest number of all.         *)
LEMMA PendingIsLast ==
  ASSUME Numbers, NEW t \in Turns, NEW q \in Message, turn[t].unsaved = {q}
  PROVE  Seqs(Visible(t)) = 1..q.seq
<1>1. PICK n \in Nat : Seqs(message) = 1..n
  BY DEF Numbers, UpTo
<1>2. PICK k \in Nat : Seqs(Visible(t)) = 1..k
  BY DEF Numbers, UpTo
<1>3. Seqs(Visible(t)) = 1..n \cup {q.seq}
  BY <1>1 DEF Visible, Seqs
<1>4. q.seq \in Nat \ {0} /\ q.seq \notin 1..n
  BY <1>1 DEF Message, Numbers, Fresh
<1>5. q.seq \in 1..k /\ n + 1 \in 1..k
  BY <1>2, <1>3, <1>4
<1>6. q.seq = n + 1
  <2>1. n + 1 \in 1..n \cup {q.seq}
    BY <1>2, <1>3, <1>5
  <2>2. n + 1 \notin 1..n
    OBVIOUS
  <2>. QED
    BY <2>1, <2>2
<1>. QED
  BY <1>3, <1>6

(* A committed question has a smaller number than the next one read.       *)
LEMMA NextIsAfter ==
  ASSUME Numbers, NEW t \in Turns, NEW q \in Message, q \in Visible(t)
  PROVE  q.seq < NextSeq(t)
<1>1. /\ NextSeq(t) \in Nat \ {0}
      /\ Seqs(Visible(t)) = 1..(NextSeq(t) - 1)
  BY NextSeqIsNext DEF Numbers
<1>2. q.seq \in Seqs(Visible(t))
  BY DEF Seqs
<1>. QED
  BY <1>1, <1>2

(* A move of a turn changes nothing but the turn.                          *)
LEMMA Moved ==
  ASSUME TypeOK, NEW t \in Turns, NEW change \in Turn, Move(t, change)
  PROVE  /\ TypeOK' /\ turn'[t] = change
         /\ message' = message /\ Mine(t)' = Mine(t)
         /\ run' = run /\ torn' = torn
BY DEF TypeOK, Move, Mine, conversation, enrichment

(* A turn that is between its question and the number of its reply, and    *)
(* stays there, keeps its question where it is.                            *)
LEMMA MiddleStays ==
  ASSUME NEW t \in Turns, Place(t), turn[t].stage \in Middle,
         Mine(t)' = Mine(t), run' = run, torn' = torn,
         turn'[t].stage \in Middle \ {"replying"},
         turn'[t].unsaved = turn[t].unsaved
  PROVE  Place(t)'
<1>1. PICK q : Ask(t, q) /\ AskKept(t, q)
  BY DEF Place
<1>2. AskKept(t, q)'
  BY <1>1 DEF AskKept, AskStored, NothingStored
<1>3. Ask(t, q)' /\ Follows(t, q)'
  BY <1>1 DEF Ask, Follows
<1>4. turn'[t].stage \notin {"saved"} \cup Ended \cup Early \cup Late
  BY DEF Ended, Early, Late, Middle
<1>. QED
  BY <1>2, <1>3, <1>4 DEF Place, At, Ended

TornTurn(t, stage) == [turn[t] EXCEPT !.stage = stage, !.unsaved = {}]

(* So does one that commits half way, with its question in the database.   *)
LEMMA MiddleTears ==
  ASSUME TypeOK, NEW t \in Turns, Place(t), Trace(t), NEW stage,
         turn[t].stage \in {"retrieving", "answering", "fallback"},
         stage \in {"answering", "grounded"}, CommitHalfWay(t, stage)
  PROVE  TypeOK' /\ Place(t)' /\ turn'[t] = TornTurn(t, stage)
<1>1. turn[t] \in Turn
  BY DEF TypeOK
<1>2. turn'[t] = TornTurn(t, stage)
  BY <1>1 DEF CommitHalfWay, TypeOK, Turn, TornTurn
<1>3. turn'[t].stage = stage /\ turn'[t].unsaved = {}
  BY <1>1, <1>2 DEF Turn, TornTurn
<1>4. stage \in Stages
  BY DEF Stages
<1>5. turn'[t] \in Turn
  BY <1>1, <1>2, <1>4 DEF Turn, TornTurn
<1>6. turn' = [turn EXCEPT ![t] = turn'[t]]
  BY <1>1, <1>2 DEF CommitHalfWay, TypeOK, Turn
<1>7. turn' \in [Turns -> Turn]
  BY <1>5, <1>6 DEF TypeOK
<1>8. Visible(t) \subseteq Message /\ turn[t].run \in RunStatuses
  BY <1>1 DEF TypeOK, Turn, Visible
<1>9. TypeOK'
  BY <1>7, <1>8 DEF CommitHalfWay, TypeOK, enrichment
<1>10. PICK q : Ask(t, q) /\ AskKept(t, q)
  BY DEF Place, Middle
<1>11. Mine(t)' = {q}
  <2>1. message' = message \cup turn[t].unsaved
    BY DEF CommitHalfWay, Visible
  <2>. QED
    BY <1>10, <2>1 DEF Mine, AskKept, AskStored, NothingStored, Ask
<1>12. run'[t] \in {"none", "running", "failed"} /\ t \in torn'
  BY <1>8 DEF CommitHalfWay, TypeOK, Trace
<1>13. Ask(t, q)' /\ AskKept(t, q)' /\ Follows(t, q)'
  BY <1>3, <1>10, <1>11, <1>12 DEF Ask, AskKept, AskStored, Follows
<1>14. /\ turn'[t].stage \in Middle
       /\ turn'[t].stage \notin {"saved"} \cup Ended \cup Early \cup Late
  BY <1>3 DEF Ended, Early, Late, Middle
<1>15. Place(t)'
  BY <1>13, <1>14 DEF Place, At, Ended
<1>. QED
  BY <1>2, <1>9, <1>15

-----------------------------------------------------------------------------
(* The steps of a turn, one by one.                                        *)
Good(t) == TypeOK' /\ Place(t)' /\ Trace(t)'

(* Wherever a turn is, the database has nothing of it, its question, or its *)
(* question and its reply.                                                 *)
LEMMA WhatIsStored ==
  ASSUME TypeOK, NEW t \in Turns, Place(t)
  PROVE  \/ NothingStored(t)
         \/ \E q : Ask(t, q) /\ AskStored(t, q)
         \/ \E q, a : Exchange(t, q, a) /\ BothStored(t, q, a)
<1>1. turn[t] \in Turn
  BY DEF TypeOK
<1>2. CASE turn[t].stage \in Early
  BY <1>2 DEF Place
<1>3. CASE turn[t].stage \in Middle
  BY <1>3 DEF Place, AskKept
<1>4. CASE turn[t].stage \in Late
  BY <1>4 DEF Place, BothKept, Exchange
<1>5. CASE turn[t].stage \in {"saved"} \cup Ended
  BY <1>5 DEF Place
<1>. QED
  BY <1>1, <1>2, <1>3, <1>4, <1>5
     DEF Turn, Stages, Early, Middle, Late, Ended

(* A turn that is over loses what it had not committed.                    *)
LEMMA RolledBack ==
  ASSUME TypeOK, NEW t \in Turns, Place(t), Trace(t),
         NEW stage \in {"failed", "died"}, Rollback(t, stage),
         turn[t].stage \notin {"idle"} \cup Ended,
         stage = "failed" /\ turn[t].shown \in Replies => t \in torn
  PROVE  Good(t)
<1>1. turn[t] \in Turn
  BY DEF TypeOK
<1>2. /\ Over(t, stage) \in Turn
      /\ Over(t, stage).stage = stage /\ Over(t, stage).unsaved = {}
      /\ Over(t, stage).shown = turn[t].shown
  <2>1. stage \in Stages /\ turn[t].shown \in Replies \cup {"none"} \cup Partial
    BY <1>1 DEF Turn, Stages, Ended
  <2>2. NewTurn \in Turn
    BY DEF NewTurn, Turn, Stages, Titles, RunStatuses
  <2>3. PICK fresh : fresh = [NewTurn EXCEPT !.stage = stage]
    OBVIOUS
  <2>4. fresh \in Turn /\ fresh.stage = stage /\ fresh.unsaved = {}
    BY <2>1, <2>2, <2>3 DEF Turn, NewTurn
  <2>5. Over(t, stage) = [fresh EXCEPT !.shown = turn[t].shown]
    BY <2>3 DEF Over
  <2>. QED
    BY <2>1, <2>4, <2>5 DEF Turn
<1>3. /\ TypeOK' /\ turn'[t] = Over(t, stage)
      /\ message' = message /\ Mine(t)' = Mine(t) /\ run' = run /\ torn' = torn
  BY <1>2 DEF Rollback, TypeOK, Mine, conversation, enrichment
<1>4. \/ NothingStored(t)
      \/ \E q : Ask(t, q) /\ AskStored(t, q)
      \/ \E q, a : Exchange(t, q, a) /\ BothStored(t, q, a)
  BY WhatIsStored
<1>5. \/ NothingStored(t)'
      \/ \E q : Ask(t, q)' /\ AskStored(t, q)'
      \/ \E q, a : Exchange(t, q, a)' /\ BothStored(t, q, a)'
  BY <1>3, <1>4
     DEF NothingStored, Ask, AskStored, Exchange, BothStored
<1>6. Place(t)'
  <2>1. /\ turn'[t].stage \in {"failed", "died"}
        /\ turn'[t].stage \notin Early \cup Middle \cup Late
    BY <1>2, <1>3 DEF Early, Middle, Late
  <2>2. turn'[t].unsaved = {} /\ (At(t, "failed") /\ turn[t].shown \in Replies => t \in torn)'
    BY <1>2, <1>3 DEF At
  <2>. QED
    BY <1>5, <2>1, <2>2 DEF Place, Ask
<1>7. Trace(t)'
  BY <1>2, <1>3 DEF Trace, Early, Late
<1>. QED
  BY <1>3, <1>6, <1>7 DEF Good

(* The steps that get a reply.                                             *)
LEMMA ReplyKeeps ==
  ASSUME TypeOK, NEW t \in Turns, Place(t), Trace(t), Reply(t)
  PROVE  Good(t)
<1>1. turn[t] \in Turn
  BY DEF TypeOK
<1>. USE DEF Good
<1>2. ASSUME NEW change \in Turn, Move(t, change), turn[t].stage \in Middle,
             change.stage \in Middle \ {"replying"},
             change.unsaved = turn[t].unsaved
      PROVE  TypeOK' /\ Place(t)' /\ turn'[t] = change
  BY <1>2, Moved, MiddleStays
<1>3. ASSUME NEW stage \in {"answering", "grounded"}, CommitHalfWay(t, stage),
             turn[t].stage \in {"retrieving", "answering", "fallback"},
             stage = "grounded" <=> turn[t].stage = "fallback"
      PROVE  Good(t)
  <2>1. TypeOK' /\ Place(t)' /\ turn'[t] = TornTurn(t, stage)
    BY <1>3, MiddleTears
  <2>2. Trace(t)'
    BY <1>1, <1>3, <2>1 DEF Trace, Turn, TornTurn, Early, Late
  <2>. QED
    BY <2>1, <2>2
<1>4. CASE Recall(t)
  <2>. DEFINE change == [turn[t] EXCEPT !.stage = "answered", !.text = "recall",
                                        !.shown = Shown(t, "recall")]
  <2>1. change \in Turn /\ change.stage = "answered"
        /\ change.unsaved = turn[t].unsaved /\ change.run = turn[t].run
        /\ change.text = "recall" /\ change.shown = Shown(t, "recall")
    BY <1>1 DEF Turn, Stages, Replies, Shown
  <2>2. TypeOK' /\ Place(t)' /\ turn'[t] = change
    BY <1>2, <1>4, <2>1 DEF Recall, At, Middle
  <2>3. Trace(t)'
    BY <1>4, <2>1, <2>2
       DEF Recall, At, Trace, Shown, Seen, OnScreen, Matches, Replies, Early, Late
  <2>. QED
    BY <2>2, <2>3
<1>5. CASE RouteFails(t)
  <2>. DEFINE change == [turn[t] EXCEPT !.stage = "fallback"]
  <2>1. change \in Turn /\ change.stage = "fallback"
        /\ change.unsaved = turn[t].unsaved /\ change.run = turn[t].run
        /\ change.shown = turn[t].shown
    BY <1>1 DEF Turn, Stages
  <2>2. TypeOK' /\ Place(t)' /\ turn'[t] = change
    BY <1>2, <1>5, <2>1 DEF RouteFails, At, Middle
  <2>3. Trace(t)'
    BY <1>5, <2>1, <2>2 DEF RouteFails, At, Trace, Early, Late
  <2>. QED
    BY <2>2, <2>3
<1>6. CASE OpenRun(t)
  <2>. DEFINE change == [turn[t] EXCEPT !.stage = "retrieving", !.run = "running"]
  <2>1. change \in Turn /\ change.stage = "retrieving" /\ change.run = "running"
        /\ change.unsaved = turn[t].unsaved /\ change.shown = turn[t].shown
    BY <1>1 DEF Turn, Stages, RunStatuses
  <2>2. TypeOK' /\ Place(t)' /\ turn'[t] = change
    BY <1>2, <1>6, <2>1 DEF OpenRun, At, Middle
  <2>3. Trace(t)'
    BY <1>6, <2>1, <2>2 DEF OpenRun, At, Trace, Early, Late
  <2>. QED
    BY <2>2, <2>3
<1>7. CASE Retrieve(t)
  <2>. DEFINE change == [turn[t] EXCEPT !.stage = "answering"]
  <2>1. CASE CommitHalfWay(t, "answering")
    BY <1>3, <1>7, <2>1 DEF Retrieve, At
  <2>2. CASE Move(t, change)
    <3>1. change \in Turn /\ change.stage = "answering" /\ change.run = turn[t].run
          /\ change.unsaved = turn[t].unsaved /\ change.shown = turn[t].shown
      BY <1>1 DEF Turn, Stages
    <3>2. TypeOK' /\ Place(t)' /\ turn'[t] = change
      BY <1>2, <1>7, <2>2, <3>1 DEF Retrieve, At, Middle
    <3>3. Trace(t)'
      BY <1>7, <3>1, <3>2 DEF Retrieve, At, Trace, Early, Late
    <3>. QED
      BY <3>2, <3>3
  <2>. QED
    BY <1>7, <2>1, <2>2 DEF Retrieve
<1>8. CASE ToolCommits(t)
  BY <1>3, <1>8 DEF ToolCommits, At
<1>9. CASE ShowDelta(t)
  <2>1. PICK delta \in Partial :
          Move(t, [turn[t] EXCEPT !.shown = IF @ = "part" THEN @ ELSE delta])
    BY <1>9 DEF ShowDelta
  <2>. DEFINE shown == IF turn[t].shown = "part" THEN turn[t].shown ELSE delta
  <2>. DEFINE change == [turn[t] EXCEPT !.shown = shown]
  <2>2. shown \in Partial
    BY <2>1 DEF Partial
  <2>3. Move(t, change)
    BY <2>1
  <2>. HIDE DEF shown
  <2>4. change \in Turn /\ change.stage = turn[t].stage
        /\ change.run = turn[t].run
        /\ change.unsaved = turn[t].unsaved /\ change.shown = shown
    BY <1>1, <2>2 DEF Turn
  <2>. HIDE DEF change
  <2>5. TypeOK' /\ Place(t)' /\ turn'[t] = change
    BY <1>2, <1>9, <2>3, <2>4 DEF ShowDelta, At, Middle
  <2>6. Trace(t)'
    BY <1>9, <2>2, <2>4, <2>5 DEF ShowDelta, At, Trace, Early, Late
  <2>. QED
    BY <2>5, <2>6
<1>10. CASE RunSucceeds(t)
  <2>. DEFINE change == [turn[t] EXCEPT !.stage = "answered",
              !.run = "succeeded", !.text = "agent", !.shown = Shown(t, "agent")]
  <2>1. change \in Turn /\ change.stage = "answered"
        /\ change.unsaved = turn[t].unsaved /\ change.run = "succeeded"
        /\ change.text = "agent" /\ change.shown = Shown(t, "agent")
    BY <1>1 DEF Turn, Stages, Replies, RunStatuses, Shown
  <2>2. TypeOK' /\ Place(t)' /\ turn'[t] = change
    BY <1>2, <1>10, <2>1 DEF RunSucceeds, At, Middle
  <2>3. Trace(t)'
    BY <1>10, <2>1, <2>2
       DEF RunSucceeds, At, Trace, Shown, Seen, OnScreen, Matches, Replies, Early, Late
  <2>. QED
    BY <2>2, <2>3
<1>15. CASE RunIsSilent(t)
  <2>. DEFINE change == [turn[t] EXCEPT !.stage = "answered",
                                        !.run = "succeeded", !.text = "standin"]
  <2>1. change \in Turn /\ change.stage = "answered"
        /\ change.unsaved = turn[t].unsaved /\ change.run = "succeeded"
        /\ change.text = "standin" /\ change.shown = turn[t].shown
    BY <1>1 DEF Turn, Stages, Replies, RunStatuses
  <2>2. TypeOK' /\ Place(t)' /\ turn'[t] = change
    BY <1>2, <1>15, <2>1 DEF RunIsSilent, At, Middle
  <2>3. turn[t].shown \in {"none", "empty"} /\ (turn[t].shown = "empty" => t \in Streamed)
    BY <1>15 DEF RunIsSilent, At, Trace, Partial
  <2>4. Trace(t)'
    BY <1>15, <2>1, <2>2, <2>3
       DEF RunIsSilent, At, Trace, Seen, OnScreen, Matches, Replies, Early, Late
  <2>. QED
    BY <2>2, <2>4
<1>11. CASE RunFails(t)
  <2>. DEFINE change == [turn[t] EXCEPT !.stage = "fallback", !.run = "failed"]
  <2>1. change \in Turn /\ change.stage = "fallback" /\ change.run = "failed"
        /\ change.unsaved = turn[t].unsaved /\ change.shown = turn[t].shown
    BY <1>1 DEF Turn, Stages, RunStatuses
  <2>2. TypeOK' /\ Place(t)' /\ turn'[t] = change
    BY <1>2, <1>11, <2>1 DEF RunFails, Middle
  <2>3. Trace(t)'
    BY <1>11, <2>1, <2>2 DEF RunFails, Trace, Early, Late
  <2>. QED
    BY <2>2, <2>3
<1>12. CASE Ground(t)
  <2>. DEFINE change == [turn[t] EXCEPT !.stage = "grounded"]
  <2>1. CASE CommitHalfWay(t, "grounded")
    BY <1>3, <1>12, <2>1 DEF Ground, At
  <2>2. CASE Move(t, change)
    <3>1. change \in Turn /\ change.stage = "grounded" /\ change.run = turn[t].run
          /\ change.unsaved = turn[t].unsaved /\ change.shown = turn[t].shown
      BY <1>1 DEF Turn, Stages
    <3>2. TypeOK' /\ Place(t)' /\ turn'[t] = change
      BY <1>2, <1>12, <2>2, <3>1 DEF Ground, At, Middle
    <3>3. Trace(t)'
      BY <1>12, <3>1, <3>2 DEF Ground, At, Trace, Early, Late
    <3>. QED
      BY <3>2, <3>3
  <2>. QED
    BY <1>12, <2>1, <2>2 DEF Ground
<1>13. CASE FallbackAnswers(t)
  <2>. DEFINE change == [turn[t] EXCEPT !.stage = "answered",
              !.text = "fallback", !.shown = FallbackShown(t)]
  <2>1. change \in Turn /\ change.stage = "answered"
        /\ change.unsaved = turn[t].unsaved /\ change.run = turn[t].run
        /\ change.text = "fallback" /\ change.shown = FallbackShown(t)
    BY <1>1 DEF Turn, Stages, Replies, Shown, FallbackShown
  <2>2. TypeOK' /\ Place(t)' /\ turn'[t] = change
    BY <1>2, <1>13, <2>1 DEF FallbackAnswers, At, Middle
  <2>3. Trace(t)'
    BY <1>13, <2>1, <2>2
       DEF FallbackAnswers, FallbackShown, At, Trace, Shown, Seen, OnScreen,
           Matches, Replies, Partial, Early, Late
  <2>. QED
    BY <2>2, <2>3
<1>14. CASE FallbackFails(t)
  BY <1>14, RolledBack DEF FallbackFails, Trace, Ended, Replies, Partial
<1>. QED
  BY <1>4, <1>5, <1>6, <1>7, <1>8, <1>9, <1>10, <1>11, <1>12, <1>13, <1>14,
     <1>15
     DEF Reply

(* Rows with the numbers 1..n, one on each, are n rows.                    *)
LEMMA RowsCounted ==
  ASSUME NEW rows, NEW n \in Nat, Seqs(rows) = 1..n, Distinct(rows)
  PROVE  Cardinality(rows) = n
<1>. DEFINE f == [i \in 1..n |-> CHOOSE m \in rows : m.seq = i]
<1>1. \A i \in 1..n : f[i] \in rows /\ f[i].seq = i
  BY DEF Seqs
<1>2. f \in [1..n -> rows]
  BY <1>1
<1>3. \A m \in rows : m.seq \in 1..n /\ f[m.seq] = m
  BY <1>1 DEF Seqs, Distinct
<1>. HIDE DEF f
<1>4. f \in Bijection(1..n, rows)
  BY <1>1, <1>2, <1>3 DEF Bijection, Injection, Surjection, IsInjective
<1>. QED
  BY <1>4, FS_CountingElements DEF ExistsBijection

(* What opens a turn, stores it, or ends it.                               *)
LEMMA HandlerKeeps ==
  ASSUME TypeOK, Numbers, NEW t \in Turns, Place(t), Trace(t),
         Open(t) \/ Number(t) \/ Insert(t) \/ Collide(t) \/ CountMessages(t)
           \/ Commit(t) \/ Finish(t) \/ Die(t)
  PROVE  Good(t)
<1>1. turn[t] \in Turn
  BY DEF TypeOK
<1>. USE DEF Good
<1>2. CASE Open(t)
  <2>. DEFINE change == [turn[t] EXCEPT !.stage = "opened",
              !.first = (message = {}), !.title = title]
  <2>1. change \in Turn /\ change.stage = "opened" /\ change.run = turn[t].run
        /\ change.unsaved = turn[t].unsaved /\ change.shown = turn[t].shown
    BY <1>1 DEF Turn, Stages, TypeOK
  <2>. HIDE DEF change
  <2>2. /\ TypeOK' /\ turn'[t] = change /\ Mine(t)' = Mine(t)
        /\ run' = run /\ torn' = torn
    BY <1>2, <2>1, Moved DEF Open, change
  <2>3. turn[t].unsaved = {} /\ NothingStored(t)'
    BY <1>2, <2>2 DEF Open, At, Place, Early, NothingStored
  <2>4. Place(t)'
    BY <2>1, <2>2, <2>3 DEF Place, At, Early, Middle, Late, Ended
  <2>5. Trace(t)'
    BY <1>2, <2>1, <2>2 DEF Open, At, Trace, Early, Late
  <2>. QED
    BY <2>2, <2>4, <2>5
<1>3. CASE Number(t)
  <2>. DEFINE change == [turn[t] EXCEPT !.number = NextSeq(t),
              !.stage = IF @ = "opened" THEN "asking" ELSE "replying"]
  <2>1. /\ NextSeq(t) \in Nat \ {0}
        /\ Seqs(Visible(t)) = 1..(NextSeq(t) - 1)
    BY NextSeqIsNext DEF Numbers
  <2>2. /\ change \in Turn /\ change.unsaved = turn[t].unsaved
        /\ change.number = NextSeq(t) /\ change.run = turn[t].run
        /\ change.shown = turn[t].shown /\ change.text = turn[t].text
        /\ change.stage = IF At(t, "opened") THEN "asking" ELSE "replying"
    BY <1>1, <2>1 DEF Turn, Stages, At
  <2>. HIDE DEF change
  <2>3. /\ TypeOK' /\ turn'[t] = change /\ Mine(t)' = Mine(t)
        /\ run' = run /\ torn' = torn
    BY <1>3, <2>2, Moved DEF Number, change
  <2>4. CASE At(t, "opened")
    <3>1. turn[t].unsaved = {} /\ NothingStored(t)'
      BY <2>3, <2>4 DEF At, Place, Early, NothingStored
    <3>2. Place(t)'
      BY <2>2, <2>3, <2>4, <3>1 DEF Place, At, Early, Middle, Late, Ended
    <3>3. Trace(t)'
      BY <2>2, <2>3, <2>4 DEF At, Trace, Early, Late
    <3>. QED
      BY <2>3, <3>2, <3>3
  <2>5. CASE At(t, "answered")
    <3>1. PICK q : Ask(t, q) /\ AskKept(t, q)
      BY <2>5 DEF At, Place, Middle
    <3>2. AskKept(t, q)' /\ Ask(t, q)'
      BY <2>2, <2>3, <3>1 DEF Ask, AskKept, AskStored, NothingStored
    <3>3. q \in Message /\ q \in Visible(t)
      BY <3>1 DEF Ask, AskKept, AskStored, Visible, Mine
    <3>4. q.seq < NextSeq(t)
      BY <3>3, NextIsAfter
    <3>5. ASSUME t \notin torn PROVE NextSeq(t) = q.seq + 1
      <4>1. turn[t].unsaved = {q}
        BY <3>1, <3>5 DEF AskKept, AskStored
      <4>2. Seqs(Visible(t)) = 1..q.seq
        BY <3>3, <4>1, PendingIsLast
      <4>3. q.seq \in Nat /\ q.seq + 1 \notin 1..q.seq
        BY <3>3 DEF Message
      <4>. QED
        BY <2>1, <3>4, <4>2, <4>3
    <3>6. Follows(t, q)'
      BY <2>2, <2>3, <3>4, <3>5 DEF Follows
    <3>7. Place(t)'
      BY <2>2, <2>3, <2>5, <3>2, <3>6 DEF Place, At, Early, Middle, Late, Ended
    <3>8. Trace(t)'
      BY <2>2, <2>3, <2>5 DEF At, Trace, Early, Late, OnScreen
    <3>. QED
      BY <2>3, <3>7, <3>8
  <2>. QED
    BY <1>3, <2>4, <2>5 DEF Number, At
<1>4. CASE Insert(t)
  <2>. DEFINE change == [turn[t] EXCEPT !.unsaved = @ \cup {Row(t)},
              !.stage = IF @ = "asking" THEN "asked" ELSE "replied"]
  <2>1. /\ turn[t].number \in Nat \ {0}
        /\ Row(t).seq = turn[t].number /\ Row(t).turn = t
        /\ Row(t).text = IF At(t, "asking") THEN "question" ELSE turn[t].text
    BY <1>4, InsertIsNext DEF Row
  <2>2. Row(t) \in Message
    BY <1>1, <1>4, <2>1 DEF Insert, Row, Message, Trace, At
  <2>3. /\ change \in Turn /\ change.unsaved = turn[t].unsaved \cup {Row(t)}
        /\ change.run = turn[t].run /\ change.text = turn[t].text
        /\ change.shown = turn[t].shown
        /\ change.stage = IF At(t, "asking") THEN "asked" ELSE "replied"
    BY <1>1, <2>2 DEF Turn, Stages, At
  <2>. HIDE DEF change
  <2>9. PICK row : row = Row(t)
    OBVIOUS
  <2>4. /\ TypeOK' /\ turn'[t] = change /\ Mine(t)' = Mine(t)
        /\ run' = run /\ torn' = torn
    BY <1>4, <2>3, Moved DEF Insert, change
  <2>5. CASE At(t, "asking")
    <3>1. turn'[t].unsaved = {row} /\ NothingStored(t)'
      BY <2>3, <2>4, <2>5, <2>9 DEF At, Place, Early, NothingStored
    <3>2. Ask(t, row) /\ AskKept(t, row)' /\ Follows(t, row)'
      BY <2>1, <2>2, <2>9, <2>3, <2>4, <2>5, <3>1 DEF Ask, AskKept, Follows
    <3>3. Place(t)'
      BY <2>3, <2>4, <2>5, <3>2 DEF Place, Ask, At, Early, Middle, Late, Ended
    <3>4. Trace(t)'
      BY <2>3, <2>4, <2>5 DEF At, Trace, Early, Late
    <3>. QED
      BY <2>4, <3>3, <3>4
  <2>6. CASE At(t, "replying")
    <3>1. PICK q : Ask(t, q) /\ AskKept(t, q) /\ Follows(t, q)
      BY <2>6 DEF At, Place, Middle
    <3>2. turn[t].text \in Replies
      BY <2>6 DEF At, Trace
    <3>3. Exchange(t, q, row) /\ row.text = turn[t].text
      BY <2>1, <2>2, <2>9, <2>6, <3>1, <3>2 DEF Exchange, At, Follows
    <3>4. BothKept(t, q, row)'
      BY <2>1, <2>3, <2>9, <2>4, <2>6, <3>1
         DEF At, AskKept, AskStored, NothingStored, BothKept, Follows
    <3>5. Place(t)'
      BY <2>3, <2>4, <2>6, <3>3, <3>4
         DEF Place, Exchange, Ask, At, Early, Middle, Late, Ended
    <3>6. Trace(t)'
      BY <2>3, <2>4, <2>6 DEF At, Trace, Early, Late, OnScreen
    <3>. QED
      BY <2>4, <3>5, <3>6
  <2>. QED
    BY <1>4, <2>5, <2>6 DEF Insert, At
<1>5. CASE Collide(t)
  <2>1. ASSUME turn[t].shown \in Replies PROVE t \in torn
    <3>1. At(t, "replying")
      BY <1>5, <2>1 DEF Collide, At, Trace, Early, Replies, Partial
    <3>2. PICK q : Ask(t, q) /\ AskKept(t, q) /\ Follows(t, q)
      BY <3>1 DEF At, Place, Middle
    <3>3. ASSUME t \notin torn PROVE FALSE
      <4>1. q \in Message /\ turn[t].unsaved = {q} /\ turn[t].number = q.seq + 1
        BY <3>1, <3>2, <3>3 DEF At, Ask, AskKept, AskStored, Follows
      <4>2. turn[t].number \notin Seqs(Visible(t))
        BY <4>1, PendingIsLast DEF Message
      <4>. QED
        BY <1>5, <4>2 DEF Collide, Taken
    <3>. QED
      BY <3>3
  <2>. QED
    BY <1>5, <2>1, RolledBack DEF Collide, Ended
<1>6. CASE CountMessages(t)
  <2>1. PICK n \in Nat : Seqs(Visible(t)) = 1..n
    BY DEF Numbers, UpTo
  <2>2. Messages(t) = n
    BY <2>1, RowsCounted DEF Numbers, Messages
  <2>. DEFINE change == [turn[t] EXCEPT !.stage = "counted",
                                        !.number = Messages(t)]
  <2>3. /\ change \in Turn /\ change.unsaved = turn[t].unsaved
        /\ change.run = turn[t].run /\ change.text = turn[t].text
        /\ change.shown = turn[t].shown /\ change.stage = "counted"
    BY <1>1, <2>2 DEF Turn, Stages
  <2>. HIDE DEF change
  <2>4. /\ TypeOK' /\ turn'[t] = change /\ Mine(t)' = Mine(t)
        /\ run' = run /\ torn' = torn
    BY <1>6, <2>3, Moved DEF CountMessages, change
  <2>5. PICK q, a : Exchange(t, q, a) /\ BothKept(t, q, a) /\ a.text = turn[t].text
    BY <1>6 DEF CountMessages, At, Place, Late
  <2>6. BothKept(t, q, a)'
    BY <2>3, <2>4, <2>5 DEF BothKept, AskStored, NothingStored
  <2>7. Place(t)'
    BY <2>3, <2>4, <2>5, <2>6
       DEF Place, Exchange, Ask, At, Early, Middle, Late, Ended
  <2>8. Trace(t)'
    BY <1>6, <2>3, <2>4 DEF CountMessages, At, Trace, Early, Late, OnScreen
  <2>. QED
    BY <2>4, <2>7, <2>8
<1>7. CASE Commit(t)
  <2>. DEFINE change == [turn[t] EXCEPT !.stage = "saved", !.unsaved = {}]
  <2>1. /\ change \in Turn /\ change.unsaved = {} /\ change.stage = "saved"
        /\ change.run = turn[t].run /\ change.text = turn[t].text
        /\ change.shown = turn[t].shown
    BY <1>1 DEF Turn, Stages
  <2>2. turn'[t] = change /\ turn' = [turn EXCEPT ![t] = change]
    BY <1>1, <1>7 DEF Commit, TypeOK, Turn
  <2>. HIDE DEF change
  <2>3. TypeOK'
    BY <1>1, <1>7, <2>1, <2>2
       DEF Commit, InlineTitle, TypeOK, Visible, Turn, Titles, enrichment
  <2>4. PICK q, a : Exchange(t, q, a) /\ BothKept(t, q, a) /\ a.text = turn[t].text
    BY <1>7 DEF Commit, At, Place, Late
  <2>5. Mine(t)' = {q, a}
    <3>1. message' = message \cup turn[t].unsaved
      BY <1>7 DEF Commit, Visible
    <3>. QED
      BY <2>4, <3>1
         DEF Mine, BothKept, AskStored, NothingStored, Exchange, Ask
  <2>6. run'[t] = turn[t].run /\ torn' = torn
    BY <1>7 DEF Commit, TypeOK
  <2>7. Matches(a.text, run'[t])
    BY <1>7, <2>4, <2>6 DEF Commit, At, Trace, Late
  <2>8. BothStored(t, q, a)'
    BY <2>4, <2>5, <2>6, <2>7 DEF BothStored, BothKept, AskStored, Matches
  <2>9. Place(t)'
    BY <2>1, <2>2, <2>4, <2>8
       DEF Place, Exchange, Ask, At, Early, Middle, Late, Ended
  <2>10. Trace(t)'
    BY <1>7, <2>1, <2>2 DEF Commit, At, Trace, Early, Late, OnScreen
  <2>. QED
    BY <2>3, <2>9, <2>10
<1>8. CASE Finish(t)
  <2>. DEFINE shown == IF t \in Streamed THEN turn[t].shown ELSE turn[t].text
  <2>. DEFINE change == [Over(t, "done") EXCEPT !.shown = shown]
  <2>1. PICK q, a : Exchange(t, q, a) /\ BothStored(t, q, a) /\ a.text = turn[t].text
    BY <1>8 DEF Finish, At, Place
  <2>2. /\ Seen(t, shown, turn[t].text)
        /\ shown \in Partial => t \in Streamed
        /\ turn[t].text \in Replies
    BY <1>8 DEF Finish, At, Trace, Seen, OnScreen, Replies, Partial
  <2>. HIDE DEF shown
  <2>3. /\ change \in Turn /\ change.unsaved = {} /\ change.stage = "done"
        /\ change.shown = shown
    <3>1. shown \in Replies \cup {"none"} \cup Partial
      BY <2>2 DEF Seen, Partial
    <3>2. /\ Over(t, "done") \in Turn /\ Over(t, "done").unsaved = {}
          /\ Over(t, "done").stage = "done"
      BY <1>1 DEF Over, NewTurn, Turn, Stages, Titles, RunStatuses, Ended
    <3>. QED
      BY <3>1, <3>2 DEF Turn
  <2>4. turn' = [turn EXCEPT ![t] = change]
    BY <1>8 DEF Finish, Over, NewTurn, shown
  <2>. HIDE DEF change
  <2>5. /\ turn'[t] = change /\ Mine(t)' = Mine(t) /\ run' = run /\ torn' = torn
    BY <1>8, <2>4 DEF Finish, TypeOK, conversation, Mine
  <2>6. TypeOK'
    BY <1>8, <2>3, <2>4 DEF Finish, TypeOK, Queued, conversation
  <2>7. BothStored(t, q, a)'
    BY <2>1, <2>5 DEF BothStored
  <2>8. Place(t)'
    BY <2>1, <2>2, <2>3, <2>5, <2>7
       DEF Place, Exchange, Ask, At, Early, Middle, Late, Ended
  <2>9. Trace(t)'
    BY <2>2, <2>3, <2>5 DEF At, Trace, Early, Late
  <2>. QED
    BY <2>6, <2>8, <2>9
<1>9. CASE Die(t)
  BY <1>9, RolledBack DEF Die, Ended
<1>. QED
  BY <1>2, <1>3, <1>4, <1>5, <1>6, <1>7, <1>8, <1>9

-----------------------------------------------------------------------------
(* A turn stays where it is when nothing of its own changes.               *)
LEMMA Untouched ==
  ASSUME NEW u \in Turns, Place(u), Trace(u),
         turn'[u] = turn[u], Mine(u)' = Mine(u), run'[u] = run[u],
         u \in torn' <=> u \in torn
  PROVE  Place(u)' /\ Trace(u)'
<1>1. NothingStored(u)' <=> NothingStored(u)
  BY DEF NothingStored
<1>2. ASSUME NEW q
      PROVE  /\ AskStored(u, q)' <=> AskStored(u, q)
             /\ AskKept(u, q)' <=> AskKept(u, q)
             /\ Follows(u, q)' <=> Follows(u, q)
             /\ Ask(u, q)' <=> Ask(u, q)
  BY <1>1 DEF AskStored, AskKept, Follows, Ask
<1>3. ASSUME NEW q, NEW a
      PROVE  /\ BothStored(u, q, a)' <=> BothStored(u, q, a)
             /\ BothKept(u, q, a)' <=> BothKept(u, q, a)
             /\ Exchange(u, q, a)' <=> Exchange(u, q, a)
  BY <1>1, <1>2 DEF BothStored, BothKept, Exchange
<1>4. Place(u)'
  BY <1>1, <1>2, <1>3 DEF Place, At
<1>5. Trace(u)'
  BY DEF Trace, OnScreen
<1>. QED
  BY <1>4, <1>5

(* What a turn's session holds is the turn's own.                          *)
LEMMA UnsavedIsMine ==
  ASSUME TypeOK, NEW t \in Turns, Place(t)
  PROVE  \A m \in turn[t].unsaved : m.turn = t
<1>1. turn[t].stage \in Early \cup Middle \cup Late \cup {"saved"} \cup Ended
  BY DEF TypeOK, Turn, Stages, Early, Middle, Late
<1>. QED
  BY <1>1 DEF Place, AskKept, BothKept, Exchange, Ask

(* A step of a turn changes no other turn's run, nor whether it is torn.   *)
LEMMA ActIsOwn ==
  ASSUME TypeOK, NEW t \in Turns, Act(t), NEW u \in Turns \ {t}
  PROVE  run'[u] = run[u] /\ (u \in torn' <=> u \in torn)
<1>1. ASSUME NEW change, Move(t, change) PROVE run' = run /\ torn' = torn
  BY <1>1 DEF Move, conversation
<1>2. ASSUME NEW stage, Rollback(t, stage) PROVE run' = run /\ torn' = torn
  BY <1>2 DEF Rollback, conversation
<1>3. ASSUME NEW stage, CommitHalfWay(t, stage)
      PROVE  run'[u] = run[u] /\ (u \in torn' <=> u \in torn)
  BY <1>3 DEF CommitHalfWay, TypeOK
<1>4. CASE Reply(t)
  BY <1>1, <1>2, <1>3, <1>4
     DEF Reply, Recall, RouteFails, OpenRun, Retrieve, ToolCommits, ShowDelta,
         RunSucceeds, RunIsSilent, RunFails, Ground, FallbackAnswers, FallbackFails
<1>5. CASE Commit(t)
  BY <1>5 DEF Commit, TypeOK
<1>6. CASE Finish(t)
  BY <1>6 DEF Finish, conversation
<1>. QED
  BY <1>1, <1>2, <1>4, <1>5, <1>6
     DEF Act, Step, Open, Number, Insert, Collide, CountMessages, Die

(* A step of a turn keeps every turn's place.                              *)
LEMMA PlacesAct ==
  ASSUME TypeOK, Numbers, Places, NEW t \in Turns, Act(t)
  PROVE  TypeOK' /\ Places'
<1>1. Place(t) /\ Trace(t)
  BY DEF Places
<1>2. Good(t)
  BY <1>1, ReplyKeeps, HandlerKeeps DEF Act, Step
<1>3. ASSUME NEW u \in Turns \ {t} PROVE Place(u)' /\ Trace(u)'
  <2>1. turn'[u] = turn[u]
    BY ActShape DEF Others
  <2>2. message' = message \/ message' = message \cup turn[t].unsaved
    BY <1>2, ActShape
       DEF Keeps, Forgets, Settles, Visible, Insert, Move, conversation
  <2>3. Mine(u)' = Mine(u)
    BY <1>1, <2>2, UnsavedIsMine DEF Mine
  <2>. QED
    BY <2>1, <2>3, ActIsOwn, Untouched DEF Places
<1>. QED
  BY <1>2, <1>3 DEF Good, Places

(* The thread's title and its enrichment touch no turn and no message.     *)
LEMMA BackgroundKeeps ==
  ASSUME Inv, Rename \/ Work \/ LoseQueue \/ UNCHANGED vars
  PROVE  Inv'
<1>1. UNCHANGED <<message, run, turn, torn>>
  BY DEF Rename, Work, TakeJob, WriteTitle, DropJob, LoseQueue, vars,
         conversation, enrichment
<1>2. TypeOK'
  <2>1. TypeOK
    BY DEF Inv
  <2>2. CASE Rename
    BY <2>1, <2>2 DEF Rename, TypeOK, Titles, enrichment
  <2>3. CASE \E t \in Turns : TakeJob(t)
    BY <2>1, <2>3 DEF TakeJob, TypeOK, conversation
  <2>4. CASE WriteTitle
    BY <2>1, <2>4 DEF WriteTitle, TypeOK, Titles
  <2>5. CASE DropJob
    BY <2>1, <2>5 DEF DropJob, TypeOK, conversation
  <2>6. CASE LoseQueue
    BY <2>1, <2>6 DEF LoseQueue, TypeOK, conversation
  <2>7. CASE UNCHANGED vars
    BY <2>1, <2>7 DEF vars, conversation, enrichment, TypeOK
  <2>. QED
    BY <2>2, <2>3, <2>4, <2>5, <2>6, <2>7 DEF Work
<1>3. \A t \in Turns : Visible(t)' = Visible(t) /\ Mine(t)' = Mine(t)
  BY <1>1 DEF Visible, Mine
<1>4. Numbers'
  BY <1>1, <1>3
     DEF Inv, Numbers, UpTo, Distinct, Fresh, ReadNumber, OneWriter, Seqs
<1>5. Places'
  BY <1>1, <1>3, Untouched DEF Inv, Places
<1>. QED
  BY <1>2, <1>4, <1>5 DEF Inv

LEMMA InitInv == Init => Inv
<1>. SUFFICES ASSUME Init PROVE Inv
  OBVIOUS
<1>1. TypeOK /\ Numbers
  BY InitNumbers
<1>2. ASSUME NEW t \in Turns PROVE Place(t) /\ Trace(t)
  <2>1. /\ turn[t].stage = "idle" /\ turn[t].unsaved = {}
        /\ turn[t].run = "none" /\ turn[t].shown = "none"
    BY DEF Init, NewTurn
  <2>2. NothingStored(t)
    BY DEF Init, NothingStored, Mine
  <2>. QED
    BY <2>1, <2>2
       DEF Place, Trace, Partial, At, Early, Middle, Late, Ended
<1>. QED
  BY <1>1, <1>2 DEF Inv, Places

LEMMA NextInv == Inv /\ [Next]_vars => Inv'
<1>. SUFFICES ASSUME Inv, [Next]_vars PROVE Inv'
  OBVIOUS
<1>1. ASSUME NEW t \in Turns, Act(t) PROVE Inv'
  BY <1>1, NumbersAct, PlacesAct DEF Inv
<1>. QED
  BY <1>1, BackgroundKeeps DEF Next, Act

LEMMA Invariance == Spec => []Inv
<1>. QED
  BY InitInv, NextInv, PTL DEF Spec

-----------------------------------------------------------------------------
(* Every variable keeps its type, whatever the turns, the worker and the   *)
(* user do.                                                                *)
THEOREM TypeCorrect == Spec => []TypeOK
<1>1. Inv => TypeOK
  BY DEF Inv
<1>. QED
  BY <1>1, Invariance, PTL

(* The numbers of messages keep two turns from having uncommitted messages *)
(* of the conversation at the same time.                                   *)
THEOREM OneWriterAtATime == Spec => []OneWriter
<1>1. Inv => OneWriter
  BY DEF Inv, Numbers
<1>. QED
  BY <1>1, Invariance, PTL

(* What a place says of a turn's questions and replies in the database.    *)
LEMMA StoredMessages ==
  ASSUME NEW t \in Turns
  PROVE  /\ NothingStored(t) => Questions(t) = {} /\ Answers(t) = {}
         /\ \A q : Ask(t, q) /\ AskStored(t, q) =>
              Questions(t) = {q} /\ Answers(t) = {}
         /\ \A q, a : Exchange(t, q, a) /\ BothStored(t, q, a) =>
              Questions(t) = {q} /\ Answers(t) = {a}
<1>1. /\ Questions(t) = {m \in Mine(t) : m.text = "question"}
      /\ Answers(t) = {m \in Mine(t) : m.text \in Replies}
  BY DEF Questions, Answers, Mine
<1>. QED
  BY <1>1 DEF NothingStored, AskStored, BothStored, Ask, Exchange, Replies

(* A turn that nothing committed half way is in the database as a whole,   *)
(* its reply right behind its question, or not at all.                     *)
THEOREM TurnsAreWhole == Spec => []WholeUnlessTorn
<1>1. ASSUME Inv PROVE WholeUnlessTorn
  <2>. SUFFICES ASSUME NEW t \in Turns, t \notin torn
                PROVE  \/ /\ Questions(t) = {} /\ Answers(t) = {}
                          /\ run[t] = "none"
                       \/ /\ run[t] # "running"
                          /\ \E q \in Questions(t), a \in Answers(t) :
                               /\ Questions(t) = {q} /\ Answers(t) = {a}
                               /\ a.seq = q.seq + 1
    BY DEF WholeUnlessTorn
  <2>1. \/ NothingStored(t)
        \/ \E q, a : Exchange(t, q, a) /\ BothStored(t, q, a)
    BY <1>1, WhatIsStored DEF Inv, Places, AskStored
  <2>2. CASE NothingStored(t)
    BY <2>2, StoredMessages DEF NothingStored
  <2>3. ASSUME NEW q, NEW a, Exchange(t, q, a), BothStored(t, q, a)
        PROVE  /\ run[t] # "running" /\ a.seq = q.seq + 1
               /\ Questions(t) = {q} /\ Answers(t) = {a}
    BY <2>3, StoredMessages DEF BothStored, Matches
  <2>. QED
    BY <2>1, <2>2, <2>3
<1>. QED
  BY <1>1, Invariance, PTL

(* A stored reply has its question before it and the trace of where it     *)
(* came from beside it, and a run stored as succeeded has its reply.       *)
THEOREM TracesMatch == Spec => []RepliesMatchTheirTrace
<1>1. ASSUME Inv PROVE RepliesMatchTheirTrace
  <2>1. ASSUME NEW t \in Turns
        PROVE  \/ Answers(t) = {} /\ run[t] # "succeeded"
               \/ \E q, a : /\ Questions(t) = {q} /\ Answers(t) = {a}
                            /\ q.seq < a.seq /\ Matches(a.text, run[t])
    <3>1. CASE NothingStored(t)
      BY <3>1, StoredMessages DEF NothingStored
    <3>2. CASE \E q : Ask(t, q) /\ AskStored(t, q)
      BY <3>2, StoredMessages DEF AskStored
    <3>3. CASE \E q, a : Exchange(t, q, a) /\ BothStored(t, q, a)
      BY <3>3, StoredMessages DEF BothStored, Exchange
    <3>. QED
      BY <1>1, <3>1, <3>2, <3>3, WhatIsStored DEF Inv, Places
  <2>. QED
    BY <2>1 DEF RepliesMatchTheirTrace, Matches
<1>. QED
  BY <1>1, Invariance, PTL

(* What a client was shown when its turn is over is the stored reply, the  *)
(* deltas of a failed run before the stored fallback, or nothing of the    *)
(* sentence stored for a run that said nothing.                            *)
THEOREM ShownMatches == Spec => []ShownIsStored
<1>1. ASSUME Inv PROVE ShownIsStored
  <2>. SUFFICES ASSUME NEW t \in Turns, At(t, "done")
                PROVE  \E a \in Answers(t) :
                         \/ turn[t].shown = a.text
                         \/ turn[t].shown \in Partial /\ a.text = "fallback"
                         \/ /\ t \in Streamed /\ a.text = "standin"
                            /\ turn[t].shown \in {"none", "empty"}
    BY DEF ShownIsStored
  <2>. QED
    BY <1>1, StoredMessages DEF Inv, Places, Place, At, Seen
<1>. QED
  BY <1>1, Invariance, PTL

(* A turn fails after its client saw a whole reply only when it was        *)
(* committed half way.                                                     *)
THEOREM ShownAreKept == Spec => []ShownRepliesAreKept
<1>1. Inv => ShownRepliesAreKept
  BY DEF Inv, Places, Place, ShownRepliesAreKept
<1>. QED
  BY <1>1, Invariance, PTL

-----------------------------------------------------------------------------
(* The count of messages.  The turn that has counted still holds the       *)
(* numbers, so that nobody can add a message between its count and its     *)
(* commit, and what it counted is the number of its reply.                 *)
IsReply(m) == m.text \in Replies

Counted(t) ==
  At(t, "counted") =>
    /\ \E a \in turn[t].unsaved : IsReply(a) /\ a.seq = turn[t].number
    /\ \A m \in Visible(t) : m.seq <= turn[t].number

Tally ==
  /\ count = 0 \/ \E a \in message : IsReply(a) /\ a.seq = count
  /\ \A a \in message : IsReply(a) => a.seq <= count
  /\ \A t \in Turns : Counted(t)

(* The largest of a set of numbers.                                        *)
LEMMA MaxIs ==
  ASSUME NEW S \in SUBSET Nat, NEW n \in S, \A y \in S : y <= n
  PROVE  Max(S) = n
<1>1. \A x \in S : (\A y \in S : x >= y) => x = n
  OBVIOUS
<1>2. \A y \in S : n >= y
  OBVIOUS
<1>3. (CHOOSE x \in S : \A y \in S : x >= y) = n
  BY <1>1, <1>2
<1>. QED
  BY <1>3 DEF Max

(* A turn that counts its messages counts up to its reply.                 *)
LEMMA CountsItsReply ==
  ASSUME Inv, NEW t \in Turns, CountMessages(t)
  PROVE  Counted(t)'
<1>1. turn[t] \in Turn /\ Place(t)
  BY DEF Inv, TypeOK, Places
<1>2. PICK k \in Nat : Seqs(Visible(t)) = 1..k
  BY DEF Inv, Numbers, UpTo
<1>3. PICK n \in Nat : Seqs(message) = 1..n
  BY DEF Inv, Numbers, UpTo
<1>4. Messages(t) = k
  BY <1>2, RowsCounted DEF Messages, Inv, Numbers
<1>5. PICK q, a : Exchange(t, q, a) /\ BothKept(t, q, a)
  BY <1>1 DEF CountMessages, At, Place, Late
<1>6. /\ a \in turn[t].unsaved /\ IsReply(a) /\ a.seq \in Nat \ {0}
      /\ q.seq \in Nat \ {0} /\ q.seq < a.seq
      /\ \A m \in turn[t].unsaved : m = q \/ m = a
  BY <1>5 DEF BothKept, Exchange, Ask, Message, IsReply
<1>7. a.seq = k
  <2>1. a.seq \in 1..k /\ (k \in 1..n \/ k = q.seq \/ k = a.seq)
    <3>1. a.seq \in Seqs(Visible(t))
      BY <1>6 DEF Visible, Seqs
    <3>2. k \in Seqs(Visible(t))
      BY <1>2, <1>6, <3>1
    <3>. QED
      BY <1>2, <1>3, <1>6, <3>1, <3>2 DEF Visible, Seqs
  <2>2. a.seq \notin 1..n
    BY <1>3, <1>6 DEF Inv, Numbers, Fresh
  <2>. QED
    BY <1>6, <2>1, <2>2
<1>8. \A m \in Visible(t) : m.seq \in 1..k
  BY <1>2 DEF Seqs
<1>9. /\ turn'[t].number = k /\ turn'[t].unsaved = turn[t].unsaved
      /\ message' = message
  BY <1>1, <1>4 DEF CountMessages, Move, conversation, Inv, TypeOK, Turn
<1>. QED
  BY <1>6, <1>7, <1>8, <1>9 DEF Counted, Visible

(* Nobody adds a message while a turn that has counted is to commit.       *)
LEMMA CountStands ==
  ASSUME Inv, NEW t \in Turns, Act(t), NEW u \in Turns \ {t}, Counted(u)
  PROVE  Counted(u)'
<1>1. turn'[u] = turn[u]
  BY ActShape DEF Inv, Others
<1>2. CASE turn[u].unsaved = {}
  BY <1>1, <1>2 DEF Counted, At
<1>3. CASE turn[t].unsaved = {}
  <2>1. message' = message
    BY <1>3, ActShape
       DEF Inv, Keeps, Forgets, Settles, Visible, Insert, Move, conversation
  <2>. QED
    BY <1>1, <2>1 DEF Counted, At, Visible
<1>. QED
  BY <1>2, <1>3 DEF Inv, Numbers, OneWriter

(* A step of a turn that is not its last commit adds no reply.             *)
LEMMA RepliesComeLast ==
  ASSUME Inv, NEW t \in Turns, Act(t), ~Commit(t)
  PROVE  /\ count' = count
         /\ message \subseteq message'
         /\ \A m \in message' : IsReply(m) => m \in message
<1>1. Place(t) /\ Trace(t)
  BY DEF Inv, Places
<1>2. ASSUME NEW change, Move(t, change)
      PROVE  message' = message /\ count' = count
  BY <1>2 DEF Move, conversation
<1>3. ASSUME NEW stage, Rollback(t, stage)
      PROVE  message' = message /\ count' = count
  BY <1>3 DEF Rollback, conversation
<1>4. ASSUME NEW stage, CommitHalfWay(t, stage), turn[t].stage \in Middle
      PROVE  /\ count' = count /\ message \subseteq message'
             /\ \A m \in message' : IsReply(m) => m \in message
  <2>1. PICK q : Ask(t, q) /\ AskKept(t, q)
    BY <1>1, <1>4 DEF Place
  <2>2. \A m \in turn[t].unsaved : ~IsReply(m)
    BY <2>1 DEF AskKept, Ask, IsReply, Replies
  <2>. QED
    BY <1>4, <2>2 DEF CommitHalfWay, Visible
<1>5. CASE Reply(t)
  BY <1>2, <1>3, <1>4, <1>5
     DEF Reply, Recall, RouteFails, OpenRun, Retrieve, ToolCommits, ShowDelta,
         RunSucceeds, RunIsSilent, RunFails, Ground, FallbackAnswers, FallbackFails, At,
         Middle
<1>6. CASE Finish(t)
  BY <1>6 DEF Finish, conversation
<1>. QED
  BY <1>2, <1>3, <1>5, <1>6
     DEF Act, Step, Open, Number, Insert, Collide, CountMessages, Die

(* Only a turn that counts its messages comes to have counted them.        *)
LEMMA NeverCounted ==
  ASSUME Inv, NEW t \in Turns, Act(t), ~CountMessages(t), ~Commit(t),
         Counted(t)
  PROVE  Counted(t)'
<1>1. turn[t] \in Turn
  BY DEF Inv, TypeOK
<1>2. ASSUME NEW change, Move(t, change) PROVE turn'[t] = change
  BY <1>2 DEF Move, Inv, TypeOK
<1>3. ASSUME NEW stage, Rollback(t, stage) PROVE turn'[t].stage = stage
  BY <1>1, <1>3 DEF Rollback, Over, NewTurn, Inv, TypeOK
<1>4. ASSUME NEW stage, CommitHalfWay(t, stage) PROVE turn'[t].stage = stage
  BY <1>1, <1>4 DEF CommitHalfWay, Inv, TypeOK, Turn
<1>5. turn'[t].stage # "counted"
  <2>1. CASE Reply(t)
    BY <1>1, <1>2, <1>3, <1>4, <2>1
       DEF Reply, Recall, RouteFails, OpenRun, Retrieve, ToolCommits,
           ShowDelta, RunSucceeds, RunIsSilent, RunFails, Ground,
           FallbackAnswers,
           FallbackFails, At, Turn
  <2>2. CASE Open(t) \/ Number(t) \/ Insert(t)
    BY <1>1, <1>2, <2>2 DEF Open, Number, Insert, Turn
  <2>3. CASE Collide(t) \/ Die(t)
    BY <1>3, <2>3 DEF Collide, Die
  <2>4. CASE Finish(t)
    BY <1>1, <2>4 DEF Finish, Over, NewTurn, Inv, TypeOK
  <2>. QED
    BY <2>1, <2>2, <2>3, <2>4 DEF Act, Step
<1>. QED
  BY <1>5 DEF Counted, At

LEMMA TallyStep ==
  ASSUME Inv, Inv', Tally, [Next]_vars
  PROVE  Tally'
<1>1. ASSUME NEW t \in Turns, Act(t), ~Commit(t) PROVE Tally'
  <2>1. Counted(t)'
    <3>1. CASE CountMessages(t)
      BY <3>1, CountsItsReply
    <3>2. CASE ~CountMessages(t)
      BY <1>1, <3>2, NeverCounted DEF Tally
    <3>. QED
      BY <3>1, <3>2
  <2>2. \A u \in Turns \ {t} : Counted(u)'
    BY <1>1, CountStands DEF Tally
  <2>. QED
    BY <1>1, <2>1, <2>2, RepliesComeLast DEF Tally
<1>2. ASSUME NEW t \in Turns, Commit(t) PROVE Tally'
  <2>1. /\ message' = Visible(t) /\ count' = turn[t].number
        /\ Counted(t) /\ At(t, "counted") /\ At(t, "saved")'
    BY <1>2 DEF Commit, Tally, Inv, TypeOK, At, Turn
  <2>2. \A u \in Turns \ {t} : Counted(u)'
    BY <1>2, CountStands DEF Tally, Act, Step
  <2>3. Counted(t)'
    BY <2>1 DEF Counted, At
  <2>4. \E a \in message' : IsReply(a) /\ a.seq = count'
    BY <2>1 DEF Counted, Visible
  <2>5. \A a \in message' : a.seq <= count'
    BY <2>1 DEF Counted
  <2>. QED
    BY <2>2, <2>3, <2>4, <2>5 DEF Tally
<1>3. CASE Rename \/ Work \/ LoseQueue \/ UNCHANGED vars
  <2>1. UNCHANGED <<message, count, turn>>
    BY <1>3 DEF Rename, Work, TakeJob, WriteTitle, DropJob, LoseQueue,
                vars, conversation, enrichment
  <2>. QED
    BY <2>1 DEF Tally, Counted, At, Visible
<1>. QED
  BY <1>1, <1>2, <1>3 DEF Next, Act, Step

(* The stored number of messages is the number of the last reply, however  *)
(* turns overlap.                                                          *)
THEOREM CountIsTheLastReply == Spec => []CountReachesTheLastReply
<1>1. Init => Tally
  BY DEF Init, Tally, Counted, At, NewTurn
<1>2. ASSUME Inv, Tally PROVE CountReachesTheLastReply
  <2>. DEFINE replies == UNION {Answers(t) : t \in Turns}
  <2>1. replies = {m \in message : IsReply(m)}
    BY <1>2 DEF Inv, TypeOK, Message, Answers, IsReply
  <2>2. \A m \in message : m.seq \in Nat
    BY <1>2 DEF Inv, TypeOK, Message
  <2>. DEFINE S == {0} \cup Seqs(replies)
  <2>3. /\ S \in SUBSET Nat /\ count \in S
        /\ \A y \in S : y <= count
    BY <1>2, <2>1, <2>2 DEF Tally, Seqs, Inv, TypeOK
  <2>4. Max(S) = count
    BY <2>3, MaxIs
  <2>. QED
    BY <2>4 DEF CountReachesTheLastReply
<1>3. Inv /\ Inv' /\ Tally /\ [Next]_vars => Tally'
  BY TallyStep
<1>. QED
  BY <1>1, <1>2, <1>3, Invariance, PTL DEF Spec

-----------------------------------------------------------------------------
(* The refinement.  Rows of messages, read as a log.                       *)
Entry(m) == [turn |-> m.turn, text |-> m.text]
Entries == [turn : Turns, text : {"question"} \cup Replies]

LogOf(rows) ==
  [ i \in 1..Max({0} \cup Seqs(rows)) |->
      LET m == CHOOSE m \in rows : m.seq = i
      IN [turn |-> m.turn, text |-> m.text] ]

LEMMA LogIs ==
  ASSUME NEW rows \in SUBSET Message, NEW n \in Nat, Seqs(rows) = 1..n,
         Distinct(rows)
  PROVE  /\ LogOf(rows) \in Seq(Entries) /\ Len(LogOf(rows)) = n
         /\ DOMAIN LogOf(rows) = 1..n
         /\ \A m \in rows : m.seq \in 1..n /\ LogOf(rows)[m.seq] = Entry(m)
         /\ \A i \in 1..n : \E m \in rows : m.seq = i
<1>1. Max({0} \cup Seqs(rows)) = n
  BY MaxUpTo
<1>. DEFINE at(i) == CHOOSE m \in rows : m.seq = i
<1>2. \A i \in 1..n : at(i) \in rows /\ at(i).seq = i
  BY DEF Seqs
<1>3. \A m \in rows : m.seq \in 1..n /\ at(m.seq) = m
  BY <1>2 DEF Seqs, Distinct
<1>. HIDE DEF at
<1>4. LogOf(rows) = [i \in 1..n |-> Entry(at(i))]
  BY <1>1 DEF LogOf, Entry, at
<1>5. \A i \in 1..n : Entry(at(i)) \in Entries
  BY <1>2 DEF Entry, Entries, Message
<1>6. LogOf(rows) \in [1..n -> Entries]
  BY <1>4, <1>5
<1>7. LogOf(rows) \in Seq(Entries) /\ Len(LogOf(rows)) = n
  BY <1>6
<1>. QED
  BY <1>2, <1>3, <1>4, <1>7

(* A row with a number of its own is the last entry.                       *)
LEMMA LogAppends ==
  ASSUME NEW rows \in SUBSET Message, NEW m \in Message,
         UpTo(rows), Distinct(rows), UpTo(rows \cup {m}),
         m.seq \notin Seqs(rows)
  PROVE  LogOf(rows \cup {m}) = Append(LogOf(rows), Entry(m))
<1>. DEFINE more == rows \cup {m}
<1>1. PICK n \in Nat : Seqs(rows) = 1..n
  BY DEF UpTo
<1>2. PICK k \in Nat : Seqs(more) = 1..k
  BY DEF UpTo
<1>3. Seqs(more) = 1..n \cup {m.seq} /\ m.seq \in Nat \ {0}
  BY <1>1 DEF Seqs, Message
<1>. HIDE DEF more
<1>4. m.seq = n + 1 /\ k = n + 1
  <2>1. m.seq \in 1..k /\ m.seq \notin 1..n
    BY <1>1, <1>2, <1>3
  <2>2. n + 1 \in 1..k
    BY <1>3, <2>1
  <2>3. n + 1 \in 1..n \cup {m.seq} /\ n + 1 \notin 1..n
    BY <1>2, <1>3, <2>2
  <2>4. n + 1 = m.seq
    BY <2>3
  <2>5. k \in 1..k
    BY <2>2
  <2>6. k \in 1..n \cup {m.seq}
    BY <1>2, <1>3, <2>5
  <2>. QED
    BY <2>2, <2>4, <2>6
<1>5. /\ LogOf(rows) \in Seq(Entries) /\ Len(LogOf(rows)) = n
      /\ \A x \in rows : x.seq \in 1..n /\ LogOf(rows)[x.seq] = Entry(x)
      /\ \A i \in 1..n : \E x \in rows : x.seq = i
  BY <1>1, LogIs
<1>6. /\ LogOf(more) \in Seq(Entries) /\ Len(LogOf(more)) = n + 1
      /\ \A x \in more : LogOf(more)[x.seq] = Entry(x)
  <2>1. Distinct(more) /\ more \in SUBSET Message
    BY DEF Distinct, Seqs, more
  <2>. QED
    BY <1>2, <1>4, <2>1, LogIs
<1>7. rows \subseteq more /\ m \in more
  BY DEF more
<1>8. \A i \in 1..n : LogOf(more)[i] = LogOf(rows)[i]
  BY <1>5, <1>6, <1>7
<1>9. LogOf(more)[n + 1] = Entry(m)
  BY <1>4, <1>6, <1>7
<1>10. Entry(m) \in Entries
  BY DEF Entry, Entries, Message
<1>11. /\ Append(LogOf(rows), Entry(m)) \in Seq(Entries)
       /\ Len(Append(LogOf(rows), Entry(m))) = n + 1
       /\ \A i \in 1..n : Append(LogOf(rows), Entry(m))[i] = LogOf(rows)[i]
       /\ Append(LogOf(rows), Entry(m))[n + 1] = Entry(m)
  BY <1>5, <1>10, AppendProperties
<1>12. \A i \in 1..(n + 1) : LogOf(more)[i] = Append(LogOf(rows), Entry(m))[i]
  <2>1. \A i \in 1..(n + 1) : i \in 1..n \/ i = n + 1
    OBVIOUS
  <2>. QED
    BY <1>8, <1>9, <1>11, <2>1
<1>13. LogOf(more) = Append(LogOf(rows), Entry(m))
  BY <1>6, <1>11, <1>12, SeqEqual
<1>. QED
  BY <1>13 DEF more

(* Appending twice is appending both.                                      *)
LEMMA AppendTwice ==
  ASSUME NEW S, NEW s \in Seq(S), NEW x \in S, NEW y \in S
  PROVE  Append(Append(s, x), y) = s \o <<x, y>>
OBVIOUS

(* Without its reply, an exchange at the end leaves no gap.                *)
LEMMA HalfExchange ==
  ASSUME NEW rows \in SUBSET Message, NEW q \in Message, NEW a \in Message,
         UpTo(rows), Distinct(rows), UpTo(rows \cup {q, a}),
         q.seq \notin Seqs(rows), a.seq = q.seq + 1
  PROVE  UpTo(rows \cup {q}) /\ Distinct(rows \cup {q})
<1>1. PICK n \in Nat : Seqs(rows) = 1..n
  BY DEF UpTo
<1>2. PICK k \in Nat : Seqs(rows \cup {q, a}) = 1..k
  BY DEF UpTo
<1>3. /\ Seqs(rows \cup {q, a}) = 1..n \cup {q.seq, q.seq + 1}
      /\ Seqs(rows \cup {q}) = 1..n \cup {q.seq}
      /\ q.seq \in Nat \ {0} /\ q.seq \notin 1..n
  BY <1>1 DEF Seqs, Message
<1>4. q.seq = n + 1
  <2>1. q.seq \in 1..k
    BY <1>2, <1>3
  <2>2. n + 1 \in 1..k
    BY <1>3, <2>1
  <2>3. n + 1 \in 1..n \cup {q.seq, q.seq + 1}
    BY <1>2, <1>3, <2>2
  <2>4. n + 1 \notin 1..n /\ n + 1 # q.seq + 1
    BY <1>3
  <2>. QED
    BY <2>3, <2>4
<1>5. Seqs(rows \cup {q}) = 1..(n + 1)
  <2>1. 1..(n + 1) = 1..n \cup {n + 1}
    OBVIOUS
  <2>. QED
    BY <1>3, <1>4, <2>1
<1>6. Distinct(rows \cup {q})
  BY DEF Distinct, Seqs
<1>. QED
  BY <1>5, <1>6 DEF UpTo

(* In the log a turn has asked, or is answered, when it is in the database. *)
LEMMA LogKnows ==
  ASSUME TypeOK, Numbers, NEW t \in Turns
  PROVE  /\ T!Asked(t) <=> Questions(t) # {}
         /\ T!Answered(t) <=> Answers(t) # {}
<1>1. PICK n \in Nat : Seqs(message) = 1..n
  BY DEF Numbers, UpTo
<1>2. Log = LogOf(message)
  BY DEF Log, LogOf
<1>3. /\ DOMAIN Log = 1..n
      /\ \A m \in message : m.seq \in 1..n /\ Log[m.seq] = Entry(m)
      /\ \A i \in 1..n : \E m \in message : m.seq = i
  BY <1>1, <1>2, LogIs DEF Numbers, TypeOK
<1>4. ASSUME NEW text
      PROVE  (\E i \in DOMAIN Log : Log[i] = [turn |-> t, text |-> text])
               <=> \E m \in message : m.turn = t /\ m.text = text
  <2>1. \A m \in message : Entry(m) = [turn |-> t, text |-> text]
                             <=> m.turn = t /\ m.text = text
    BY DEF Entry
  <2>. QED
    BY <1>3, <2>1
<1>. QED
  BY <1>4 DEF T!Asked, T!Answered, T!Entered, T!Question, T!Reply, Questions,
              Answers

(* A turn's commit enters its question, its reply, or both.                *)
LEMMA SettlesInOrder ==
  ASSUME Inv, Inv', NEW t \in Turns, Settles(t), turn[t].unsaved # {}
  PROVE  T!Next
<1>1. /\ turn[t] \in Turn /\ Place(t)
      /\ message \in SUBSET Message
      /\ UpTo(message) /\ Distinct(message) /\ Fresh(t)
      /\ message' = message \cup turn[t].unsaved /\ UpTo(message')
  BY DEF Inv, TypeOK, Places, Numbers, Settles, Visible, UpTo, Seqs
<1>2. Log = LogOf(message) /\ Log' = LogOf(message')
  BY DEF Log, LogOf, Seqs
<1>3. /\ T!Asked(t) <=> Questions(t) # {}
      /\ T!Answered(t) <=> Answers(t) # {}
  BY LogKnows DEF Inv
<1>4. \/ \E q : Ask(t, q) /\ AskKept(t, q)
      \/ \E q, a : Exchange(t, q, a) /\ BothKept(t, q, a)
  BY <1>1 DEF Place, Turn, Stages, Early, Middle, Late, Ended
<1>5. ASSUME NEW q, Ask(t, q), NothingStored(t), turn[t].unsaved = {q}
      PROVE  T!EnterQuestion(t)
  <2>1. Log' = Append(Log, Entry(q))
    BY <1>1, <1>2, <1>5, LogAppends DEF Ask, Fresh
  <2>2. Entry(q) = [turn |-> t, text |-> "question"] /\ Questions(t) = {}
    BY <1>5, StoredMessages DEF Ask, Entry
  <2>. QED
    BY <1>3, <2>1, <2>2 DEF T!EnterQuestion, T!Question
<1>6. ASSUME NEW q, NEW a, Exchange(t, q, a), AskStored(t, q),
             turn[t].unsaved = {a}
      PROVE  T!EnterReply(t)
  <2>1. Log' = Append(Log, Entry(a))
    BY <1>1, <1>2, <1>6, LogAppends DEF Exchange, Fresh
  <2>2. /\ Entry(a) = [turn |-> t, text |-> a.text] /\ a.text \in Replies
        /\ Questions(t) # {} /\ Answers(t) = {}
    BY <1>6, StoredMessages DEF Exchange, Entry
  <2>. QED
    BY <1>3, <2>1, <2>2 DEF T!EnterReply, T!Reply
<1>7. ASSUME NEW q, NEW a, Exchange(t, q, a), NothingStored(t),
             turn[t].unsaved = {q, a}, a.seq = q.seq + 1
      PROVE  T!EnterExchange(t)
  <2>1. UpTo(message \cup {q}) /\ Distinct(message \cup {q})
    BY <1>1, <1>7, HalfExchange DEF Exchange, Ask, Fresh
  <2>2. /\ q \in Message /\ a \in Message
        /\ q.seq \notin Seqs(message)
        /\ a.seq \notin Seqs(message \cup {q})
    BY <1>1, <1>7 DEF Exchange, Ask, Fresh, Seqs, Message
  <2>3. message' = (message \cup {q}) \cup {a}
    BY <1>1, <1>7
  <2>4. LogOf(message \cup {q}) = Append(Log, Entry(q))
    BY <1>1, <1>2, <2>1, <2>2, LogAppends
  <2>5. Log' = Append(Append(Log, Entry(q)), Entry(a))
    BY <1>1, <1>2, <2>1, <2>2, <2>3, <2>4, LogAppends
  <2>6. /\ Entry(q) = [turn |-> t, text |-> "question"]
        /\ Entry(a) = [turn |-> t, text |-> a.text] /\ a.text \in Replies
        /\ Questions(t) = {} /\ Entry(q) \in Entries /\ Entry(a) \in Entries
    BY <1>7, StoredMessages DEF Exchange, Ask, Entry, Entries
  <2>7. Log \in Seq(Entries)
    BY <1>1, <1>2, LogIs DEF UpTo
  <2>8. Append(Append(Log, Entry(q)), Entry(a)) = Log \o <<Entry(q), Entry(a)>>
    BY <2>6, <2>7, AppendTwice
  <2>. QED
    BY <1>3, <2>5, <2>6, <2>8 DEF T!EnterExchange, T!Question, T!Reply
<1>. QED
  BY <1>4, <1>5, <1>6, <1>7 DEF AskKept, BothKept, Exchange, T!Next

(* Stored messages are an append-only log of questions and their replies.  *)
THEOREM Implements == Spec => ImplementsTranscript
<1>1. Init => T!Init
  <2>. SUFFICES ASSUME Init PROVE Log = <<>>
    BY DEF T!Init
  <2>1. message = {} /\ Seqs(message) = 1..0 /\ Distinct(message)
    BY DEF Init, Seqs, Distinct
  <2>2. Log = LogOf(message)
    BY DEF Log, LogOf
  <2>3. Log \in Seq(Entries) /\ Len(Log) = 0
    BY <2>1, <2>2, LogIs
  <2>. QED
    BY <2>3
<1>2. Inv /\ Inv' /\ [Next]_vars => [T!Next]_Log
  <2>. SUFFICES ASSUME Inv, Inv', [Next]_vars PROVE T!Next \/ Log' = Log
    OBVIOUS
  <2>1. ASSUME message' = message PROVE Log' = Log
    BY <2>1 DEF Log, Seqs
  <2>2. CASE Rename \/ Work \/ LoseQueue \/ UNCHANGED vars
    <3>1. message' = message
      BY <2>2 DEF Rename, Work, TakeJob, WriteTitle, DropJob, LoseQueue,
                  vars, conversation, enrichment
    <3>. QED
      BY <2>1, <3>1
  <2>3. ASSUME NEW t \in Turns, Act(t) PROVE T!Next \/ Log' = Log
    <3>1. message' = message \/ (Settles(t) /\ turn[t].unsaved # {})
      BY <2>3, ActShape
         DEF Inv, Keeps, Forgets, Settles, Visible, Insert, Move, conversation
    <3>. QED
      BY <2>1, <3>1, SettlesInOrder
  <2>. QED
    BY <2>2, <2>3 DEF Next, Act
<1>. QED
  BY <1>1, <1>2, Invariance, PTL DEF Spec, ImplementsTranscript, T!Spec

-----------------------------------------------------------------------------
(* Titles.  Only a turn that opens takes note of a title, and only its last *)
(* commit writes one.                                                      *)
LEMMA ActTitles ==
  ASSUME TypeOK, NEW t \in Turns, Act(t)
  PROVE  /\ worker' = worker
         /\ Commit(t) \/ title' = title
         /\ turn'[t].first =>
              \/ turn[t].first /\ turn'[t].title = turn[t].title
              \/ turn'[t].title = title
<1>1. turn[t] \in Turn
  BY DEF TypeOK
<1>. USE DEF conversation, enrichment
<1>2. ASSUME NEW change, Move(t, change)
      PROVE  worker' = worker /\ title' = title /\ turn'[t] = change
  BY <1>2 DEF Move, TypeOK
<1>3. ASSUME NEW stage, Rollback(t, stage)
      PROVE  worker' = worker /\ title' = title /\ turn'[t].first = FALSE
  BY <1>1, <1>3 DEF Rollback, Over, NewTurn, TypeOK
<1>4. ASSUME NEW stage, CommitHalfWay(t, stage)
      PROVE  /\ worker' = worker /\ title' = title
             /\ turn'[t].first = turn[t].first /\ turn'[t].title = turn[t].title
  BY <1>1, <1>4 DEF CommitHalfWay, TypeOK, Turn
<1>5. CASE Open(t)
  <2>. DEFINE change == [turn[t] EXCEPT !.stage = "opened",
              !.first = (message = {}), !.title = title]
  <2>1. change.title = title
    BY <1>1 DEF Turn
  <2>. HIDE DEF change
  <2>2. worker' = worker /\ title' = title /\ turn'[t] = change
    BY <1>2, <1>5 DEF Open, change
  <2>. QED
    BY <2>1, <2>2
<1>6. CASE Number(t) \/ Insert(t) \/ CountMessages(t)
  <2>1. CASE Number(t)
    BY <1>1, <1>2, <2>1 DEF Number, Move, Turn
  <2>2. CASE Insert(t)
    BY <1>1, <1>2, <2>2 DEF Insert, Move, Turn
  <2>3. CASE CountMessages(t)
    BY <1>1, <1>2, <2>3 DEF CountMessages, Move, Turn
  <2>. QED
    BY <1>6, <2>1, <2>2, <2>3
<1>7. CASE Collide(t) \/ Die(t)
  BY <1>3, <1>7 DEF Collide, Die
<1>8. CASE Recall(t) \/ RouteFails(t) \/ OpenRun(t) \/ ShowDelta(t)
             \/ RunSucceeds(t) \/ RunIsSilent(t) \/ RunFails(t)
             \/ FallbackAnswers(t)
  <2>1. CASE Recall(t)
    BY <1>1, <1>2, <2>1 DEF Recall, Move, Turn
  <2>2. CASE RouteFails(t)
    BY <1>1, <1>2, <2>2 DEF RouteFails, Move, Turn
  <2>3. CASE OpenRun(t)
    BY <1>1, <1>2, <2>3 DEF OpenRun, Move, Turn
  <2>4. CASE ShowDelta(t)
    BY <1>1, <1>2, <2>4 DEF ShowDelta, Move, Turn
  <2>5. CASE RunSucceeds(t)
    BY <1>1, <1>2, <2>5 DEF RunSucceeds, Move, Turn
  <2>8. CASE RunIsSilent(t)
    BY <1>1, <1>2, <2>8 DEF RunIsSilent, Move, Turn
  <2>6. CASE RunFails(t)
    BY <1>1, <1>2, <2>6 DEF RunFails, Move, Turn
  <2>7. CASE FallbackAnswers(t)
    BY <1>1, <1>2, <2>7 DEF FallbackAnswers, Move, Turn
  <2>. QED
    BY <1>8, <2>1, <2>2, <2>3, <2>4, <2>5, <2>6, <2>7, <2>8
<1>9. CASE Retrieve(t) \/ ToolCommits(t) \/ Ground(t)
  <2>1. CASE Retrieve(t)
    BY <1>1, <1>2, <1>4, <2>1 DEF Retrieve, Move, Turn
  <2>2. CASE ToolCommits(t)
    BY <1>1, <1>2, <1>4, <2>2 DEF ToolCommits, Move, Turn
  <2>3. CASE Ground(t)
    BY <1>1, <1>2, <1>4, <2>3 DEF Ground, Move, Turn
  <2>. QED
    BY <1>9, <2>1, <2>2, <2>3
<1>10. CASE FallbackFails(t)
  BY <1>3, <1>10 DEF FallbackFails
<1>11. CASE Commit(t)
  BY <1>1, <1>11 DEF Commit, TypeOK, Turn
<1>12. CASE Finish(t)
  BY <1>1, <1>12 DEF Finish, Over, NewTurn, TypeOK
<1>. QED
  BY <1>5, <1>6, <1>7, <1>8, <1>9, <1>10, <1>11, <1>12 DEF Act, Step, Reply

(* A user's title stays, once all who had found no title are done.         *)
THEOREM TitlesStick == Spec => UserTitlesStick
<1>1. ASSUME TypeOK, TitleSettled, [Next]_vars PROVE TitleSettled'
  <2>1. ASSUME NEW t \in Turns, Act(t) PROVE TitleSettled'
    <3>1. title' = title
      BY <1>1, <2>1, ActTitles DEF Commit, InlineTitle, TitleSettled
    <3>2. \A u \in Turns \ {t} : turn'[u] = turn[u]
      BY <1>1, <2>1, ActShape DEF Others
    <3>. QED
      BY <1>1, <2>1, <3>1, <3>2, ActTitles DEF TitleSettled
  <2>2. CASE Rename
    BY <1>1, <2>2 DEF Rename, TitleSettled, enrichment
  <2>3. CASE \E t \in Turns : TakeJob(t)
    BY <1>1, <2>3 DEF TakeJob, TitleSettled, conversation
  <2>4. CASE LoseQueue
    BY <1>1, <2>4 DEF LoseQueue, TitleSettled, conversation
  <2>5. CASE UNCHANGED vars
    BY <1>1, <2>5 DEF TitleSettled, vars, conversation, enrichment
  <2>. QED
    BY <1>1, <2>1, <2>2, <2>3, <2>4, <2>5
       DEF Next, Act, Work, WriteTitle, DropJob, TitleSettled
<1>. QED
  BY <1>1, TypeCorrect, PTL DEF Spec, UserTitlesStick

-----------------------------------------------------------------------------
(* PACKING.  What a turn's prompt gets of the knowledge that is retrieved, *)
(* by the loop that packs it: by induction over the items.                 *)

(* A set of positions that is not empty has a first one.                   *)
LEMMA FirstOfAll ==
  ASSUME NEW n \in Nat, NEW S \in SUBSET (1..n), S # {}
  PROVE  \E i \in S : \A j \in 1..(i - 1) : j \notin S
<1>. DEFINE Parts == {1..i : i \in S}
<1>1. IsWellFoundedOn(StrictSubsetOrdering(1..n), SUBSET (1..n))
  <2>1. IsFiniteSet(1..n)
    BY FS_Interval
  <2>2. ASSUME NEW U \in SUBSET (1..n) PROVE IsFiniteSet(U)
    BY <2>1, FS_Subset
  <2>3. FiniteSubsetsOf(1..n) = SUBSET (1..n)
    BY <2>2 DEF FiniteSubsetsOf
  <2>. QED
    BY <2>3, FS_StrictSubsetOrderingWellFounded
<1>2. Parts \subseteq SUBSET (1..n) /\ Parts # {}
  <2>1. \A i \in S : 1..i \subseteq 1..n
    OBVIOUS
  <2>2. PICK i \in S : TRUE
    OBVIOUS
  <2>3. 1..i \in Parts
    OBVIOUS
  <2>. QED
    BY <2>1, <2>3
<1>3. PICK x \in Parts : \A y \in Parts : <<y, x>> \notin StrictSubsetOrdering(1..n)
  <2>. HIDE DEF Parts
  <2>. QED
    BY <1>1, <1>2, WFMin
<1>4. PICK i \in S : x = 1..i
  BY <1>3
<1>5. ASSUME NEW j \in 1..(i - 1), j \in S PROVE FALSE
  <2>1. 1..j \in Parts /\ 1..j \subseteq 1..i /\ 1..j # 1..i
    BY <1>5
  <2>. QED
    BY <1>2, <1>3, <1>4, <2>1 DEF StrictSubsetOrdering
<1>. QED
  BY <1>5

(* What holds of 0 and goes from each number to the next holds up to n.    *)
LEMMA Upwards ==
  ASSUME NEW n \in Nat, NEW S, 0 \in S, \A k \in 1..n : k - 1 \in S => k \in S
  PROVE  0..n \subseteq S
<1>. SUFFICES ASSUME NEW k \in 0..n, k \notin S PROVE FALSE
  OBVIOUS
<1>. DEFINE R == {i \in 1..n : i \notin S}
<1>1. k \in R
  OBVIOUS
<1>2. PICK i \in R : \A j \in 1..(i - 1) : j \notin R
  <2>. HIDE DEF R
  <2>1. R \in SUBSET (1..n)
    BY DEF R
  <2>. QED
    BY <1>1, <2>1, FirstOfAll
<1>3. i - 1 \in S
  BY <1>2
<1>. QED
  BY <1>2, <1>3

(* Items are packed one after the other.                                   *)
LEMMA PackedUpToRecur ==
  ASSUME NEW ranked, Len(ranked) \in Nat, NEW inventory, NEW budget
  PROVE  /\ Knowledge!PackedUpTo(ranked, inventory, budget)[0]
              = [items |-> << >>, seen |-> {}, used |-> inventory]
         /\ \A k \in 1..Len(ranked) :
              Knowledge!PackedUpTo(ranked, inventory, budget)[k]
                = Knowledge!Pack(Knowledge!PackedUpTo(ranked, inventory, budget)[k - 1], ranked[k], budget)
<1>. DEFINE n == Len(ranked)
            first == [items |-> << >>, seen |-> {}, used |-> inventory]
            Body(g, k) == IF k = 0 THEN first ELSE Knowledge!Pack(g[k - 1], ranked[k], budget)
            Is(g, m) == g = [k \in 0..m |-> Body(g, k)]
            S == {m \in 0..n : \E g : Is(g, m)}
<1>. HIDE DEF first
<1>1. 0 \in S
  <2>1. Is([k \in 0..0 |-> first], 0)
    OBVIOUS
  <2>2. \E g : Is(g, 0)
    <3>. HIDE DEF Is
    <3>. QED
      BY <2>1
  <2>. QED
    BY <2>2
<1>2. ASSUME NEW m \in 1..n, m - 1 \in S PROVE m \in S
  <2>1. PICK g : Is(g, m - 1)
    BY <1>2
  <2>. DEFINE h == [k \in 0..m |-> IF k < m THEN g[k] ELSE Body(g, m)]
  <2>2. ASSUME NEW k \in 0..m PROVE h[k] = Body(h, k)
    <3>1. CASE k < m
      <4>1. h[k] = Body(g, k)
        BY <2>1, <3>1
      <4>2. k # 0 => h[k - 1] = g[k - 1]
        BY <3>1
      <4>3. Body(h, k) = Body(g, k)
        <5>. HIDE DEF h
        <5>. QED
          BY <4>2
      <4>. QED
        BY <4>1, <4>3
    <3>2. CASE k = m
      BY <3>2
    <3>. QED
      BY <3>1, <3>2
  <2>3. Is(h, m)
    BY <2>2
  <2>4. \E i : Is(i, m)
    <3>. HIDE DEF Is, h
    <3>. QED
      BY <2>3
  <2>. QED
    BY <2>4
<1>3. n \in S
  <2>. HIDE DEF S
  <2>1. 0..n \subseteq S
    BY <1>1, <1>2, Upwards
  <2>. QED
    BY <2>1
<1>4. \E g : Is(g, n)
  BY <1>3
<1>5. Knowledge!PackedUpTo(ranked, inventory, budget) = CHOOSE g : Is(g, n)
  BY DEF Knowledge!PackedUpTo, first
<1>6. Is(Knowledge!PackedUpTo(ranked, inventory, budget), n)
  <2>. HIDE DEF Is
  <2>. QED
    BY <1>4, <1>5
<1>7. \A k \in 0..n :
        Knowledge!PackedUpTo(ranked, inventory, budget)[k]
          = Body(Knowledge!PackedUpTo(ranked, inventory, budget), k)
  BY <1>6
<1>. QED
  BY <1>7 DEF first

(* Costs add up one after the other.                                       *)
LEMMA CostRecur ==
  ASSUME NEW items, Len(items) \in Nat, NEW inventory
  PROVE  /\ Knowledge!Cost(items, inventory)[0] = inventory
         /\ \A k \in 1..Len(items) :
              Knowledge!Cost(items, inventory)[k]
                = Knowledge!Cost(items, inventory)[k - 1] + items[k].cost
<1>. DEFINE n == Len(items)
            first == inventory
            Body(g, k) == IF k = 0 THEN first ELSE g[k - 1] + items[k].cost
            Is(g, m) == g = [k \in 0..m |-> Body(g, k)]
            S == {m \in 0..n : \E g : Is(g, m)}
<1>. HIDE DEF first
<1>1. 0 \in S
  <2>1. Is([k \in 0..0 |-> first], 0)
    OBVIOUS
  <2>2. \E g : Is(g, 0)
    <3>. HIDE DEF Is
    <3>. QED
      BY <2>1
  <2>. QED
    BY <2>2
<1>2. ASSUME NEW m \in 1..n, m - 1 \in S PROVE m \in S
  <2>1. PICK g : Is(g, m - 1)
    BY <1>2
  <2>. DEFINE h == [k \in 0..m |-> IF k < m THEN g[k] ELSE Body(g, m)]
  <2>2. ASSUME NEW k \in 0..m PROVE h[k] = Body(h, k)
    <3>1. CASE k < m
      <4>1. h[k] = Body(g, k)
        BY <2>1, <3>1
      <4>2. k # 0 => h[k - 1] = g[k - 1]
        BY <3>1
      <4>3. Body(h, k) = Body(g, k)
        <5>. HIDE DEF h
        <5>. QED
          BY <4>2
      <4>. QED
        BY <4>1, <4>3
    <3>2. CASE k = m
      BY <3>2
    <3>. QED
      BY <3>1, <3>2
  <2>3. Is(h, m)
    BY <2>2
  <2>4. \E i : Is(i, m)
    <3>. HIDE DEF Is, h
    <3>. QED
      BY <2>3
  <2>. QED
    BY <2>4
<1>3. n \in S
  <2>. HIDE DEF S
  <2>1. 0..n \subseteq S
    BY <1>1, <1>2, Upwards
  <2>. QED
    BY <2>1
<1>4. \E g : Is(g, n)
  BY <1>3
<1>5. Knowledge!Cost(items, inventory) = CHOOSE g : Is(g, n)
  BY DEF Knowledge!Cost, first
<1>6. Is(Knowledge!Cost(items, inventory), n)
  <2>. HIDE DEF Is
  <2>. QED
    BY <1>4, <1>5
<1>7. \A k \in 0..n :
        Knowledge!Cost(items, inventory)[k] = Body(Knowledge!Cost(items, inventory), k)
  BY <1>6
<1>. QED
  BY <1>7 DEF first

(* One more item at the end changes no cost before it.                     *)
LEMMA CostExtends ==
  ASSUME NEW C, NEW items \in Seq(C), NEW item \in C, NEW inventory
  PROVE  LET more == Append(items, item)
         IN  /\ \A k \in 0..Len(items) :
                  Knowledge!Cost(more, inventory)[k] = Knowledge!Cost(items, inventory)[k]
             /\ Knowledge!Cost(more, inventory)[Len(more)]
                  = Knowledge!Cost(items, inventory)[Len(items)] + item.cost
<1>. DEFINE L == Len(items)
            more == Append(items, item)
            old == Knowledge!Cost(items, inventory)
            new == Knowledge!Cost(more, inventory)
            S == {k \in 0..L : new[k] = old[k]}
<1>1. /\ L \in Nat /\ Len(more) = L + 1 /\ more[L + 1] = item
      /\ \A k \in 1..L : more[k] = items[k]
  OBVIOUS
<1>. HIDE DEF more, L
<1>2. old[0] = inventory /\ \A k \in 1..L : old[k] = old[k - 1] + items[k].cost
  BY <1>1, CostRecur DEF L
<1>3. new[0] = inventory /\ \A k \in 1..(L + 1) : new[k] = new[k - 1] + more[k].cost
  BY <1>1, CostRecur
<1>. HIDE DEF old, new
<1>4. 0 \in S
  BY <1>1, <1>2, <1>3
<1>5. ASSUME NEW k \in 1..L, k - 1 \in S PROVE k \in S
  <2>1. new[k - 1] = old[k - 1] /\ more[k] = items[k] /\ k \in 1..(L + 1)
    BY <1>1, <1>5
  <2>2. new[k] = old[k]
    BY <1>2, <1>3, <2>1
  <2>. QED
    BY <2>2
<1>6. 0..L \subseteq S
  <2>. HIDE DEF S
  <2>. QED
    BY <1>1, <1>4, <1>5, Upwards
<1>7. new[L + 1] = old[L] + item.cost
  BY <1>1, <1>3, <1>6
<1>. QED
  BY <1>1, <1>6, <1>7 DEF old, new, more, L

(* What has been packed of the first n items.                              *)
Above(ranked, items, n, i) == \A k \in 1..n : \E j \in 1..(i - 1) : items[k] = ranked[j]
Dealt(ranked, items, cost, budget, i) ==
  \/ \E k \in 1..Len(items) : items[k] = ranked[i]
  \/ \E j \in 1..(i - 1) :
       /\ \E k \in 1..Len(items) : items[k] = ranked[j]
       /\ Knowledge!Kind(ranked[j]) = Knowledge!Kind(ranked[i])
  \/ \E n \in 1..Len(items) :
       Above(ranked, items, n, i) /\ cost[n] + ranked[i].cost > budget
AllDealt(ranked, items, cost, budget, n) ==
  \A i \in 1..n : Dealt(ranked, items, cost, budget, i)
Kinds(items) == {Knowledge!Kind(items[k]) : k \in 1..Len(items)}
NoneTwice(items) ==
  \A i, j \in 1..Len(items) : i # j => Knowledge!Kind(items[i]) # Knowledge!Kind(items[j])

PackedSoFar(C, ranked, inventory, budget, n, packed) ==
  LET items == packed.items
      cost == Knowledge!Cost(items, inventory)
  IN  /\ items \in Seq(C) /\ Above(ranked, items, Len(items), n + 1)
      /\ packed.seen = Kinds(items) /\ NoneTwice(items)
      /\ packed.used \in Nat /\ packed.used = cost[Len(items)]
      /\ packed.used <= budget \/ Len(items) <= 1
      /\ n > 0 => items # << >> /\ items[1] = ranked[1]
      /\ AllDealt(ranked, items, cost, budget, n)

(* An item that has been dealt with stays so when another is packed.       *)
LEMMA DealtStays ==
  ASSUME NEW C, NEW ranked, NEW items \in Seq(C), NEW item \in C, NEW inventory,
         NEW budget, NEW i \in Nat,
         Dealt(ranked, items, Knowledge!Cost(items, inventory), budget, i)
  PROVE  Dealt(ranked, Append(items, item), Knowledge!Cost(Append(items, item), inventory), budget, i)
<1>. DEFINE L == Len(items)
            more == Append(items, item)
            old == Knowledge!Cost(items, inventory)
            new == Knowledge!Cost(more, inventory)
<1>1. L \in Nat /\ Len(more) = L + 1 /\ \A k \in 1..L : more[k] = items[k]
  OBVIOUS
<1>2. \A k \in 0..L : new[k] = old[k]
  BY CostExtends
<1>. SUFFICES Dealt(ranked, more, new, budget, i)
  OBVIOUS
<1>. HIDE DEF more, old, new
<1>3. \A k \in 1..L : k \in 1..Len(more) /\ more[k] = items[k]
  BY <1>1
<1>. HIDE DEF L
<1>4. Dealt(ranked, items, old, budget, i)
  BY DEF old
<1>5. CASE \E k \in 1..L : items[k] = ranked[i]
  BY <1>3, <1>5 DEF Dealt
<1>6. CASE \E j \in 1..(i - 1) :
             /\ \E k \in 1..L : items[k] = ranked[j]
             /\ Knowledge!Kind(ranked[j]) = Knowledge!Kind(ranked[i])
  BY <1>3, <1>6 DEF Dealt
<1>7. CASE \E n \in 1..L : Above(ranked, items, n, i) /\ old[n] + ranked[i].cost > budget
  <2>1. PICK n \in 1..L : Above(ranked, items, n, i) /\ old[n] + ranked[i].cost > budget
    BY <1>7
  <2>2. new[n] = old[n] /\ n \in 1..Len(more)
    BY <1>1, <1>2, <1>3, <2>1
  <2>3. \A k \in 1..n : more[k] = items[k]
    BY <1>1, <1>3, <2>1
  <2>4. Above(ranked, more, n, i)
    BY <2>1, <2>3 DEF Above
  <2>. QED
    BY <2>1, <2>2, <2>4 DEF Dealt
<1>. QED
  BY <1>4, <1>5, <1>6, <1>7 DEF Dealt, L

LEMMA PackGoesOn ==
  ASSUME NEW C, \A c \in C : c.cost \in Nat, NEW ranked \in Seq(C), NEW inventory \in Nat,
         NEW budget \in Nat, NEW n \in 1..Len(ranked), NEW packed,
         PackedSoFar(C, ranked, inventory, budget, n - 1, packed)
  PROVE  PackedSoFar(C, ranked, inventory, budget, n, Knowledge!Pack(packed, ranked[n], budget))
<1>. DEFINE items == packed.items
            item == ranked[n]
            next == Knowledge!Pack(packed, item, budget)
            old == Knowledge!Cost(items, inventory)
            L == Len(items)
<1>1. /\ items \in Seq(C) /\ Above(ranked, items, L, n) /\ packed.seen = Kinds(items)
      /\ NoneTwice(items) /\ packed.used \in Nat /\ packed.used = old[L]
      /\ packed.used <= budget \/ L <= 1
      /\ n - 1 > 0 => items # << >> /\ items[1] = ranked[1]
      /\ AllDealt(ranked, items, old, budget, n - 1)
  BY DEF PackedSoFar
<1>2. item \in C /\ item.cost \in Nat /\ n \in Nat
  OBVIOUS
<1>. HIDE DEF items, item, old
<1>3. L \in Nat /\ (items # << >> <=> L >= 1)
  BY <1>1
<1>4. CASE Knowledge!Kind(item) \in Kinds(items)
  <2>1. next = packed
    BY <1>1, <1>4 DEF Knowledge!Pack
  <2>2. PICK k \in 1..L : Knowledge!Kind(items[k]) = Knowledge!Kind(item)
    BY <1>4 DEF Kinds
  <2>3. PICK j \in 1..(n - 1) : items[k] = ranked[j]
    BY <1>1, <2>2 DEF Above
  <2>4. Dealt(ranked, items, old, budget, n)
    BY <2>2, <2>3 DEF Dealt, item
  <2>5. AllDealt(ranked, items, old, budget, n)
    BY <1>1, <2>4 DEF AllDealt
  <2>6. items # << >> /\ items[1] = ranked[1]
    BY <1>1, <1>2, <2>3
  <2>7. Above(ranked, items, L, n + 1)
    BY <1>1, <1>2 DEF Above
  <2>8. PackedSoFar(C, ranked, inventory, budget, n, packed)
    BY <1>1, <2>5, <2>6, <2>7 DEF PackedSoFar, items, old
  <2>. QED
    BY <2>1, <2>8 DEF item
<1>5. CASE Knowledge!Kind(item) \notin Kinds(items) /\ items # << >> /\
           packed.used + item.cost > budget
  <2>1. next = packed
    BY <1>5 DEF Knowledge!Pack, items
  <2>2. L \in 1..L
    BY <1>3, <1>5
  <2>3. Dealt(ranked, items, old, budget, n)
    BY <1>1, <1>5, <2>2 DEF Dealt, item
  <2>4. AllDealt(ranked, items, old, budget, n)
    BY <1>1, <2>3 DEF AllDealt
  <2>5. PICK j \in 1..(n - 1) : items[1] = ranked[j]
    BY <1>1, <2>2 DEF Above
  <2>6. items # << >> /\ items[1] = ranked[1]
    BY <1>1, <1>2, <2>5
  <2>7. Above(ranked, items, L, n + 1)
    BY <1>1, <1>2 DEF Above
  <2>8. PackedSoFar(C, ranked, inventory, budget, n, packed)
    BY <1>1, <2>4, <2>6, <2>7 DEF PackedSoFar, items, old
  <2>. QED
    BY <2>1, <2>8 DEF item
<1>6. CASE Knowledge!Kind(item) \notin Kinds(items) /\
           ~(items # << >> /\ packed.used + item.cost > budget)
  <2>. DEFINE more == Append(items, item)
              new == Knowledge!Cost(more, inventory)
  <2>1. next = [items |-> more, seen |-> Kinds(items) \cup {Knowledge!Kind(item)},
                used |-> packed.used + item.cost]
    BY <1>1, <1>6 DEF Knowledge!Pack, items
  <2>2. /\ more \in Seq(C) /\ Len(more) = L + 1 /\ more[L + 1] = item
        /\ \A k \in 1..L : more[k] = items[k]
    BY <1>1, <1>2
  <2>3. new[Len(more)] = old[L] + item.cost
    BY <1>1, <1>2, CostExtends DEF old
  <2>4. \A i \in 1..(n - 1) : Dealt(ranked, more, new, budget, i)
    <3>1. ASSUME NEW i \in 1..(n - 1) PROVE Dealt(ranked, more, new, budget, i)
      <4>1. Dealt(ranked, items, Knowledge!Cost(items, inventory), budget, i) /\ i \in Nat
        BY <1>1, <3>1 DEF AllDealt, old
      <4>. QED
        BY <1>1, <1>2, <4>1, DealtStays
    <3>. QED
      BY <3>1
  <2>. HIDE DEF more, new
  <2>5. \A k \in 1..Len(more) : k \in 1..L \/ k = L + 1
    BY <1>3, <2>2
  <2>6. Dealt(ranked, more, new, budget, n)
    <3>1. L + 1 \in 1..Len(more) /\ more[L + 1] = ranked[n]
      BY <1>3, <2>2 DEF item
    <3>. QED
      BY <3>1 DEF Dealt
  <2>7. AllDealt(ranked, more, new, budget, n)
    BY <1>2, <2>4, <2>6 DEF AllDealt
  <2>8. Above(ranked, more, Len(more), n + 1)
    <3>1. ASSUME NEW k \in 1..Len(more) PROVE \E j \in 1..n : more[k] = ranked[j]
      <4>1. CASE k \in 1..L
        <5>1. PICK j \in 1..(n - 1) : items[k] = ranked[j]
          BY <1>1, <4>1 DEF Above
        <5>. QED
          BY <1>2, <2>2, <4>1, <5>1
      <4>2. CASE k = L + 1
        BY <1>2, <2>2, <4>2 DEF item
      <4>. QED
        BY <2>5, <4>1, <4>2
    <3>2. (n + 1) - 1 = n
      BY <1>2
    <3>. QED
      BY <3>1, <3>2 DEF Above
  <2>9. Kinds(more) = Kinds(items) \cup {Knowledge!Kind(item)}
    <3>1. ASSUME NEW k \in 1..L PROVE Knowledge!Kind(items[k]) \in Kinds(more)
      <4>1. k \in 1..Len(more) /\ more[k] = items[k]
        BY <1>3, <2>2
      <4>. QED
        BY <4>1 DEF Kinds
    <3>2. Knowledge!Kind(item) \in Kinds(more)
      <4>1. L + 1 \in 1..Len(more)
        BY <1>3, <2>2
      <4>. QED
        BY <2>2, <4>1 DEF Kinds
    <3>3. ASSUME NEW k \in 1..Len(more)
          PROVE  Knowledge!Kind(more[k]) \in Kinds(items) \cup {Knowledge!Kind(item)}
      BY <2>2, <2>5 DEF Kinds
    <3>. QED
      BY <3>1, <3>2, <3>3 DEF Kinds
  <2>10. NoneTwice(more)
    <3>1. ASSUME NEW i \in 1..Len(more), NEW j \in 1..Len(more), i # j
          PROVE  Knowledge!Kind(more[i]) # Knowledge!Kind(more[j])
      <4>1. \A k \in 1..L : Knowledge!Kind(items[k]) # Knowledge!Kind(item)
        BY <1>6 DEF Kinds
      <4>2. CASE i \in 1..L /\ j \in 1..L
        BY <1>1, <2>2, <3>1, <4>2 DEF NoneTwice
      <4>3. CASE i = L + 1 /\ j \in 1..L
        BY <2>2, <4>1, <4>3
      <4>4. CASE i \in 1..L /\ j = L + 1
        BY <2>2, <4>1, <4>4
      <4>. QED
        BY <2>5, <3>1, <4>2, <4>3, <4>4
    <3>. QED
      BY <3>1 DEF NoneTwice
  <2>11. /\ packed.used + item.cost \in Nat
         /\ packed.used + item.cost = new[Len(more)]
         /\ packed.used + item.cost <= budget \/ Len(more) <= 1
    BY <1>1, <1>2, <1>3, <1>6, <2>2, <2>3
  <2>12. more # << >> /\ more[1] = ranked[1]
    <3>1. Len(more) >= 1
      BY <1>3, <2>2
    <3>2. CASE L = 0
      <4>1. n = 1
        BY <1>1, <1>2, <1>3, <3>2
      <4>2. more[1] = item /\ item = ranked[1]
        BY <2>2, <3>2, <4>1 DEF item
      <4>3. more # << >>
        BY <2>2, <3>1
      <4>. QED
        BY <4>2, <4>3
    <3>3. CASE L # 0
      <4>1. 1 \in 1..L
        BY <1>3, <3>3
      <4>2. PICK j \in 1..(n - 1) : items[1] = ranked[j]
        BY <1>1, <4>1 DEF Above
      <4>3. items[1] = ranked[1]
        BY <1>1, <1>2, <4>2
      <4>. QED
        BY <2>2, <3>1, <4>1, <4>3
    <3>. QED
      BY <3>2, <3>3
  <2>13. /\ next.items = more /\ next.seen = Kinds(more)
         /\ next.used = packed.used + item.cost
    BY <2>1, <2>9
  <2>. HIDE DEF next
  <2>14. PackedSoFar(C, ranked, inventory, budget, n, next)
    BY <2>2, <2>7, <2>8, <2>10, <2>11, <2>12, <2>13 DEF PackedSoFar, new
  <2>. QED
    BY <2>14 DEF next, item
<1>. QED
  BY <1>4, <1>5, <1>6

(* When all is packed, that holds of all of it.                            *)
LEMMA PackedWhole ==
  ASSUME NEW C, \A c \in C : c.cost \in Nat, NEW ranked \in Seq(C),
         NEW inventory \in Nat, NEW budget \in Nat
  PROVE  PackedSoFar(C, ranked, inventory, budget, Len(ranked),
                     Knowledge!Build(ranked, inventory, budget))
<1>. DEFINE L == Len(ranked)
            R == Knowledge!PackedUpTo(ranked, inventory, budget)
            S == {n \in 0..L : PackedSoFar(C, ranked, inventory, budget, n, R[n])}
<1>1. /\ L \in Nat /\ R[0] = [items |-> << >>, seen |-> {}, used |-> inventory]
      /\ \A n \in 1..L : R[n] = Knowledge!Pack(R[n - 1], ranked[n], budget)
  BY PackedUpToRecur
<1>2. 0 \in S
  <2>. DEFINE first == [items |-> << >>, seen |-> {}, used |-> inventory]
  <2>1. first.items = << >> /\ first.seen = {} /\ first.used = inventory
    OBVIOUS
  <2>. HIDE DEF first
  <2>2. Knowledge!Cost(<< >>, inventory)[0] = inventory /\ Len(<< >>) = 0
    BY CostRecur
  <2>3. /\ Above(ranked, << >>, 0, 1) /\ Kinds(<< >>) = {} /\ NoneTwice(<< >>)
        /\ AllDealt(ranked, << >>, Knowledge!Cost(<< >>, inventory), budget, 0)
    BY <2>2 DEF Above, Kinds, NoneTwice, AllDealt
  <2>4. << >> \in Seq(C)
    OBVIOUS
  <2>5. PackedSoFar(C, ranked, inventory, budget, 0, first)
    BY <2>1, <2>2, <2>3, <2>4 DEF PackedSoFar
  <2>. QED
    BY <1>1, <2>5 DEF first
<1>3. ASSUME NEW n \in 1..L, n - 1 \in S PROVE n \in S
  <2>1. R[n] = Knowledge!Pack(R[n - 1], ranked[n], budget)
    BY <1>1
  <2>2. PackedSoFar(C, ranked, inventory, budget, n - 1, R[n - 1])
    BY <1>3
  <2>. HIDE DEF R
  <2>3. PackedSoFar(C, ranked, inventory, budget, n, R[n])
    BY <2>1, <2>2, PackGoesOn
  <2>. QED
    BY <2>3
<1>4. L \in S
  <2>. HIDE DEF S
  <2>1. 0..L \subseteq S
    BY <1>1, <1>2, <1>3, Upwards
  <2>. QED
    BY <1>1, <2>1
<1>. QED
  BY <1>4 DEF Knowledge!Build

(* The prompt holds what fits, whatever is ranked: more than the budget    *)
(* only for a first item, or a list of files, that is over it alone; and   *)
(* what is left out repeats something taken or did not fit after what      *)
(* outranks it.                                                            *)
THEOREM PromptsArePacked ==
  ASSUME NEW C, \A c \in C : c.cost \in Nat, NEW ranked \in Seq(C),
         NEW inventory \in Nat, NEW budget \in Nat
  PROVE  Knowledge!PacksWhatFits(ranked, inventory, budget)
<1>. DEFINE L == Len(ranked)
            packed == Knowledge!Build(ranked, inventory, budget)
            items == packed.items
            cost == Knowledge!Cost(items, inventory)
<1>1. L \in Nat
  OBVIOUS
<1>2. PackedSoFar(C, ranked, inventory, budget, L, packed)
  BY PackedWhole
<1>. HIDE DEF packed
<1>3. /\ items \in Seq(C) /\ packed.used = cost[Len(items)]
      /\ packed.used <= budget \/ Len(items) <= 1
      /\ L > 0 => items # << >> /\ items[1] = ranked[1]
      /\ AllDealt(ranked, items, cost, budget, L) /\ NoneTwice(items)
  BY <1>2 DEF PackedSoFar
<1>. HIDE DEF items, cost
<1>4. DOMAIN ranked = 1..L /\ DOMAIN items = 1..Len(items) /\ (ranked # << >> => L > 0)
  BY <1>1, <1>3
<1>5. Knowledge!PacksWhatFits(ranked, inventory, budget)
       <=> /\ packed.used = cost[Len(items)]
           /\ packed.used <= budget \/ Len(items) <= 1
           /\ ranked # << >> => items # << >> /\ items[1] = ranked[1]
           /\ \A i \in DOMAIN ranked :
                \/ Knowledge!Contains(items, ranked[i])
                \/ \E j \in 1..(i - 1) :
                     Knowledge!Contains(items, ranked[j]) /\
                     Knowledge!Kind(ranked[j]) = Knowledge!Kind(ranked[i])
                \/ \E n \in 1..Len(items) :
                     /\ \A k \in 1..n : \E j \in 1..(i - 1) : items[k] = ranked[j]
                     /\ cost[n] + ranked[i].cost > budget
           /\ \A i, j \in DOMAIN items : i # j => Knowledge!Kind(items[i]) # Knowledge!Kind(items[j])
  BY DEF Knowledge!PacksWhatFits, packed, items, cost
<1>6. \A i \in DOMAIN ranked :
         \/ Knowledge!Contains(items, ranked[i])
         \/ \E j \in 1..(i - 1) :
              Knowledge!Contains(items, ranked[j]) /\
              Knowledge!Kind(ranked[j]) = Knowledge!Kind(ranked[i])
         \/ \E n \in 1..Len(items) :
              /\ \A k \in 1..n : \E j \in 1..(i - 1) : items[k] = ranked[j]
              /\ cost[n] + ranked[i].cost > budget
  BY <1>3, <1>4 DEF AllDealt, Dealt, Above, Knowledge!Contains
<1>7. \A i, j \in DOMAIN items : i # j => Knowledge!Kind(items[i]) # Knowledge!Kind(items[j])
  BY <1>3, <1>4 DEF NoneTwice
<1>. QED
  BY <1>3, <1>4, <1>5, <1>6, <1>7

-----------------------------------------------------------------------------
(* QUERIES.  What the service of embeddings makes of one query after the   *)
(* other, and what it remembers of them: by induction over the queries.    *)

(* Queries are answered one after the other.                               *)
LEMMA EmbedQueriesRecur ==
  ASSUME NEW config, NEW queries, Len(queries) \in Nat
  PROVE  /\ Providers!EmbedQueries(config, queries)[0] = Providers!Fresh
         /\ \A k \in 1..Len(queries) :
              Providers!EmbedQueries(config, queries)[k]
                = Providers!EmbedQuery(config, Providers!EmbedQueries(config, queries)[k - 1], queries[k])
<1>. DEFINE n == Len(queries)
            first == Providers!Fresh
            Body(g, k) == IF k = 0 THEN first ELSE Providers!EmbedQuery(config, g[k - 1], queries[k])
            Is(g, m) == g = [k \in 0..m |-> Body(g, k)]
            S == {m \in 0..n : \E g : Is(g, m)}
<1>. HIDE DEF first
<1>1. 0 \in S
  <2>1. Is([k \in 0..0 |-> first], 0)
    OBVIOUS
  <2>2. \E g : Is(g, 0)
    <3>. HIDE DEF Is
    <3>. QED
      BY <2>1
  <2>. QED
    BY <2>2
<1>2. ASSUME NEW m \in 1..n, m - 1 \in S PROVE m \in S
  <2>1. PICK g : Is(g, m - 1)
    BY <1>2
  <2>. DEFINE h == [k \in 0..m |-> IF k < m THEN g[k] ELSE Body(g, m)]
  <2>2. ASSUME NEW k \in 0..m PROVE h[k] = Body(h, k)
    <3>1. CASE k < m
      <4>1. h[k] = Body(g, k)
        BY <2>1, <3>1
      <4>2. k # 0 => h[k - 1] = g[k - 1]
        BY <3>1
      <4>3. Body(h, k) = Body(g, k)
        <5>. HIDE DEF h
        <5>. QED
          BY <4>2
      <4>. QED
        BY <4>1, <4>3
    <3>2. CASE k = m
      BY <3>2
    <3>. QED
      BY <3>1, <3>2
  <2>3. Is(h, m)
    BY <2>2
  <2>4. \E i : Is(i, m)
    <3>. HIDE DEF Is, h
    <3>. QED
      BY <2>3
  <2>. QED
    BY <2>4
<1>3. n \in S
  <2>. HIDE DEF S
  <2>1. 0..n \subseteq S
    BY <1>1, <1>2, Upwards
  <2>. QED
    BY <2>1
<1>4. \E g : Is(g, n)
  BY <1>3
<1>5. Providers!EmbedQueries(config, queries) = CHOOSE g : Is(g, n)
  BY DEF Providers!EmbedQueries, first
<1>6. Is(Providers!EmbedQueries(config, queries), n)
  <2>. HIDE DEF Is
  <2>. QED
    BY <1>4, <1>5
<1>7. \A k \in 0..n :
        Providers!EmbedQueries(config, queries)[k]
          = Body(Providers!EmbedQueries(config, queries), k)
  BY <1>6
<1>. QED
  BY <1>7 DEF first

(* What was said from the i-th answer to the n-th, and the texts of a      *)
(* cache from its k-th place on.                                           *)
Said(A, i, n) == {A[j] : j \in i..n} \ {Providers!NoText}
From(c, k) == {c[m].text : m \in k..Len(c)}

(* Texts are in the cache once, in the order in which they were said last; *)
(* and those that are not in it were said before more others than it holds.*)
Named(c) == \A k \in 1..Len(c) : c[k].text # Providers!NoText
Different(c) == \A k, m \in 1..Len(c) : k # m => c[k].text # c[m].text
SaidSince(A, c, n) ==
  \A k \in 1..Len(c) : \E i \in 1..n :
    A[i] = c[k].text /\ Said(A, i, n) \subseteq From(c, k)
SinceSaid(A, c, n) ==
  \A k \in 1..Len(c), i \in 1..n : A[i] = c[k].text => From(c, k) \subseteq Said(A, i, n)
Forgotten(A, c, n) ==
  \A i \in 1..n : A[i] # Providers!NoText =>
    A[i] \in From(c, 1) \/ Cardinality(Said(A, i, n)) > QUERY_CACHE_MAX_ENTRIES
LastUsed(A, c, n) ==
  /\ Named(c) /\ Different(c)
  /\ SaidSince(A, c, n) /\ SinceSaid(A, c, n) /\ Forgotten(A, c, n)

LEMMA SaidGrows ==
  ASSUME NEW A, NEW n \in Nat, n # 0
  PROVE  /\ \A i \in 1..(n - 1) :
              Said(A, i, n) = Said(A, i, n - 1) \cup ({A[n]} \ {Providers!NoText})
         /\ \A i \in 1..n : A[n] # Providers!NoText => A[n] \in Said(A, i, n)
         /\ Said(A, n, n) = {A[n]} \ {Providers!NoText}
<1>1. \A i \in 1..(n - 1) : i..n = (i..(n - 1)) \cup {n}
  OBVIOUS
<1>2. n..n = {n} /\ \A i \in 1..n : n \in i..n
  OBVIOUS
<1>. QED
  BY <1>1, <1>2 DEF Said

LEMMA SaidFinite ==
  ASSUME NEW A, NEW n \in Nat, NEW i \in 1..n
  PROVE  IsFiniteSet(Said(A, i, n)) /\ Cardinality(Said(A, i, n)) \in Nat
<1>. DEFINE all == {A[j] : j \in i..n}
            f == [j \in i..n |-> A[j]]
<1>1. f \in Surjection(i..n, all)
  BY DEF Surjection
<1>2. IsFiniteSet(i..n)
  BY FS_Interval
<1>3. IsFiniteSet(all)
  <2>. HIDE DEF f, all
  <2>. QED
    BY <1>1, <1>2, FS_Surjection
<1>4. Said(A, i, n) \in SUBSET all
  BY DEF Said
<1>5. IsFiniteSet(Said(A, i, n))
  <2>. HIDE DEF all
  <2>. QED
    BY <1>3, <1>4, FS_Subset
<1>. QED
  BY <1>5, FS_CardinalityType

(* More is said as time goes by.                                           *)
LEMMA SaidMore ==
  ASSUME NEW A, NEW n \in Nat, n # 0, NEW i \in 1..(n - 1)
  PROVE  Cardinality(Said(A, i, n - 1)) <= Cardinality(Said(A, i, n))
<1>1. Said(A, i, n - 1) \in SUBSET Said(A, i, n)
  BY SaidGrows
<1>2. IsFiniteSet(Said(A, i, n))
  BY SaidFinite
<1>. QED
  BY <1>1, <1>2, FS_Subset

(* There are as many places as the length.                                 *)
LEMMA PlacesCounted == \A m \in Nat : IsFiniteSet(1..m) /\ Cardinality(1..m) = m
  BY FS_Interval

(* A cache without repetition has as many texts as places, and fewer from  *)
(* a later place on.                                                       *)
LEMMA TextsCounted ==
  ASSUME NEW c, Len(c) \in Nat, Different(c), NEW k \in 1..Len(c)
  PROVE  /\ IsFiniteSet(From(c, k)) /\ Cardinality(From(c, k)) <= Len(c)
         /\ Cardinality(From(c, 1)) = Len(c)
<1>. DEFINE L == Len(c)
            f == [m \in 1..L |-> c[m].text]
<1>1. f \in Bijection(1..L, From(c, 1))
  BY DEF Bijection, Surjection, Injection, IsInjective, From, Different
<1>2. IsFiniteSet(1..L) /\ Cardinality(1..L) = L
  BY PlacesCounted
<1>3. IsFiniteSet(From(c, 1)) /\ Cardinality(From(c, 1)) = L
  <2>. HIDE DEF f, L
  <2>1. ExistsBijection(1..L, From(c, 1))
    BY <1>1 DEF ExistsBijection
  <2>. QED
    BY <1>2, <2>1, FS_Bijection
<1>4. From(c, k) \in SUBSET From(c, 1)
  BY DEF From
<1>. QED
  BY <1>3, <1>4, FS_Subset

(* A failure changes nothing.                                              *)
LEMMA NothingSaid ==
  ASSUME NEW A, NEW c, Len(c) \in Nat, NEW n \in Nat, n # 0, LastUsed(A, c, n - 1),
         A[n] = Providers!NoText
  PROVE  LastUsed(A, c, n)
<1>1. \A i \in 1..(n - 1) : Said(A, i, n) = Said(A, i, n - 1)
  <2>1. {A[n]} \ {Providers!NoText} = {}
    OBVIOUS
  <2>2. \A i \in 1..(n - 1) :
          Said(A, i, n) = Said(A, i, n - 1) \cup ({A[n]} \ {Providers!NoText})
    BY SaidGrows
  <2>. QED
    BY <2>1, <2>2
<1>2. \A i \in 1..n : i \in 1..(n - 1) \/ i = n
  OBVIOUS
<1>3. SaidSince(A, c, n)
  BY <1>1 DEF LastUsed, SaidSince
<1>4. SinceSaid(A, c, n)
  BY <1>1, <1>2 DEF LastUsed, SinceSaid, Named
<1>5. Forgotten(A, c, n)
  BY <1>1, <1>2 DEF LastUsed, Forgotten
<1>. QED
  BY <1>3, <1>4, <1>5 DEF LastUsed

(* What is in a sequence with one more at the end, and without one place.  *)
LEMMA Appended ==
  ASSUME NEW V, NEW s \in Seq(V), NEW x \in V
  PROVE  /\ Append(s, x) \in Seq(V) /\ Len(Append(s, x)) = Len(s) + 1
         /\ Append(s, x)[Len(s) + 1] = x
         /\ \A k \in 1..Len(s) : Append(s, x)[k] = s[k]
  OBVIOUS

LEMMA Removed ==
  ASSUME NEW V, NEW s \in Seq(V), NEW h \in 1..Len(s)
  PROVE  /\ Providers!RemoveAt(s, h) \in Seq(V) /\
            Len(Providers!RemoveAt(s, h)) = Len(s) - 1
         /\ \A k \in 1..(Len(s) - 1) :
              Providers!RemoveAt(s, h)[k] = s[IF k < h THEN k ELSE k + 1]
<1>. DEFINE front == SubSeq(s, 1, h - 1)
            back == SubSeq(s, h + 1, Len(s))
<1>1. /\ front \in Seq(V) /\ Len(front) = h - 1
      /\ \A k \in 1..(h - 1) : front[k] = s[k]
  OBVIOUS
<1>2. /\ back \in Seq(V) /\ Len(back) = Len(s) - h
      /\ \A k \in 1..(Len(s) - h) : back[k] = s[h + k]
  OBVIOUS
<1>3. Providers!RemoveAt(s, h) = front \o back
  BY DEF Providers!RemoveAt
<1>4. Len(s) \in Nat /\ h \in Nat /\ h >= 1 /\ h <= Len(s)
  OBVIOUS
<1>. HIDE DEF front, back
<1>8. front \in Seq(V) /\ back \in Seq(V)
  BY <1>1, <1>2
<1>5. front \o back \in Seq(V) /\ Len(front \o back) = Len(front) + Len(back)
  BY <1>8
<1>6. \A k \in 1..(Len(front) + Len(back)) :
        (front \o back)[k] = IF k <= Len(front) THEN front[k] ELSE back[k - Len(front)]
  BY <1>8
<1>7. ASSUME NEW k \in 1..(Len(s) - 1)
      PROVE  (front \o back)[k] = s[IF k < h THEN k ELSE k + 1]
  <2>1. CASE k < h
    <3>1. k \in 1..(h - 1) /\ k <= Len(front) /\ k \in 1..(Len(front) + Len(back))
      BY <1>1, <1>2, <1>4, <2>1
    <3>. QED
      BY <1>1, <1>6, <2>1, <3>1
  <2>2. CASE ~(k < h)
    <3>1. /\ k - h + 1 \in 1..(Len(s) - h) /\ h + (k - h + 1) = k + 1
          /\ ~(k <= Len(front)) /\ k - Len(front) = k - h + 1
          /\ k \in 1..(Len(front) + Len(back))
      BY <1>1, <1>2, <1>4, <2>2
    <3>2. (front \o back)[k] = back[k - h + 1]
      BY <1>6, <3>1
    <3>3. back[k - h + 1] = s[h + (k - h + 1)]
      BY <1>2, <3>1
    <3>. QED
      BY <2>2, <3>1, <3>2, <3>3
  <2>. QED
    BY <2>1, <2>2
<1>9. PICK l \in Nat : l = Len(s)
  OBVIOUS
<1>10. PICK w : w = front \o back
  OBVIOUS
<1>11. h \in Int /\ (h - 1) + (l - h) = l - 1
  BY <1>4
<1>12. w \in Seq(V) /\ Len(w) = l - 1
  BY <1>1, <1>2, <1>5, <1>9, <1>10, <1>11
<1>13. \A k \in 1..(l - 1) : w[k] = s[IF k < h THEN k ELSE k + 1]
  BY <1>7, <1>9, <1>10
<1>. QED
  BY <1>3, <1>9, <1>10, <1>12, <1>13

(* What was said goes to the end of a cache, and leaves its place if it    *)
(* had one.                                                                *)
Renewed(c, d, t) ==
  \E K \in Nat :
    /\ Len(d) = K + 1 /\ d[K + 1].text = t /\ From(d, K + 1) = {t}
    /\ \A k \in 1..K : \E p \in 1..Len(c) :
         d[k].text = c[p].text /\ c[p].text # t /\ From(d, k) = From(c, p) \cup {t}
    /\ From(c, 1) \subseteq From(d, 1) /\ t \in From(d, 1)
    /\ Different(d)

LEMMA Latest ==
  ASSUME NEW A, NEW c, Len(c) \in Nat, NEW d, Len(d) \in Nat, NEW n \in Nat, n # 0,
         LastUsed(A, c, n - 1), A[n] # Providers!NoText, Renewed(c, d, A[n]),
         QUERY_CACHE_MAX_ENTRIES \in Nat
  PROVE  LastUsed(A, d, n)
<1>0. PICK t : t = A[n] /\ t # Providers!NoText
  OBVIOUS
<1>. PICK K \in Nat :
       /\ Len(d) = K + 1 /\ d[K + 1].text = t /\ From(d, K + 1) = {t}
       /\ \A k \in 1..K : \E p \in 1..Len(c) :
            d[k].text = c[p].text /\ c[p].text # t /\ From(d, k) = From(c, p) \cup {t}
       /\ From(c, 1) \subseteq From(d, 1) /\ t \in From(d, 1)
       /\ Different(d)
  BY <1>0 DEF Renewed
<1>1. \A k \in 1..Len(d) : k \in 1..K \/ k = K + 1
  OBVIOUS
<1>2. \A i \in 1..n : i \in 1..(n - 1) \/ i = n
  OBVIOUS
<1>3. n \in 1..n /\ \A i \in 1..(n - 1) : i \in 1..n
  OBVIOUS
<1>4. Named(d)
  BY <1>0, <1>1 DEF LastUsed, Named
<1>5. /\ \A i \in 1..(n - 1) : Said(A, i, n) = Said(A, i, n - 1) \cup {t}
      /\ \A i \in 1..n : t \in Said(A, i, n)
      /\ Said(A, n, n) = {t}
  <2>1. {A[n]} \ {Providers!NoText} = {t}
    BY <1>0
  <2>. QED
    BY <1>0, <2>1, SaidGrows
<1>6. SaidSince(A, d, n)
  <2>1. ASSUME NEW k \in 1..Len(d)
        PROVE  \E i \in 1..n : A[i] = d[k].text /\ Said(A, i, n) \subseteq From(d, k)
    <3>1. CASE k \in 1..K
      <4>1. PICK p \in 1..Len(c) :
                   d[k].text = c[p].text /\ From(d, k) = From(c, p) \cup {t}
        BY <3>1
      <4>2. PICK i \in 1..(n - 1) :
                   A[i] = c[p].text /\ Said(A, i, n - 1) \subseteq From(c, p)
        BY DEF LastUsed, SaidSince
      <4>. QED
        BY <1>3, <1>5, <4>1, <4>2
    <3>2. CASE k = K + 1
      BY <1>0, <1>3, <1>5, <3>2
    <3>. QED
      BY <1>1, <3>1, <3>2
  <2>. QED
    BY <2>1 DEF SaidSince
<1>7. SinceSaid(A, d, n)
  <2>1. ASSUME NEW k \in 1..Len(d), NEW i \in 1..n, A[i] = d[k].text
        PROVE  From(d, k) \subseteq Said(A, i, n)
    <3>1. CASE k \in 1..K
      <4>1. PICK p \in 1..Len(c) :
              d[k].text = c[p].text /\ c[p].text # t /\ From(d, k) = From(c, p) \cup {t}
        BY <3>1
      <4>2. i \in 1..(n - 1)
        BY <1>0, <1>2, <2>1, <4>1
      <4>3. From(c, p) \subseteq Said(A, i, n - 1)
        BY <2>1, <4>1, <4>2 DEF LastUsed, SinceSaid
      <4>. QED
        BY <1>5, <4>1, <4>2, <4>3
    <3>2. CASE k = K + 1
      BY <1>5, <3>2
    <3>. QED
      BY <1>1, <3>1, <3>2
  <2>. QED
    BY <2>1 DEF SinceSaid
<1>8. Forgotten(A, d, n)
  <2>1. ASSUME NEW i \in 1..n, A[i] # Providers!NoText
        PROVE  A[i] \in From(d, 1) \/ Cardinality(Said(A, i, n)) > QUERY_CACHE_MAX_ENTRIES
    <3>1. CASE i = n
      BY <1>0, <3>1
    <3>2. CASE i \in 1..(n - 1)
      <4>1. \/ A[i] \in From(c, 1)
            \/ Cardinality(Said(A, i, n - 1)) > QUERY_CACHE_MAX_ENTRIES
        BY <2>1, <3>2 DEF LastUsed, Forgotten
      <4>2. Cardinality(Said(A, i, n - 1)) <= Cardinality(Said(A, i, n))
        BY <3>2, SaidMore
      <4>3. Cardinality(Said(A, i, n - 1)) \in Nat /\ Cardinality(Said(A, i, n)) \in Nat
        BY <3>2, SaidFinite
      <4>4. PICK x \in Nat, y \in Nat :
              x = Cardinality(Said(A, i, n - 1)) /\ y = Cardinality(Said(A, i, n))
        BY <4>3
      <4>6. x > QUERY_CACHE_MAX_ENTRIES => y > QUERY_CACHE_MAX_ENTRIES
        BY <4>2, <4>4
      <4>. QED
        BY <4>1, <4>4, <4>6
    <3>. QED
      BY <1>2, <3>1, <3>2
  <2>. QED
    BY <2>1 DEF Forgotten
<1>. QED
  BY <1>4, <1>6, <1>7, <1>8 DEF LastUsed

(* A text that is new to the cache.                                        *)
LEMMA Added ==
  ASSUME NEW A, NEW V, NEW c \in Seq(V), NEW n \in Nat, n # 0, LastUsed(A, c, n - 1),
         NEW v \in V, v.text = A[n], A[n] # Providers!NoText, A[n] \notin From(c, 1),
         QUERY_CACHE_MAX_ENTRIES \in Nat
  PROVE  LastUsed(A, Append(c, v), n)
<1>. DEFINE L == Len(c)
            b == Append(c, v)
            t == A[n]
<1>1. L \in Nat /\ Len(b) = L + 1 /\ b[L + 1] = v /\ \A k \in 1..L : b[k] = c[k]
  OBVIOUS
<1>. SUFFICES LastUsed(A, b, n)
  OBVIOUS
<1>. HIDE DEF b
<1>2. \A k \in 1..(L + 1) : k \in 1..L \/ k = L + 1
  BY <1>1
<1>3. \A k \in 1..L : c[k].text \in From(c, 1)
  BY <1>1 DEF From
<1>4. \A k \in 1..(L + 1) : From(b, k) = From(c, k) \cup {t}
  <2>1. ASSUME NEW k \in 1..(L + 1) PROVE From(b, k) = From(c, k) \cup {t}
    <3>1. ASSUME NEW m \in k..(L + 1) PROVE b[m].text \in From(c, k) \cup {t}
      <4>1. CASE m \in k..L
        BY <1>1, <4>1 DEF From
      <4>2. CASE m = L + 1
        BY <1>1, <4>2
      <4>. QED
        BY <1>1, <4>1, <4>2
    <3>2. ASSUME NEW m \in k..L PROVE c[m].text \in From(b, k)
      <4>1. m \in k..Len(b) /\ b[m] = c[m]
        BY <1>1, <3>2
      <4>. QED
        BY <4>1 DEF From
    <3>3. t \in From(b, k)
      <4>1. L + 1 \in k..Len(b)
        BY <1>1
      <4>. QED
        BY <1>1, <4>1 DEF From
    <3>4. From(b, k) \subseteq From(c, k) \cup {t}
      BY <1>1, <3>1 DEF From
    <3>5. From(c, k) \subseteq From(b, k)
      BY <3>2 DEF From
    <3>. QED
      BY <3>3, <3>4, <3>5
  <2>. QED
    BY <2>1
<1>. HIDE DEF L, t
<1>5. t = A[n] /\ t # Providers!NoText /\ t \notin From(c, 1) /\ v.text = t
  BY DEF t
<1>6. \A k \in 1..L : c[k].text # t
  BY <1>3, <1>5
<1>7. Different(b)
  <2>1. ASSUME NEW k \in 1..(L + 1), NEW m \in 1..(L + 1), k # m
        PROVE  b[k].text # b[m].text
    <3>1. CASE k \in 1..L /\ m \in 1..L
      BY <1>1, <2>1, <3>1 DEF LastUsed, Different, L
    <3>2. CASE k = L + 1 /\ m \in 1..L
      BY <1>1, <1>5, <1>6, <3>2
    <3>3. CASE k \in 1..L /\ m = L + 1
      BY <1>1, <1>5, <1>6, <3>3
    <3>. QED
      BY <1>2, <2>1, <3>1, <3>2, <3>3
  <2>. QED
    BY <1>1, <2>1 DEF Different
<1>8. From(c, L + 1) = {}
  BY <1>1 DEF From, L
<1>9. From(b, L + 1) = {t} /\ b[L + 1].text = t /\ From(b, 1) = From(c, 1) \cup {t}
  BY <1>1, <1>4, <1>5, <1>8
<1>10. \A k \in 1..L : \E p \in 1..Len(c) :
         b[k].text = c[p].text /\ c[p].text # t /\ From(b, k) = From(c, p) \cup {t}
  <2>1. ASSUME NEW k \in 1..L
        PROVE  b[k].text = c[k].text /\ c[k].text # t /\ From(b, k) = From(c, k) \cup {t}
    BY <1>1, <1>4, <1>6
  <2>. QED
    BY <2>1 DEF L
<1>11. Len(b) \in Nat /\ Len(c) \in Nat
  BY <1>1 DEF L
<1>12. From(c, 1) \subseteq From(b, 1) /\ t \in From(b, 1)
  BY <1>9
<1>13. L \in Nat /\ Len(b) = L + 1
  BY <1>1
<1>14. Renewed(c, b, t)
  BY <1>7, <1>9, <1>10, <1>12, <1>13 DEF Renewed
<1>. QED
  BY <1>5, <1>11, <1>14, Latest

(* A text that is in the cache.                                            *)
LEMMA MovedLast ==
  ASSUME NEW A, NEW V, NEW c \in Seq(V), NEW n \in Nat, n # 0, LastUsed(A, c, n - 1),
         NEW h \in 1..Len(c), c[h].text = A[n], A[n] # Providers!NoText,
         QUERY_CACHE_MAX_ENTRIES \in Nat
  PROVE  /\ LastUsed(A, Append(Providers!RemoveAt(c, h), c[h]), n)
         /\ Append(Providers!RemoveAt(c, h), c[h]) \in Seq(V)
         /\ Len(Append(Providers!RemoveAt(c, h), c[h])) = Len(c)
<1>. DEFINE L == Len(c)
            d == Append(Providers!RemoveAt(c, h), c[h])
            t == A[n]
            K == L - 1
            place(k) == IF k < h THEN k ELSE k + 1
<1>1. L \in Nat /\ K \in Nat /\ L = K + 1 /\ h \in 1..(K + 1)
  OBVIOUS
<1>2. /\ d \in Seq(V) /\ Len(d) = K + 1 /\ d[K + 1] = c[h]
      /\ \A k \in 1..K : d[k] = c[place(k)]
  <2>. DEFINE rest == Providers!RemoveAt(c, h)
              x == c[h]
  <2>1. rest \in Seq(V) /\ Len(rest) = K /\ \A k \in 1..K : rest[k] = c[place(k)]
    BY Removed
  <2>2. x \in V /\ d = Append(rest, x)
    OBVIOUS
  <2>. HIDE DEF rest, x, d, K, place
  <2>3. /\ Append(rest, x) \in Seq(V) /\ Len(Append(rest, x)) = Len(rest) + 1
        /\ Append(rest, x)[Len(rest) + 1] = x
        /\ \A k \in 1..Len(rest) : Append(rest, x)[k] = rest[k]
    BY <2>1, <2>2, Appended
  <2>. QED
    BY <2>1, <2>2, <2>3 DEF x
<1>. SUFFICES LastUsed(A, d, n)
  BY <1>1, <1>2
<1>. HIDE DEF d, L, K
<1>3. \A k \in 1..K : place(k) \in 1..L /\ place(k) # h
  BY <1>1
<1>4. \A k, m \in 1..K : k # m => place(k) # place(m)
  BY <1>1
<1>5. \A k \in 1..K, m \in 1..K : m >= k <=> place(m) >= place(k)
  BY <1>1
<1>6. \A p \in 1..L : p # h => \E k \in 1..K : p = place(k)
  <2>1. ASSUME NEW p \in 1..L, p # h PROVE \E k \in 1..K : p = place(k)
    <3>1. CASE p < h
      BY <1>1, <3>1
    <3>2. CASE p > h
      <4>1. p - 1 \in 1..K /\ p = place(p - 1)
        BY <1>1, <3>2
      <4>. QED
        BY <4>1
    <3>. QED
      BY <1>1, <2>1, <3>1, <3>2
  <2>. QED
    BY <2>1
<1>. HIDE DEF place
<1>7. \A k \in 1..(K + 1) : k \in 1..K \/ k = K + 1
  BY <1>1
<1>8. \A p, q \in 1..L : p # q => c[p].text # c[q].text
  BY DEF LastUsed, Different, L
<1>. HIDE DEF t
<1>9. c[h].text = t /\ A[n] = t /\ t # Providers!NoText /\ h \in 1..L
  BY <1>1 DEF t
<1>10. \A k \in 1..K : c[place(k)].text # t /\ d[k].text = c[place(k)].text
  BY <1>2, <1>3, <1>8, <1>9
<1>11. \A k \in 1..K : From(d, k) = From(c, place(k)) \cup {t}
  <2>1. ASSUME NEW k \in 1..K PROVE From(d, k) = From(c, place(k)) \cup {t}
    <3>1. ASSUME NEW m \in k..(K + 1) PROVE d[m].text \in From(c, place(k)) \cup {t}
      <4>1. CASE m = K + 1
        BY <1>2, <1>9, <4>1
      <4>2. CASE m \in 1..K
        <5>1. place(m) \in place(k)..L
          BY <1>1, <1>3, <1>5, <4>2
        <5>2. c[place(m)].text \in From(c, place(k))
          BY <5>1 DEF From, L
        <5>. QED
          BY <1>2, <4>2, <5>2
      <4>. QED
        BY <1>1, <4>1, <4>2
    <3>2. ASSUME NEW p \in place(k)..L PROVE c[p].text \in From(d, k)
      <4>1. CASE p = h
        <5>1. K + 1 \in k..Len(d)
          BY <1>1, <1>2
        <5>. QED
          BY <1>2, <4>1, <5>1 DEF From
      <4>2. CASE p # h
        <5>1. p \in 1..L
          BY <1>1, <1>3
        <5>2. PICK m \in 1..K : p = place(m)
          BY <1>6, <4>2, <5>1
        <5>3. m \in k..Len(d)
          BY <1>1, <1>2, <1>3, <1>5, <5>2
        <5>. QED
          BY <1>2, <5>2, <5>3 DEF From
      <4>. QED
        BY <4>1, <4>2
    <3>3. t \in From(d, k)
      <4>1. K + 1 \in k..Len(d)
        BY <1>1, <1>2
      <4>. QED
        BY <1>2, <1>9, <4>1 DEF From
    <3>4. From(d, k) \subseteq From(c, place(k)) \cup {t}
      BY <1>2, <3>1 DEF From
    <3>5. From(c, place(k)) \subseteq From(d, k)
      BY <3>2 DEF From, L
    <3>. QED
      BY <3>3, <3>4, <3>5
  <2>. QED
    BY <2>1
<1>12. From(d, K + 1) = {t}
  <2>1. (K + 1)..(K + 1) = {K + 1}
    BY <1>1
  <2>. QED
    BY <1>2, <1>9, <2>1 DEF From
<1>13. Different(d)
  <2>1. ASSUME NEW k \in 1..(K + 1), NEW m \in 1..(K + 1), k # m
        PROVE  d[k].text # d[m].text
    <3>1. CASE k \in 1..K /\ m \in 1..K
      BY <1>2, <1>3, <1>4, <1>8, <2>1, <3>1
    <3>2. CASE k = K + 1 /\ m \in 1..K
      BY <1>2, <1>9, <1>10, <3>2
    <3>3. CASE k \in 1..K /\ m = K + 1
      BY <1>2, <1>9, <1>10, <3>3
    <3>. QED
      BY <1>7, <2>1, <3>1, <3>2, <3>3
  <2>. QED
    BY <1>2, <2>1 DEF Different
<1>14. From(c, 1) \subseteq From(d, 1) /\ t \in From(d, 1)
  <2>1. \A k \in 1..(K + 1) : d[k].text \in From(d, 1)
    BY <1>2 DEF From
  <2>2. ASSUME NEW p \in 1..L PROVE c[p].text \in From(d, 1)
    <3>1. CASE p = h
      BY <1>1, <1>2, <2>1, <3>1
    <3>2. CASE p # h
      <4>1. PICK k \in 1..K : p = place(k)
        BY <1>6, <3>2
      <4>2. k \in 1..(K + 1)
        BY <1>1
      <4>. QED
        BY <1>10, <2>1, <4>1, <4>2
    <3>. QED
      BY <3>1, <3>2
  <2>3. From(c, 1) \subseteq From(d, 1)
    BY <2>2 DEF From, L
  <2>. QED
    BY <1>9, <2>2, <2>3
<1>15. Len(c) \in Nat /\ Len(d) \in Nat
  BY <1>1, <1>2 DEF L
<1>16. \A k \in 1..K : \E p \in 1..Len(c) :
         d[k].text = c[p].text /\ c[p].text # t /\ From(d, k) = From(c, p) \cup {t}
  BY <1>3, <1>10, <1>11 DEF L
<1>17. d[K + 1].text = t
  BY <1>2, <1>9
<1>18. Renewed(c, d, t)
  BY <1>1, <1>2, <1>12, <1>13, <1>14, <1>16, <1>17 DEF Renewed
<1>. QED
  BY <1>9, <1>15, <1>18, Latest

(* The text that was said longest ago drops out of a cache that is over.   *)
LEMMA Dropped ==
  ASSUME NEW A, NEW V, NEW b \in Seq(V), NEW n \in Nat, LastUsed(A, b, n),
         QUERY_CACHE_MAX_ENTRIES \in Nat, Len(b) > QUERY_CACHE_MAX_ENTRIES
  PROVE  LastUsed(A, Tail(b), n)
<1>. DEFINE K == Len(b) - 1
            c == Tail(b)
<1>1. QUERY_CACHE_MAX_ENTRIES \in Nat /\ Len(b) \in Nat
  OBVIOUS
<1>2. /\ K \in Nat /\ Len(b) = K + 1 /\ Len(c) = K
      /\ \A k \in 1..K : c[k] = b[k + 1]
  BY <1>1
<1>. SUFFICES LastUsed(A, c, n)
  OBVIOUS
<1>. HIDE DEF c, K
<1>3. \A k \in 1..K : k + 1 \in 1..(K + 1)
  BY <1>2
<1>4. \A k \in 1..K : From(c, k) = From(b, k + 1)
  <2>1. ASSUME NEW k \in 1..K PROVE From(c, k) = From(b, k + 1)
    <3>1. ASSUME NEW m \in k..K PROVE c[m].text \in From(b, k + 1)
      <4>1. m + 1 \in (k + 1)..Len(b) /\ m \in 1..K
        BY <1>2
      <4>. QED
        BY <1>2, <4>1 DEF From
    <3>2. ASSUME NEW m \in (k + 1)..(K + 1) PROVE b[m].text \in From(c, k)
      <4>1. m - 1 \in k..Len(c) /\ m - 1 \in 1..K /\ (m - 1) + 1 = m
        BY <1>2
      <4>. QED
        BY <1>2, <4>1 DEF From
    <3>. QED
      BY <1>2, <3>1, <3>2 DEF From
  <2>. QED
    BY <2>1
<1>5. Named(c)
  BY <1>2, <1>3 DEF LastUsed, Named
<1>6. Different(c)
  <2>1. \A k, m \in 1..K : k # m => k + 1 # m + 1
    BY <1>2
  <2>. QED
    BY <1>2, <1>3, <2>1 DEF LastUsed, Different
<1>7. SaidSince(A, c, n)
  BY <1>2, <1>3, <1>4 DEF LastUsed, SaidSince
<1>8. SinceSaid(A, c, n)
  BY <1>2, <1>3, <1>4 DEF LastUsed, SinceSaid
<1>9. Forgotten(A, c, n)
  <2>1. ASSUME NEW i \in 1..n, A[i] # Providers!NoText, A[i] \notin From(c, 1)
        PROVE  Cardinality(Said(A, i, n)) > QUERY_CACHE_MAX_ENTRIES
    <3>1. CASE A[i] \notin From(b, 1)
      BY <2>1, <3>1 DEF LastUsed, Forgotten
    <3>2. CASE A[i] \in From(b, 1)
      <4>1. PICK m \in 1..(K + 1) : A[i] = b[m].text
        BY <1>2, <3>2 DEF From
      <4>2. m = 1
        <5>1. ASSUME m # 1 PROVE FALSE
          <6>1. m - 1 \in 1..K /\ m - 1 \in 1..Len(c) /\ (m - 1) + 1 = m
            BY <1>2, <5>1
          <6>2. c[m - 1].text = A[i]
            BY <1>2, <4>1, <6>1
          <6>3. A[i] \in From(c, 1)
            BY <6>1, <6>2 DEF From
          <6>. QED
            BY <2>1, <6>3
        <5>. QED
          BY <5>1
      <4>3. From(b, 1) \in SUBSET Said(A, i, n)
        BY <1>2, <4>1, <4>2 DEF LastUsed, SinceSaid
      <4>4. IsFiniteSet(Said(A, i, n)) /\ Cardinality(Said(A, i, n)) \in Nat
        BY SaidFinite
      <4>5. Cardinality(From(b, 1)) <= Cardinality(Said(A, i, n))
        BY <4>3, <4>4, FS_Subset
      <4>6. Cardinality(From(b, 1)) = Len(b)
        <5>1. Different(b) /\ 1 \in 1..Len(b)
          BY <1>2 DEF LastUsed
        <5>. QED
          BY <1>1, <5>1, TextsCounted
      <4>. QED
        BY <1>1, <4>4, <4>5, <4>6
    <3>. QED
      BY <3>1, <3>2
  <2>. QED
    BY <2>1 DEF Forgotten
<1>. QED
  BY <1>5, <1>6, <1>7, <1>8, <1>9 DEF LastUsed

(* The service once it has answered n queries.                             *)
Serves(A, V, W, s, n) ==
  /\ s.cache \in Seq(V) /\ Len(s.cache) <= QUERY_CACHE_MAX_ENTRIES
  /\ s.answers \in Seq(W) /\ Len(s.answers) = n /\ s.asked \in Nat
  /\ LastUsed(A, s.cache, n)

(* The service before and after the n-th answer.                           *)
Answered(config, A, s, query, next, n) ==
  /\ A[n] \in {query.text, Providers!NoText}
  /\ next.asked > s.asked <=> query.text \notin From(s.cache, 1)
  /\ A[n] = Providers!NoText => query.text \notin From(s.cache, 1)
  /\ s.checked => next.checked
  /\ A[n] = Providers!NoText /\ ~Providers!Fails(config, query.exchange) =>
       Providers!Mismatched(config, s, query) /\ next.checked

(* A query that is answered, from the cache or not, leaves the service as  *)
(* it should be.                                                           *)
LEMMA EmbedOne ==
  ASSUME NEW config, NEW V, NEW W, V \subseteq W, Providers!NoVector \in W, NEW s,
         NEW query,
         QUERY_CACHE_MAX_ENTRIES \in Nat,
         Providers!Vector(query.text, query.width) \in V, query.text # Providers!NoText,
         NEW A, NEW n \in Nat, n # 0, Serves(A, V, W, s, n - 1),
         NEW next, next = Providers!EmbedQuery(config, s, query),
         A[n] = next.answers[n].text
  PROVE  /\ Serves(A, V, W, next, n)
         /\ Answered(config, A, s, query, next, n)
<1>1. PICK c \in Seq(V), a \in Nat, g \in Seq(W) :
        c = s.cache /\ a = s.asked /\ g = s.answers
  BY DEF Serves
<1>. DEFINE hits == {i \in DOMAIN c : c[i].text = query.text}
            failed == Providers!Fails(config, query.exchange)
            odd == Providers!Mismatched(config, s, query)
            fresh == Providers!Vector(query.text, query.width)
            Kept(b) == IF Len(b) > QUERY_CACHE_MAX_ENTRIES THEN Tail(b) ELSE b
<1>2. hits # {} <=> query.text \in From(c, 1)
  BY DEF From
<1>3. /\ A[n] = next.answers[n].text /\ LastUsed(A, c, n - 1) /\ Len(g) = n - 1
      /\ Len(c) <= QUERY_CACHE_MAX_ENTRIES
  BY <1>1 DEF Serves
<1>4. \A x \in W : next.answers = Append(g, x) =>
        next.answers \in Seq(W) /\ Len(next.answers) = n /\ A[n] = x.text
  <2>1. ASSUME NEW x \in W, next.answers = Append(g, x)
        PROVE  next.answers \in Seq(W) /\ Len(next.answers) = n /\ next.answers[n] = x
    BY <1>3, <2>1, Appended
  <2>. QED
    BY <1>3, <2>1
<1>5. ASSUME NEW b \in Seq(V), LastUsed(A, b, n), Len(b) <= QUERY_CACHE_MAX_ENTRIES + 1
      PROVE  /\ Kept(b) \in Seq(V) /\ LastUsed(A, Kept(b), n)
             /\ Len(Kept(b)) <= QUERY_CACHE_MAX_ENTRIES
  <2>1. CASE Len(b) > QUERY_CACHE_MAX_ENTRIES
    <3>1. Tail(b) \in Seq(V) /\ Len(Tail(b)) = Len(b) - 1
      BY <2>1
    <3>2. LastUsed(A, Tail(b), n)
      BY <1>5, <2>1, Dropped
    <3>. QED
      BY <1>5, <2>1, <3>1, <3>2
  <2>2. CASE ~(Len(b) > QUERY_CACHE_MAX_ENTRIES)
    BY <1>5, <2>2
  <2>. QED
    BY <2>1, <2>2
<1>6. CASE hits # {}
  <2>1. PICK h \in hits : h = CHOOSE i \in hits : TRUE
    BY <1>6, Zenon
  <2>. DEFINE b == Append(Providers!RemoveAt(c, h), c[h])
  <2>2. /\ next.cache = Kept(b) /\ next.asked = a + 0 /\ next.answers = Append(g, c[h])
        /\ next.checked = (s.checked \/ FALSE)
    BY <1>1, <1>6, <2>1 DEF Providers!EmbedQuery
  <2>3. h \in 1..Len(c) /\ c[h].text = query.text /\ c[h] \in W
    BY <2>1
  <2>4. A[n] = query.text /\ next.answers \in Seq(W) /\ Len(next.answers) = n
    BY <1>4, <2>2, <2>3
  <2>5. LastUsed(A, b, n) /\ b \in Seq(V) /\ Len(b) = Len(c)
    BY <1>3, <2>3, <2>4, MovedLast
  <2>6. Len(b) <= QUERY_CACHE_MAX_ENTRIES + 1
    BY <1>3, <2>5
  <2>. HIDE DEF b, Kept, hits
  <2>7. /\ next.cache \in Seq(V) /\ LastUsed(A, next.cache, n)
        /\ Len(next.cache) <= QUERY_CACHE_MAX_ENTRIES
    BY <1>5, <2>2, <2>5, <2>6
  <2>8. next.asked = a /\ next.asked \in Nat /\ ~(next.asked > s.asked)
    BY <1>1, <2>2
  <2>9. s.checked => next.checked
    BY <2>2
  <2>10. query.text \in From(s.cache, 1) /\ A[n] # Providers!NoText
    BY <1>1, <1>2, <1>6, <2>4
  <2>. QED
    BY <2>4, <2>7, <2>8, <2>9, <2>10 DEF Serves, Answered
<1>7. CASE hits = {} /\ (failed \/ odd)
  <2>1. /\ next.cache = c /\ next.asked = a + 1 /\
           next.answers = Append(g, Providers!NoVector)
        /\ next.checked = (s.checked \/ ~failed)
    BY <1>1, <1>7 DEF Providers!EmbedQuery
  <2>2. Providers!NoVector.text = Providers!NoText
    BY DEF Providers!NoVector, Providers!Vector
  <2>3. A[n] = Providers!NoText /\ next.answers \in Seq(W) /\ Len(next.answers) = n
    BY <1>4, <2>1, <2>2
  <2>4. LastUsed(A, c, n)
    BY <1>3, <2>3, NothingSaid
  <2>5. next.asked \in Nat /\ next.asked > s.asked
    BY <1>1, <2>1
  <2>6. query.text \notin From(s.cache, 1)
    BY <1>1, <1>2, <1>7
  <2>7. ~failed => odd /\ next.checked
    BY <1>7, <2>1
  <2>. HIDE DEF hits, Kept
  <2>. QED
    BY <1>3, <2>1, <2>3, <2>4, <2>5, <2>6, <2>7 DEF Serves, Answered
<1>8. CASE hits = {} /\ ~(failed \/ odd)
  <2>. DEFINE b == Append(c, fresh)
  <2>1. /\ next.cache = Kept(b) /\ next.asked = a + 1 /\ next.answers = Append(g, fresh)
        /\ next.checked = (s.checked \/ ~failed)
    BY <1>1, <1>8 DEF Providers!EmbedQuery
  <2>2. fresh.text = query.text /\ fresh \in V /\ fresh \in W
    BY DEF Providers!Vector
  <2>3. A[n] = query.text /\ next.answers \in Seq(W) /\ Len(next.answers) = n
    BY <1>4, <2>1, <2>2
  <2>4. query.text \notin From(c, 1)
    BY <1>2, <1>8
  <2>5. LastUsed(A, b, n)
    <3>. HIDE DEF fresh
    <3>. QED
      BY <1>3, <2>2, <2>3, <2>4, Added
  <2>6. b \in Seq(V) /\ Len(b) = Len(c) + 1
    <3>. HIDE DEF fresh
    <3>. QED
      BY <2>2
  <2>7. Len(b) <= QUERY_CACHE_MAX_ENTRIES + 1
    BY <1>3, <2>6
  <2>. HIDE DEF b, Kept, hits, fresh
  <2>8. /\ next.cache \in Seq(V) /\ LastUsed(A, next.cache, n)
        /\ Len(next.cache) <= QUERY_CACHE_MAX_ENTRIES
    BY <1>5, <2>1, <2>5, <2>6, <2>7
  <2>9. next.asked \in Nat /\ next.asked > s.asked
    BY <1>1, <2>1
  <2>10. s.checked => next.checked
    BY <2>1
  <2>11. query.text \notin From(s.cache, 1) /\ A[n] # Providers!NoText
    BY <1>1, <2>3, <2>4
  <2>. QED
    BY <2>3, <2>8, <2>9, <2>10, <2>11 DEF Serves, Answered
<1>. QED
  BY <1>6, <1>7, <1>8

(* Nothing was said before the first query, and nothing is remembered.     *)
LEMMA NothingYet == ASSUME NEW A PROVE LastUsed(A, << >>, 0)
  BY DEF LastUsed, Named, Different, SaidSince, SinceSaid, Forgotten, From

(* The texts that were answered lately are those in the cache.             *)
LEMMA LatelyIsCached ==
  ASSUME NEW A, NEW c, Len(c) \in Nat, NEW m \in Nat, LastUsed(A, c, m),
         QUERY_CACHE_MAX_ENTRIES \in Nat, Len(c) <= QUERY_CACHE_MAX_ENTRIES
  PROVE  {A[i] : i \in {i \in 1..m :
            /\ A[i] # Providers!NoText
            /\ Cardinality({A[j] : j \in i..m} \ {Providers!NoText}) <= QUERY_CACHE_MAX_ENTRIES}}
         = From(c, 1)
<1>. DEFINE Lately(i) == A[i] # Providers!NoText /\
            Cardinality(Said(A, i, m)) <= QUERY_CACHE_MAX_ENTRIES
<1>1. ASSUME NEW i \in 1..m, Lately(i) PROVE A[i] \in From(c, 1)
  <2>1. PICK x \in Nat : x = Cardinality(Said(A, i, m))
    BY SaidFinite
  <2>2. ~(x > QUERY_CACHE_MAX_ENTRIES)
    BY <1>1, <2>1
  <2>. QED
    BY <1>1, <2>1, <2>2 DEF LastUsed, Forgotten
<1>2. ASSUME NEW x \in From(c, 1) PROVE \E i \in 1..m : Lately(i) /\ A[i] = x
  <2>1. PICK k \in 1..Len(c) : c[k].text = x
    BY DEF From
  <2>2. PICK i \in 1..m : A[i] = x /\ Said(A, i, m) \in SUBSET From(c, k)
    BY <2>1 DEF LastUsed, SaidSince
  <2>3. A[i] # Providers!NoText
    BY <2>1, <2>2 DEF LastUsed, Named
  <2>4. IsFiniteSet(From(c, k)) /\ Cardinality(From(c, k)) <= Len(c)
    BY <2>1, TextsCounted DEF LastUsed
  <2>5. Cardinality(Said(A, i, m)) <= Cardinality(From(c, k))
    BY <2>2, <2>4, FS_Subset
  <2>6. Cardinality(Said(A, i, m)) \in Nat /\ Cardinality(From(c, k)) \in Nat
    BY <2>4, SaidFinite, FS_CardinalityType
  <2>7. Cardinality(Said(A, i, m)) <= QUERY_CACHE_MAX_ENTRIES
    BY <2>4, <2>5, <2>6
  <2>. QED
    BY <2>2, <2>3, <2>7
<1>3. {A[i] : i \in {i \in 1..m : Lately(i)}} = From(c, 1)
  <2>. HIDE DEF Lately
  <2>. QED
    BY <1>1, <1>2
<1>. QED
  BY <1>3 DEF Said

(* An instance names the library's cardinality anew: it is the same.       *)
LEMMA QueriesCounted == \A S : Providers!Cardinality(S) = Cardinality(S)
  BY DEF Providers!Cardinality, Cardinality

(* However many queries come, in whatever order and with whatever outcome, *)
(* one is computed anew only if its text is not among those answered       *)
(* lately, and a width is refused once (embed_query, the cache of queries).*)
THEOREM QueriesAreRemembered ==
  ASSUME NEW config, NEW C, NEW queries \in Seq(C),
         \A query \in C : query.text # Providers!NoText, QUERY_CACHE_MAX_ENTRIES \in Nat
  PROVE  Providers!RemembersQueries(config, queries)
<1>. DEFINE N == Len(queries)
            done == Providers!EmbedQueries(config, queries)
            A == [j \in 1..N |-> done[j].answers[j].text]
            V == {Providers!Vector(query.text, query.width) : query \in C}
            W == V \cup {Providers!NoVector}
            fails(n) == Providers!Fails(config, queries[n].exchange)
            Well(n) == /\ Serves(A, V, W, done[n], n)
                       /\ \A k \in 1..n :
                            A[k] = Providers!NoText /\ ~fails(k) => done[n].checked
            cached(n) == From(done[n - 1].cache, 1)
            Told(n) == /\ A[n] \in {queries[n].text, Providers!NoText}
                       /\ done[n].asked > done[n - 1].asked <=>
                            queries[n].text \notin cached(n)
                       /\ A[n] = Providers!NoText => queries[n].text \notin cached(n)
                       /\ A[n] = Providers!NoText /\
                          ~fails(n) => Providers!Mismatched(config, done[n - 1], queries[n])
<1>1. N \in Nat /\ \A n \in 1..N : queries[n] \in C
  OBVIOUS
<1>2. done[0] = Providers!Fresh /\
      \A n \in 1..N : done[n] = Providers!EmbedQuery(config, done[n - 1], queries[n])
  BY <1>1, EmbedQueriesRecur
<1>3. V \subseteq W /\ Providers!NoVector \in W
  OBVIOUS
<1>4. \A n \in 1..N :
        Providers!Vector(queries[n].text, queries[n].width) \in V /\
        queries[n].text # Providers!NoText
  BY <1>1
<1>5. \A n \in 1..N : A[n] = done[n].answers[n].text
  OBVIOUS
<1>. HIDE DEF N, done, A, V, W, fails
<1>6. Well(0)
  <2>1. /\ done[0].cache = << >> /\ done[0].answers = << >> /\ done[0].asked = 0
    BY <1>2 DEF Providers!Fresh
  <2>. QED
    BY <2>1, NothingYet DEF Serves
<1>7. ASSUME NEW n \in 1..N, Well(n - 1) PROVE Well(n) /\ Told(n)
  <2>1. PICK s, next, query : s = done[n - 1] /\ next = done[n] /\ query = queries[n]
    OBVIOUS
  <2>2. Serves(A, V, W, s, n - 1)
    BY <1>7, <2>1
  <2>3. next = Providers!EmbedQuery(config, s, query) /\ A[n] = next.answers[n].text
    BY <1>2, <1>5, <2>1
  <2>4. n \in Nat /\ n # 0
    BY <1>1
  <2>5. Providers!Vector(query.text, query.width) \in V /\ query.text # Providers!NoText
    BY <1>4, <2>1
  <2>6. Serves(A, V, W, next, n) /\ Answered(config, A, s, query, next, n)
    <3>. HIDE DEF Well, Told
    <3>. QED
      BY <1>3, <2>2, <2>3, <2>4, <2>5, EmbedOne
  <2>7. \A k \in 1..n : k \in 1..(n - 1) \/ k = n
    BY <2>4
  <2>8. \A k \in 1..n : A[k] = Providers!NoText /\ ~fails(k) => done[n].checked
    <3>1. \A k \in 1..(n - 1) : A[k] = Providers!NoText /\ ~fails(k) => s.checked
      BY <1>7, <2>1
    <3>2. A[n] = Providers!NoText /\ ~fails(n) => next.checked
      BY <2>1, <2>6 DEF fails, Answered
    <3>. QED
      BY <2>1, <2>6, <2>7, <3>1, <3>2 DEF Answered
  <2>9. Well(n)
    BY <2>1, <2>6, <2>8
  <2>10. Told(n)
    BY <2>1, <2>6 DEF fails, Answered
  <2>. QED
    BY <2>9, <2>10
<1>8. \A n \in 0..N : Well(n)
  <2>. DEFINE S == {n \in 0..N : Well(n)}
  <2>1. 0 \in S
    BY <1>1, <1>6
  <2>2. ASSUME NEW n \in 1..N, n - 1 \in S PROVE n \in S
    <3>1. n \in 0..N /\ Well(n - 1)
      BY <1>1, <2>2
    <3>. HIDE DEF Well, Told
    <3>. QED
      BY <1>7, <3>1
  <2>3. 0..N \subseteq S
    <3>. HIDE DEF S
    <3>. QED
      BY <1>1, <2>1, <2>2, Upwards
  <2>. QED
    BY <2>3
<1>9. \A n \in 1..N : Told(n)
  <2>1. \A n \in 1..N : n - 1 \in 0..N
    BY <1>1
  <2>. HIDE DEF Well, Told
  <2>. QED
    BY <1>7, <1>8, <2>1
<1>. DEFINE recent(n) ==
              {queries[i].text : i \in {i \in 1..(n - 1) :
                 /\ done[i].answers[i].text # Providers!NoText
                 /\ Providers!Cardinality({done[j].answers[j].text : j \in i..(n - 1)} \ {Providers!NoText})
                      <= QUERY_CACHE_MAX_ENTRIES}}
<1>10. ASSUME NEW n \in 1..N PROVE recent(n) = cached(n)
  <2>1. PICK c \in Seq(V) : c = done[n - 1].cache /\ Len(c) \in Nat
    BY <1>1, <1>8 DEF Serves
  <2>2. PICK m \in Nat : m = n - 1 /\ m \in 0..N
    BY <1>1
  <2>3. LastUsed(A, c, m) /\ Len(c) <= QUERY_CACHE_MAX_ENTRIES
    BY <1>8, <2>1, <2>2 DEF Serves
  <2>. DEFINE Lately(i) == /\ A[i] # Providers!NoText
                         /\ Cardinality({A[j] : j \in i..m} \ {Providers!NoText})
                              <= QUERY_CACHE_MAX_ENTRIES
              Said2(i) == /\ done[i].answers[i].text # Providers!NoText
                          /\ Providers!Cardinality({done[j].answers[j].text : j \in i..m} \ {Providers!NoText})
                              <= QUERY_CACHE_MAX_ENTRIES
  <2>4. {A[i] : i \in {i \in 1..m : Lately(i)}} = From(c, 1)
    <3>1. Len(c) \in Nat /\ LastUsed(A, c, m) /\ Len(c) <= QUERY_CACHE_MAX_ENTRIES
      BY <2>1, <2>3
    <3>. HIDE DEF A
    <3>. QED
      BY <3>1, LatelyIsCached
  <2>5. ASSUME NEW i \in 1..m PROVE Lately(i) <=> Said2(i)
    <3>1. i \in 1..N /\ \A j \in i..m : j \in 1..N
      BY <1>1, <2>2
    <3>2. {A[j] : j \in i..m} = {done[j].answers[j].text : j \in i..m}
      BY <1>5, <3>1
    <3>. QED
      BY <1>5, <3>1, <3>2, QueriesCounted
  <2>6. ASSUME NEW i \in 1..m, A[i] # Providers!NoText PROVE A[i] = queries[i].text
    <3>1. i \in 1..N
      BY <1>1, <2>2
    <3>. QED
      BY <1>9, <2>6, <3>1
  <2>7. {queries[i].text : i \in {i \in 1..m : Said2(i)}}
          = {A[i] : i \in {i \in 1..m : Lately(i)}}
    <3>1. \A i \in 1..m : Lately(i) => A[i] = queries[i].text
      BY <2>6
    <3>. HIDE DEF Lately, Said2
    <3>. QED
      BY <2>5, <3>1
  <2>. QED
    BY <2>1, <2>2, <2>4, <2>7
<1>. DEFINE refused == {n \in 1..N : A[n] = Providers!NoText /\ ~fails(n)}
<1>11. ASSUME NEW n \in refused PROVE queries[n].width # config.dimension /\ refused = {n}
  <2>1. ASSUME NEW i \in refused
        PROVE  Providers!Mismatched(config, done[i - 1], queries[i])
    BY <1>9, <2>1
  <2>2. ASSUME NEW i \in refused, NEW k \in refused, k < i PROVE FALSE
    <3>1. k \in 1..(i - 1) /\ i - 1 \in 0..N
      BY <1>1, <2>2
    <3>2. done[i - 1].checked
      BY <1>8, <3>1
    <3>. QED
      BY <2>1, <3>2 DEF Providers!Mismatched
  <2>3. \A i \in refused : i = n
    BY <2>2
  <2>4. queries[n].width # config.dimension
    BY <2>1 DEF Providers!Mismatched
  <2>. HIDE DEF refused
  <2>. QED
    BY <2>3, <2>4
<1>12. DOMAIN queries = 1..N /\ N \in 0..N
  BY <1>1 DEF N
<1>13. Len(done[Len(queries)].cache) <= QUERY_CACHE_MAX_ENTRIES
  BY <1>8, <1>12 DEF N, Serves
<1>14. ASSUME NEW n \in 1..N
       PROVE  /\ done[n].answers[n].text \in {queries[n].text, Providers!NoText}
              /\ done[n].asked > done[n - 1].asked <=> queries[n].text \notin cached(n)
              /\ done[n].answers[n].text = Providers!NoText =>
                   queries[n].text \notin cached(n)
  BY <1>5, <1>9
<1>15. {n \in DOMAIN queries : /\ done[n].answers[n].text = Providers!NoText
                               /\ ~Providers!Fails(config, queries[n].exchange)} = refused
  BY <1>5, <1>12 DEF fails
<1>. DEFINE denied == {n \in DOMAIN queries : /\ done[n].answers[n].text = Providers!NoText
                                              /\ ~Providers!Fails(config, queries[n].exchange)}
<1>16. Providers!RemembersQueries(config, queries)
        <=> /\ Len(done[Len(queries)].cache) <= QUERY_CACHE_MAX_ENTRIES
            /\ \A n \in DOMAIN queries :
                 /\ done[n].answers[n].text \in {queries[n].text, Providers!NoText}
                 /\ done[n].asked > done[n - 1].asked <=> queries[n].text \notin recent(n)
                 /\ done[n].answers[n].text = Providers!NoText =>
                      queries[n].text \notin recent(n)
            /\ \A n \in denied : queries[n].width # config.dimension /\ denied = {n}
  BY DEF Providers!RemembersQueries, done
<1>17. \A n \in denied : queries[n].width # config.dimension /\ denied = {n}
  <2>. HIDE DEF refused, denied
  <2>1. denied = refused
    BY <1>15 DEF denied
  <2>. QED
    BY <1>11, <2>1
<1>. HIDE DEF refused, denied, cached, recent
<1>18. \A n \in DOMAIN queries :
         /\ done[n].answers[n].text \in {queries[n].text, Providers!NoText}
         /\ done[n].asked > done[n - 1].asked <=> queries[n].text \notin recent(n)
         /\ done[n].answers[n].text = Providers!NoText => queries[n].text \notin recent(n)
  BY <1>10, <1>12, <1>14
<1>. QED
  BY <1>13, <1>16, <1>17, <1>18

-----------------------------------------------------------------------------
(* SELECTION. What Python's comprehensions and its sort make of a          *)
(* sequence: a comprehension takes the places that pass, in order; a sort  *)
(* takes every place once, each before those it is over and, among equals, *)
(* in the order in which they were.                                        *)

(* Places are chosen one after the other.                                  *)
LEMMA ChosenRecur ==
  ASSUME NEW n \in Nat, NEW S
  PROVE  /\ Knowledge!ChosenUpTo(n, S)[0] = << >>
         /\ \A k \in 1..n :
              Knowledge!ChosenUpTo(n, S)[k]
                = IF k \in S
                  THEN Append(Knowledge!ChosenUpTo(n, S)[k - 1], k)
                  ELSE Knowledge!ChosenUpTo(n, S)[k - 1]
<1>. DEFINE n0 == n
            f == Knowledge!ChosenUpTo(n, S)
            OneStep(g, k) == IF k \in S THEN Append(g[k - 1], k) ELSE g[k - 1]
            Body(g, k) == IF k = 0 THEN << >> ELSE OneStep(g, k)
            Is(g, m) == g = [k \in 0..m |-> Body(g, k)]
            M == {m \in 0..n0 : \E g : Is(g, m)}
<1>1. f = CHOOSE g : Is(g, n0)
  BY DEF Knowledge!ChosenUpTo
<1>2. ASSUME NEW g, NEW h, NEW k, h[k - 1] = g[k - 1] PROVE OneStep(h, k) = OneStep(g, k)
  BY <1>2
<1>. HIDE DEF OneStep
<1>3. 0 \in M
  <2>1. Is([k \in 0..0 |-> << >>], 0)
    OBVIOUS
  <2>2. \E g : Is(g, 0)
    <3>. HIDE DEF Is
    <3>. QED
      BY <2>1
  <2>. QED
    BY <2>2
<1>4. ASSUME NEW m \in 1..n0, m - 1 \in M PROVE m \in M
  <2>1. PICK g : Is(g, m - 1)
    BY <1>4
  <2>. DEFINE h == [k \in 0..m |-> IF k < m THEN g[k] ELSE Body(g, m)]
  <2>2. ASSUME NEW k \in 0..m PROVE h[k] = Body(h, k)
    <3>1. k # 0 => h[k - 1] = g[k - 1]
      OBVIOUS
    <3>2. Body(h, k) = Body(g, k)
      <4>. HIDE DEF h
      <4>. QED
        BY <3>1, <1>2
    <3>3. k < m => h[k] = Body(g, k)
      BY <2>1
    <3>. QED
      BY <3>2, <3>3
  <2>3. \E i : Is(i, m)
    <3>1. Is(h, m)
      BY <2>2
    <3>. HIDE DEF Is, h
    <3>. QED
      BY <3>1
  <2>. QED
    BY <2>3
<1>5. Is(f, n0)
  <2>1. 0..n0 \subseteq M
    <3>. HIDE DEF M
    <3>. QED
      BY <1>3, <1>4, Upwards
  <2>2. n0 \in M
    <3>. HIDE DEF M
    <3>. QED
      BY <2>1
  <2>3. \E g : Is(g, n0)
    BY <2>2
  <2>. HIDE DEF Is, f
  <2>. QED
    BY <1>1, <2>3
<1>6. \A k \in 0..n0 : f[k] = Body(f, k)
  BY <1>5
<1>. QED
  BY <1>6 DEF OneStep

(* Places are inserted one after the other.                                *)
LEMMA SortedRecur ==
  ASSUME NEW n \in Nat, NEW over
  PROVE  /\ Knowledge!SortedUpTo(n, over)[0] = << >>
         /\ \A k \in 1..n :
              Knowledge!SortedUpTo(n, over)[k]
                = Knowledge!Inserted(Knowledge!SortedUpTo(n, over)[k - 1], k, over)
<1>. DEFINE n0 == n
            f == Knowledge!SortedUpTo(n, over)
            OneStep(g, k) == Knowledge!Inserted(g[k - 1], k, over)
            Body(g, k) == IF k = 0 THEN << >> ELSE OneStep(g, k)
            Is(g, m) == g = [k \in 0..m |-> Body(g, k)]
            M == {m \in 0..n0 : \E g : Is(g, m)}
<1>1. f = CHOOSE g : Is(g, n0)
  BY DEF Knowledge!SortedUpTo
<1>2. ASSUME NEW g, NEW h, NEW k, h[k - 1] = g[k - 1] PROVE OneStep(h, k) = OneStep(g, k)
  BY <1>2
<1>. HIDE DEF OneStep
<1>3. 0 \in M
  <2>1. Is([k \in 0..0 |-> << >>], 0)
    OBVIOUS
  <2>2. \E g : Is(g, 0)
    <3>. HIDE DEF Is
    <3>. QED
      BY <2>1
  <2>. QED
    BY <2>2
<1>4. ASSUME NEW m \in 1..n0, m - 1 \in M PROVE m \in M
  <2>1. PICK g : Is(g, m - 1)
    BY <1>4
  <2>. DEFINE h == [k \in 0..m |-> IF k < m THEN g[k] ELSE Body(g, m)]
  <2>2. ASSUME NEW k \in 0..m PROVE h[k] = Body(h, k)
    <3>1. k # 0 => h[k - 1] = g[k - 1]
      OBVIOUS
    <3>2. Body(h, k) = Body(g, k)
      <4>. HIDE DEF h
      <4>. QED
        BY <3>1, <1>2
    <3>3. k < m => h[k] = Body(g, k)
      BY <2>1
    <3>. QED
      BY <3>2, <3>3
  <2>3. \E i : Is(i, m)
    <3>1. Is(h, m)
      BY <2>2
    <3>. HIDE DEF Is, h
    <3>. QED
      BY <3>1
  <2>. QED
    BY <2>3
<1>5. Is(f, n0)
  <2>1. 0..n0 \subseteq M
    <3>. HIDE DEF M
    <3>. QED
      BY <1>3, <1>4, Upwards
  <2>2. n0 \in M
    <3>. HIDE DEF M
    <3>. QED
      BY <2>1
  <2>3. \E g : Is(g, n0)
    BY <2>2
  <2>. HIDE DEF Is, f
  <2>. QED
    BY <1>1, <2>3
<1>6. \A k \in 0..n0 : f[k] = Body(f, k)
  BY <1>5
<1>. QED
  BY <1>6 DEF OneStep

(* The operators of finite sets are the same for those who use them.       *)
LEMMA CountedAlike == \A S : Knowledge!Cardinality(S) = Cardinality(S)
  BY DEF Knowledge!Cardinality, Cardinality

(* What a sequence has one by one.                                         *)
LEMMA AppendedIs ==
  ASSUME NEW A, NEW s \in Seq(A), NEW x \in A
  PROVE  /\ Append(s, x) \in Seq(A) /\ Len(Append(s, x)) = Len(s) + 1
         /\ Append(s, x)[Len(s) + 1] = x
         /\ \A i \in 1..Len(s) : Append(s, x)[i] = s[i]
  OBVIOUS

(* The same of a sequence that is what an element appended makes.          *)
LEMMA AppendedAs ==
  ASSUME NEW A, NEW s \in Seq(A), NEW x \in A, NEW m \in Nat, Len(s) = m,
         NEW t, t = Append(s, x)
  PROVE  /\ t \in Seq(A) /\ Len(t) = m + 1 /\ t[m + 1] = x
         /\ \A i \in 1..m : t[i] = s[i]
  BY AppendedIs

Increasing(s) == \A i, j \in 1..Len(s) : i < j => s[i] < s[j]
Elements(s) == {s[i] : i \in 1..Len(s)}

(* One more element.                                                       *)
LEMMA ElementsAppended ==
  ASSUME NEW A, NEW s \in Seq(A), NEW x
  PROVE  Elements(Append(s, x)) = Elements(s) \cup {x}
<1>1. PICK L \in Nat : L = Len(s)
  OBVIOUS
<1>2. PICK t : t = Append(s, x)
  OBVIOUS
<1>3. Len(t) = L + 1 /\ t[L + 1] = x /\ \A i \in 1..L : t[i] = s[i]
  BY <1>1, <1>2
<1>4. 1..(L + 1) = 1..L \cup {L + 1}
  OBVIOUS
<1>5. {t[i] : i \in 1..(L + 1)} = {s[i] : i \in 1..L} \cup {x}
  BY <1>3, <1>4
<1>. QED
  BY <1>1, <1>2, <1>3, <1>5 DEF Elements

(* The places chosen are those of the set, in order.                       *)
LEMMA ChosenIs ==
  ASSUME NEW n \in Nat, NEW S
  PROVE  /\ Knowledge!Chosen(n, S) \in Seq(1..n) /\ Increasing(Knowledge!Chosen(n, S))
         /\ Elements(Knowledge!Chosen(n, S)) = S \cap (1..n)
<1>. DEFINE c == Knowledge!ChosenUpTo(n, S)
            Well(k, s) == /\ s \in Seq(1..n) /\ Increasing(s) /\ Elements(s) = S \cap (1..k)
            M == {k \in 0..n : Well(k, c[k])}
<1>1. c[0] = << >> /\ \A k \in 1..n : c[k] = IF k \in S THEN Append(c[k - 1], k) ELSE c[k - 1]
  BY ChosenRecur
<1>. HIDE DEF c
<1>2. 0 \in M
  <2>1. Well(0, << >>)
    BY DEF Increasing, Elements
  <2>. HIDE DEF Well
  <2>. QED
    BY <1>1, <2>1
<1>3. ASSUME NEW k \in 1..n, k - 1 \in M PROVE k \in M
  <2>1. PICK s : s = c[k - 1]
    OBVIOUS
  <2>2. s \in Seq(1..n) /\ Increasing(s) /\ Elements(s) = S \cap (1..(k - 1))
    BY <1>3, <2>1
  <2>3. Len(s) \in Nat /\ \A i \in 1..Len(s) : s[i] \in 1..(k - 1)
    BY <2>2 DEF Elements
  <2>4. CASE k \in S
    <3>1. PICK t : t = Append(s, k)
      OBVIOUS
    <3>2. /\ t \in Seq(1..n) /\ Len(t) = Len(s) + 1 /\ t[Len(s) + 1] = k
          /\ \A i \in 1..Len(s) : t[i] = s[i]
      BY <2>2, <3>1, AppendedIs
    <3>7. PICK L \in Nat : L = Len(s)
      BY <2>3
    <3>3. Increasing(t)
      <4>1. \A i, j \in 1..L : i < j => s[i] < s[j]
        BY <2>2, <3>7 DEF Increasing
      <4>2. \A i, j \in 1..(L + 1) : i < j => t[i] < t[j]
        <5>1. \A i \in 1..L : t[i] = s[i] /\ s[i] < k
          BY <1>3, <2>3, <3>2, <3>7
        <5>2. t[L + 1] = k
          BY <3>2, <3>7
        <5>. QED
          BY <4>1, <5>1, <5>2
      <4>. QED
        BY <3>2, <3>7, <4>2 DEF Increasing
    <3>4. Elements(t) = Elements(s) \cup {k}
      BY <2>2, <2>3, <3>1, ElementsAppended
    <3>5. Elements(t) = S \cap (1..k)
      BY <2>2, <2>4, <3>4
    <3>6. c[k] = t
      BY <1>1, <2>1, <2>4, <3>1
    <3>. QED
      BY <3>2, <3>3, <3>5, <3>6
  <2>5. CASE k \notin S
    <3>1. c[k] = s
      BY <1>1, <2>1, <2>5
    <3>2. S \cap (1..(k - 1)) = S \cap (1..k)
      BY <2>5
    <3>. QED
      BY <2>2, <3>1, <3>2
  <2>. QED
    BY <2>4, <2>5
<1>4. n \in M
  <2>. HIDE DEF M
  <2>. QED
    BY <1>2, <1>3, Upwards
<1>. QED
  BY <1>4 DEF c, Knowledge!Chosen

(* A relation that sorts: what is over is not under, and whatever stands   *)
(* between two of which one is over the other is over or under.            *)
Sorts(n, over) ==
  /\ \A a, b \in 1..n : <<a, b>> \in over => <<b, a>> \notin over
  /\ \A a, b, c \in 1..n : <<a, b>> \in over => <<a, c>> \in over \/ <<c, b>> \in over

(* Nothing stands after what it is over, and what is alike in its order.   *)
Stable(s, over) ==
  \A i, j \in 1..Len(s) : i < j =>
    /\ <<s[j], s[i]>> \notin over
    /\ <<s[i], s[j]>> \in over \/ s[i] < s[j]

(* A set of places that has with each all before is as many first places.  *)
LEMMA DownTo ==
  ASSUME NEW m \in Nat, NEW P \in SUBSET (1..m),
         \A i, j \in 1..m : i < j /\ j \in P => i \in P
  PROVE  \E p \in 0..m : P = 1..p /\ Cardinality(P) = p
<1>1. \E p \in 0..m : P = 1..p
  <2>1. CASE P = 1..m
    BY <2>1
  <2>2. CASE P # 1..m
    <3>1. PICK q \in (1..m) \ P : \A j \in 1..(q - 1) : j \notin (1..m) \ P
      <4>. DEFINE Q == (1..m) \ P
      <4>1. Q # {} /\ Q \in SUBSET (1..m)
        BY <2>2
      <4>. HIDE DEF Q
      <4>2. \E i \in Q : \A j \in 1..(i - 1) : j \notin Q
        BY <4>1, FirstOfAll
      <4>. QED
        BY <4>2 DEF Q
    <3>2. \A j \in 1..m : j \in P <=> j \in 1..(q - 1)
      BY <3>1
    <3>4. P \subseteq 1..m /\ 1..(q - 1) \subseteq 1..m /\ q - 1 \in 0..m
      OBVIOUS
    <3>3. P = 1..(q - 1) /\ q - 1 \in 0..m
      BY <3>2, <3>4
    <3>. QED
      BY <3>3
  <2>. QED
    BY <2>1, <2>2
<1>2. PICK p \in 0..m : P = 1..p
  BY <1>1
<1>3. Cardinality(1..p) = p
  BY FS_Interval
<1>. QED
  BY <1>2, <1>3

(* One sequence after another.                                             *)
LEMMA Joined ==
  ASSUME NEW A, NEW u \in Seq(A), NEW v \in Seq(A)
  PROVE  /\ u \o v \in Seq(A) /\ Len(u \o v) = Len(u) + Len(v)
         /\ \A i \in 1..Len(u) : (u \o v)[i] = u[i]
         /\ \A i \in 1..Len(v) : (u \o v)[Len(u) + i] = v[i]
  OBVIOUS

(* A sequence with one element put in.                                     *)
HasPutIn(t, s, x, m, p) ==
  /\ Len(t) = m + 1
  /\ \A i \in 1..p : t[i] = s[i]
  /\ t[p + 1] = x
  /\ \A i \in 1..(m - p) : t[p + 1 + i] = s[p + i]

(* One element put in after the first so many.                             *)
LEMMA PutIn ==
  ASSUME NEW A, NEW s \in Seq(A), NEW x \in A, NEW m \in Nat, m = Len(s), NEW p \in 0..m
  PROVE  LET t == SubSeq(s, 1, p) \o <<x>> \o SubSeq(s, p + 1, m)
         IN  t \in Seq(A) /\ HasPutIn(t, s, x, m, p)
<1>1. PICK u, v, w, t : /\ u = SubSeq(s, 1, p) /\ v = SubSeq(s, p + 1, m) /\ w = u \o <<x>>
                        /\ t = w \o v
  OBVIOUS
<1>2. \A i \in 1..m : s[i] \in A
  OBVIOUS
<1>3. u \in Seq(A) /\ Len(u) = p /\ \A i \in 1..p : u[i] = s[i]
  BY <1>1, <1>2, SubSeqProperties
<1>4. v \in Seq(A) /\ Len(v) = m - p /\ \A i \in 1..(m - p) : v[i] = s[p + i]
  BY <1>1, <1>2, SubSeqProperties
<1>5. w = Append(u, x)
  BY <1>1, <1>3, AppendIsConcat
<1>6. w \in Seq(A) /\ Len(w) = p + 1 /\ w[p + 1] = x /\ \A i \in 1..p : w[i] = u[i]
  BY <1>3, <1>5, AppendedIs
<1>7. /\ t \in Seq(A) /\ Len(t) = Len(w) + Len(v)
      /\ \A i \in 1..Len(w) : t[i] = w[i]
      /\ \A i \in 1..Len(v) : t[Len(w) + i] = v[i]
  <2>1. t = w \o v
    BY <1>1
  <2>2. w \in Seq(A) /\ v \in Seq(A)
    BY <1>4, <1>6
  <2>. QED
    BY <2>1, <2>2, Joined
<1>8. t[p + 1] = x /\ \A i \in 1..p : t[i] = s[i]
  <2>1. 1..(p + 1) = 1..p \cup {p + 1}
    OBVIOUS
  <2>. QED
    BY <1>3, <1>6, <1>7, <2>1
<1>9. \A i \in 1..(m - p) : t[p + 1 + i] = s[p + i]
  BY <1>4, <1>6, <1>7
<1>10. Len(t) = m + 1
  BY <1>4, <1>6, <1>7
<1>11. t = SubSeq(s, 1, p) \o <<x>> \o SubSeq(s, p + 1, m)
  BY <1>1
<1>. QED
  BY <1>7, <1>8, <1>9, <1>10, <1>11 DEF HasPutIn

(* One place is inserted before those it is over.                          *)
LEMMA InsertedIs ==
  ASSUME NEW n \in Nat, NEW k \in 1..n, NEW over, Sorts(n, over),
         NEW s \in Seq(1..(k - 1)), Stable(s, over)
  PROVE  LET t == Knowledge!Inserted(s, k, over)
         IN  /\ t \in Seq(1..k) /\ Len(t) = Len(s) + 1 /\ Stable(t, over)
             /\ Elements(t) = Elements(s) \cup {k}
<1>. DEFINE P == {i \in DOMAIN s : <<k, s[i]>> \notin over}
<1>1. PICK m \in Nat : m = Len(s)
  OBVIOUS
<1>0. PICK t : t = Knowledge!Inserted(s, k, over)
  OBVIOUS
<1>2. DOMAIN s = 1..m /\ \A i \in 1..m : s[i] \in 1..n /\ s[i] < k
  BY <1>1
<1>9. \A i, j \in 1..m : i < j =>
        <<s[j], s[i]>> \notin over /\ (<<s[i], s[j]>> \in over \/ s[i] < s[j])
  BY <1>1 DEF Stable
<1>3. P \in SUBSET (1..m) /\ \A i \in 1..m : i \in P <=> <<k, s[i]>> \notin over
  BY <1>2
<1>. HIDE DEF P
<1>4. PICK p \in 0..m : P = 1..p /\ Cardinality(P) = p
  <2>1. \A i, j \in 1..m : i < j /\ j \in P => i \in P
    BY <1>2, <1>3, <1>9 DEF Sorts
  <2>. QED
    BY <1>3, <2>1, DownTo
<1>5. \A i \in 1..m : i <= p <=> <<k, s[i]>> \notin over
  BY <1>3, <1>4
<1>6. t = SubSeq(s, 1, p) \o <<k>> \o SubSeq(s, p + 1, m)
  <2>1. t = SubSeq(s, 1, Knowledge!Cardinality(P)) \o <<k>>
              \o SubSeq(s, Knowledge!Cardinality(P) + 1, Len(s))
    BY <1>0 DEF Knowledge!Inserted, P
  <2>2. Knowledge!Cardinality(P) = p
    BY <1>4, CountedAlike
  <2>. QED
    BY <1>1, <2>1, <2>2
<1>7. /\ t \in Seq(1..k) /\ Len(t) = m + 1
      /\ \A i \in 1..p : t[i] = s[i]
      /\ t[p + 1] = k
      /\ \A i \in (p + 2)..(m + 1) : t[i] = s[i - 1]
  <2>1. s \in Seq(1..k) /\ k \in 1..k
    <3>1. 1..(k - 1) \subseteq 1..k
      OBVIOUS
    <3>2. s \in Seq(1..(k - 1))
      OBVIOUS
    <3>. QED
      BY <3>1, <3>2, SeqMonotonic
  <2>3. t \in Seq(1..k) /\ HasPutIn(t, s, k, m, p)
    BY <1>1, <1>6, <2>1, PutIn
  <2>2. /\ Len(t) = m + 1
        /\ \A i \in 1..p : t[i] = s[i]
        /\ t[p + 1] = k
        /\ \A i \in 1..(m - p) : t[p + 1 + i] = s[p + i]
    BY <2>3 DEF HasPutIn
  <2>4. \A i \in (p + 2)..(m + 1) : t[i] = s[i - 1]
    <3>1. ASSUME NEW i \in (p + 2)..(m + 1) PROVE t[i] = s[i - 1]
      <4>1. i - (p + 1) \in 1..(m - p) /\ p + 1 + (i - (p + 1)) = i /\ p + (i - (p + 1)) = i - 1
        OBVIOUS
      <4>. QED
        BY <2>2, <4>1
    <3>. QED
      BY <3>1
  <2>. QED
    BY <2>2, <2>3, <2>4
<1>8. ASSUME NEW i \in 1..(m + 1), NEW j \in 1..(m + 1), i < j
      PROVE  /\ <<t[j], t[i]>> \notin over
             /\ <<t[i], t[j]>> \in over \/ t[i] < t[j]
  <2>1. CASE j <= p
    <3>1. i \in 1..p /\ j \in 1..p /\ i \in 1..m /\ j \in 1..m
      BY <1>8, <2>1
    <3>. QED
      BY <1>7, <1>8, <1>9, <3>1
  <2>2. CASE j = p + 1
    <3>1. i \in 1..p /\ i \in 1..m /\ t[i] = s[i] /\ t[j] = k
      BY <1>7, <1>8, <2>2
    <3>. QED
      BY <1>2, <1>5, <3>1
  <2>3. CASE j > p + 1 /\ i = p + 1
    <3>3. j \in (p + 2)..(m + 1) /\ j - 1 \in 1..m /\ ~(j - 1 <= p)
      BY <2>3
    <3>1. t[i] = k /\ t[j] = s[j - 1] /\ j - 1 \in 1..m /\ ~(j - 1 <= p)
      BY <1>7, <2>3, <3>3
    <3>2. <<k, s[j - 1]>> \in over
      BY <1>5, <3>1
    <3>. QED
      BY <1>2, <3>1, <3>2 DEF Sorts
  <2>4. CASE j > p + 1 /\ i <= p
    <3>1. i \in 1..p /\ j \in (p + 2)..(m + 1)
      BY <2>4
    <3>2. t[i] = s[i] /\ t[j] = s[j - 1]
      BY <1>7, <3>1
    <3>3. j - 1 \in 1..m /\ i \in 1..m /\ i < j - 1
      BY <3>1
    <3>. QED
      BY <1>9, <3>2, <3>3
  <2>5. CASE j > p + 1 /\ i > p + 1
    <3>3. i \in (p + 2)..(m + 1) /\ j \in (p + 2)..(m + 1)
      BY <2>5
    <3>1. t[i] = s[i - 1] /\ t[j] = s[j - 1]
      BY <1>7, <3>3
    <3>2. j - 1 \in 1..m /\ i - 1 \in 1..m /\ i - 1 < j - 1
      BY <1>8, <2>5
    <3>. QED
      BY <1>9, <3>1, <3>2
  <2>. QED
    BY <2>1, <2>2, <2>3, <2>4, <2>5
<1>10. Elements(t) = Elements(s) \cup {k}
  <2>1. ASSUME NEW i \in 1..(m + 1) PROVE t[i] \in {s[l] : l \in 1..m} \cup {k}
    <3>1. CASE i <= p
      <4>1. i \in 1..p /\ i \in 1..m
        BY <3>1
      <4>. QED
        BY <1>7, <4>1
    <3>2. CASE i = p + 1
      BY <1>7, <3>2
    <3>3. CASE i > p + 1
      <4>2. i \in (p + 2)..(m + 1) /\ i - 1 \in 1..m
        BY <3>3
      <4>1. i - 1 \in 1..m /\ t[i] = s[i - 1]
        BY <1>7, <4>2
      <4>. QED
        BY <4>1
    <3>. QED
      BY <3>1, <3>2, <3>3
  <2>2. ASSUME NEW i \in 1..m PROVE s[i] \in {t[l] : l \in 1..(m + 1)}
    <3>1. CASE i <= p
      <4>1. i \in 1..(m + 1) /\ t[i] = s[i]
        BY <1>7, <3>1
      <4>. QED
        BY <4>1
    <3>2. CASE i > p
      <4>1. i + 1 \in 1..(m + 1) /\ t[i + 1] = s[i]
        BY <1>7, <3>2
      <4>. QED
        BY <4>1
    <3>. QED
      BY <3>1, <3>2
  <2>3. k \in {t[l] : l \in 1..(m + 1)}
    <3>1. p + 1 \in 1..(m + 1)
      OBVIOUS
    <3>. QED
      BY <1>7, <3>1
  <2>4. {t[l] : l \in 1..(m + 1)} = {s[l] : l \in 1..m} \cup {k}
    BY <2>1, <2>2, <2>3
  <2>. QED
    BY <1>1, <1>7, <2>4 DEF Elements
<1>11. Stable(t, over)
  BY <1>7, <1>8 DEF Stable
<1>. QED
  BY <1>0, <1>1, <1>7, <1>10, <1>11

(* A sort puts every place where nothing after it is over it.              *)
LEMMA InOrderIs ==
  ASSUME NEW n \in Nat, NEW over, Sorts(n, over)
  PROVE  /\ Knowledge!InOrder(n, over) \in Seq(1..n) /\ Len(Knowledge!InOrder(n, over)) = n
         /\ Stable(Knowledge!InOrder(n, over), over)
         /\ Elements(Knowledge!InOrder(n, over)) = 1..n
<1>. DEFINE f == Knowledge!SortedUpTo(n, over)
            Well(k, s) == /\ s \in Seq(1..k) /\ Len(s) = k /\ Stable(s, over)
                          /\ Elements(s) = 1..k
            M == {k \in 0..n : Well(k, f[k])}
<1>1. f[0] = << >> /\ \A k \in 1..n : f[k] = Knowledge!Inserted(f[k - 1], k, over)
  BY SortedRecur
<1>. HIDE DEF f
<1>2. 0 \in M
  <2>1. Well(0, << >>)
    BY DEF Stable, Elements
  <2>. HIDE DEF Well
  <2>. QED
    BY <1>1, <2>1
<1>3. ASSUME NEW k \in 1..n, k - 1 \in M PROVE k \in M
  <2>1. PICK s, t : s = f[k - 1] /\ t = f[k]
    OBVIOUS
  <2>2. s \in Seq(1..(k - 1)) /\ Len(s) = k - 1 /\ Stable(s, over) /\ Elements(s) = 1..(k - 1)
    BY <1>3, <2>1
  <2>3. t = Knowledge!Inserted(s, k, over)
    BY <1>1, <2>1
  <2>4. /\ t \in Seq(1..k) /\ Len(t) = Len(s) + 1 /\ Stable(t, over)
        /\ Elements(t) = Elements(s) \cup {k}
    <3>. PICK u : u = Knowledge!Inserted(s, k, over)
      OBVIOUS
    <3>1. s \in Seq(1..(k - 1)) /\ Stable(s, over)
      BY <2>2
    <3>2. /\ u \in Seq(1..k) /\ Len(u) = Len(s) + 1 /\ Stable(u, over)
          /\ Elements(u) = Elements(s) \cup {k}
      BY <3>1, InsertedIs
    <3>. QED
      BY <2>3, <3>2
  <2>5. Elements(t) = 1..k
    BY <2>2, <2>4
  <2>6. Well(k, t)
    BY <2>2, <2>4, <2>5
  <2>. QED
    BY <2>1, <2>6
<1>4. n \in M
  <2>. HIDE DEF M
  <2>. QED
    BY <1>2, <1>3, Upwards
<1>. QED
  BY <1>4 DEF f, Knowledge!InOrder

(* Numbers sort.                                                           *)
LEMMA ByKey ==
  ASSUME NEW n \in Nat, NEW key \in [1..n -> Int]
  PROVE  LET over == {p \in (1..n) \X (1..n) : key[p[1]] > key[p[2]]}
         IN  /\ Sorts(n, over)
             /\ \A a, b \in 1..n : <<a, b>> \in over <=> key[a] > key[b]
<1>. DEFINE over == {p \in (1..n) \X (1..n) : key[p[1]] > key[p[2]]}
<1>1. \A a, b \in 1..n : <<a, b>> \in over <=> key[a] > key[b]
  OBVIOUS
<1>2. \A a \in 1..n : key[a] \in Int
  OBVIOUS
<1>. HIDE DEF over
<1>4. ASSUME NEW a \in 1..n, NEW b \in 1..n, <<a, b>> \in over PROVE <<b, a>> \notin over
  BY <1>1, <1>2, <1>4
<1>5. ASSUME NEW a \in 1..n, NEW b \in 1..n, NEW c \in 1..n, <<a, b>> \in over
      PROVE  <<a, c>> \in over \/ <<c, b>> \in over
  BY <1>1, <1>2, <1>5
<1>3. Sorts(n, over)
  BY <1>4, <1>5 DEF Sorts
<1>. QED
  BY <1>1, <1>3 DEF over

(* Two sequences without repetition of the same elements, both in the one  *)
(* order of a relation, are the same.                                      *)
LEMMA OneOrder ==
  ASSUME NEW A, NEW s \in Seq(A), NEW t \in Seq(A), Elements(s) = Elements(t), NEW before,
         \A a, b \in A : <<a, b>> \in before => <<b, a>> \notin before,
         \A i, j \in 1..Len(s) : i < j => <<s[i], s[j]>> \in before,
         \A i, j \in 1..Len(t) : i < j => <<t[i], t[j]>> \in before
  PROVE  s = t
<1>. DEFINE m == Len(s)
            n == Len(t)
            D == {k \in 1..m : k > n \/ s[k] # t[k]}
            E == {k \in 1..n : k > m \/ s[k] # t[k]}
<1>1. m \in Nat /\ n \in Nat /\ (\A i \in 1..m : s[i] \in A) /\ (\A i \in 1..n : t[i] \in A)
  OBVIOUS
<1>2. /\ \A i \in 1..m : \E j \in 1..n : t[j] = s[i]
      /\ \A i \in 1..n : \E j \in 1..m : s[j] = t[i]
  <2>1. ASSUME NEW u, NEW v, Elements(u) = Elements(v), NEW i \in 1..Len(u)
        PROVE  \E j \in 1..Len(v) : v[j] = u[i]
    <3>1. u[i] \in Elements(u)
      BY DEF Elements
    <3>2. u[i] \in Elements(v)
      BY <2>1, <3>1
    <3>. QED
      BY <3>2 DEF Elements
  <2>. QED
    BY <2>1
<1>3. /\ \A i, j \in 1..m : i < j => s[i] # s[j]
      /\ \A i, j \in 1..n : i < j => t[i] # t[j]
  BY <1>1
<1>4. ASSUME D # {} PROVE FALSE
  <2>1. PICK k \in D : \A j \in 1..(k - 1) : j \notin D
    <3>1. D \in SUBSET (1..m)
      OBVIOUS
    <3>. HIDE DEF D
    <3>. QED
      BY <1>1, <1>4, <3>1, FirstOfAll
  <2>2. \A j \in 1..(k - 1) : j <= n /\ s[j] = t[j]
    BY <1>1, <2>1
  <2>3. PICK j \in 1..n : t[j] = s[k]
    BY <1>2
  <2>4. j >= k
    BY <1>1, <1>3, <2>2, <2>3
  <2>5. k <= n /\ s[k] # t[k] /\ j > k
    BY <1>1, <2>3, <2>4
  <2>6. PICK i \in 1..m : s[i] = t[k]
    BY <1>1, <1>2, <2>5
  <2>7. i > k
    BY <1>1, <1>3, <2>2, <2>5, <2>6
  <2>8. <<t[k], t[j]>> \in before /\ <<s[k], s[i]>> \in before
    BY <1>1, <2>5, <2>7
  <2>. QED
    BY <1>1, <2>3, <2>5, <2>6, <2>8
<1>5. m <= n /\ \A k \in 1..m : s[k] = t[k]
  BY <1>1, <1>4
<1>6. ~(m < n)
  <2>. SUFFICES ASSUME m < n PROVE FALSE
    OBVIOUS
  <2>2. n \in 1..n
    BY <1>1
  <2>3. \A i \in 1..n : \E j \in 1..m : s[j] = t[i]
    BY <1>2
  <2>. HIDE DEF m, n
  <2>1. PICK j \in 1..m : s[j] = t[n]
    BY <2>2, <2>3
  <2>. QED
    BY <1>1, <1>3, <1>5, <2>1
<1>. QED
  BY <1>1, <1>5, <1>6, SeqEqual

-----------------------------------------------------------------------------
(* FACTS. The short cut that answers a question about the user from one    *)
(* fact: by the order of the facts' scores.                                *)

(* What a quotient is, and that more divided by less is more.              *)
LEMMA Quotient ==
  ASSUME NEW a \in Nat, NEW d \in Nat \ {0}
  PROVE  a \div d \in Nat /\ d * (a \div d) <= a /\ a < d * (a \div d) + d
<1>1. /\ a \div d \in Nat
      /\ a = d * (a \div d) + (a % d)
      /\ a % d \in 0..(d - 1)
  OBVIOUS
<1>. DEFINE q == a \div d
            r == a % d
<1>2. q \in Nat /\ a = d * q + r /\ r \in 0..(d - 1)
  BY <1>1
<1>. HIDE DEF q, r
<1>3. d * q \in Nat
  BY <1>2
<1>4. d * q <= a /\ a < d * q + d
  BY <1>2, <1>3
<1>. QED
  BY <1>2, <1>4 DEF q

(* A quotient is the largest of such numbers.                              *)
LEMMA QuotientLeast ==
  ASSUME NEW a \in Nat, NEW d \in Nat \ {0}, NEW q \in Nat, d * q <= a
  PROVE  q <= a \div d
<1>1. PICK p \in Nat : p = a \div d
  BY Quotient
<1>2. a < d * p + d
  BY <1>1, Quotient
<1>. SUFFICES ASSUME p + 1 <= q PROVE FALSE
  BY <1>1
<1>3. d * q >= d * (p + 1)
  OBVIOUS
<1>4. d * (p + 1) = d * p + d
  OBVIOUS
<1>5. d * q \in Nat /\ d * p \in Nat
  OBVIOUS
<1>. QED
  BY <1>2, <1>3, <1>4, <1>5

(* A quotient grows with what is divided and falls with the divisor.       *)
LEMMA QuotientGrows ==
  ASSUME NEW a \in Nat, NEW b \in Nat, a <= b, NEW c \in Nat \ {0}, NEW d \in Nat, c <= d
  PROVE  a \div d <= b \div c
<1>1. PICK q \in Nat : q = a \div d
  <2>1. d \in Nat \ {0}
    OBVIOUS
  <2>. QED
    BY <2>1, Quotient
<1>2. d * q <= a
  BY <1>1, Quotient
<1>3. c * q <= d * q
  OBVIOUS
<1>4. c * q <= b
  <2>1. c * q \in Nat /\ d * q \in Nat
    OBVIOUS
  <2>. QED
    BY <1>2, <1>3, <2>1
<1>. QED
  BY <1>1, <1>4, QuotientLeast

(* A share of a span is less for what is longer, and no more than a top    *)
(* that what does not reach an edge has.                                   *)
Brevity(l, span, edge, top) == IF l <= edge THEN top ELSE span \div l

(* The shorter text has the larger share.                                  *)
LEMMA ShorterIsMore ==
  ASSUME NEW span \in Nat, NEW edge \in Nat \ {0}, NEW top \in Nat, span \div edge <= top,
         NEW l \in Nat, NEW m \in Nat
  PROVE  /\ Brevity(m, span, edge, top) \in Nat
         /\ l <= m => Brevity(m, span, edge, top) <= Brevity(l, span, edge, top)
<1>1. \A k \in Nat : k > edge => k \in Nat \ {0} /\ span \div k \in Nat /\ span \div k <= span \div edge
  <2>. SUFFICES ASSUME NEW k \in Nat, k > edge
                PROVE  k \in Nat \ {0} /\ span \div k \in Nat /\ span \div k <= span \div edge
    OBVIOUS
  <2>1. k \in Nat \ {0} /\ edge <= k /\ span <= span
    OBVIOUS
  <2>2. span \div k \in Nat
    BY <2>1, Quotient
  <2>3. span \div k <= span \div edge
    BY <2>1, QuotientGrows
  <2>. QED
    BY <2>1, <2>2, <2>3
<1>2. span \div edge \in Nat
  BY Quotient
<1>3. l <= m /\ l > edge => span \div m <= span \div l
  <2>. SUFFICES ASSUME l <= m, l > edge PROVE span \div m <= span \div l
    OBVIOUS
  <2>1. l \in Nat \ {0} /\ span <= span
    OBVIOUS
  <2>. QED
    BY <2>1, QuotientGrows
<1>4. Brevity(m, span, edge, top) \in Nat
  BY <1>1 DEF Brevity
<1>5. CASE m <= edge \/ l > edge
  BY <1>3, <1>4, <1>5 DEF Brevity
<1>6. CASE m > edge /\ l <= edge
  <2>1. span \div m \in Nat /\ span \div m <= span \div edge
    BY <1>1, <1>6
  <2>2. span \div m <= top
    BY <1>2, <2>1
  <2>. QED
    BY <1>4, <1>6, <2>2 DEF Brevity
<1>. QED
  BY <1>5, <1>6

(* What has so many of the signals, and is so long, scores; with the       *)
(* numbers of the code named.                                              *)
Within(span, edge, top) == span \div edge <= top
Scored(f, signals, much, whole, span, edge, top) ==
  IF f.hits = 0 THEN 0
  ELSE Knowledge!Clamped((much * f.hits) \div signals + Brevity(f.length, span, edge, top), whole)

(* More signals in a shorter text score no less.                           *)
LEMMA ScoredBy ==
  ASSUME NEW f, NEW g, f.hits \in Nat, g.hits \in Nat, f.length \in Nat, g.length \in Nat,
         NEW signals \in Nat \ {0}, NEW much \in Nat, NEW whole \in Nat,
         NEW span \in Nat, NEW edge \in Nat \ {0}, NEW top \in Nat, Within(span, edge, top)
  PROVE  /\ Scored(f, signals, much, whole, span, edge, top) \in Nat
         /\ f.hits <= g.hits /\ g.length <= f.length =>
              Scored(f, signals, much, whole, span, edge, top)
                <= Scored(g, signals, much, whole, span, edge, top)
<1>. DEFINE said(h) == (much * h.hits) \div signals
<1>1. /\ said(f) \in Nat /\ said(g) \in Nat
      /\ f.hits <= g.hits => said(f) <= said(g)
  <2>1. PICK a, b \in Nat : a = much * f.hits /\ b = much * g.hits /\ (f.hits <= g.hits => a <= b)
    OBVIOUS
  <2>2. a \div signals \in Nat /\ b \div signals \in Nat
    BY Quotient
  <2>3. a <= b => a \div signals <= b \div signals
    <3>. SUFFICES ASSUME a <= b PROVE a \div signals <= b \div signals
      OBVIOUS
    <3>1. signals <= signals /\ signals \in Nat
      OBVIOUS
    <3>. QED
      BY <3>1, QuotientGrows
  <2>. QED
    BY <2>1, <2>2, <2>3
<1>. DEFINE short(h) == Brevity(h.length, span, edge, top)
<1>2. PICK bf, bg \in Nat : bf = short(f) /\ bg = short(g) /\ (g.length <= f.length => bf <= bg)
  <2>1. short(f) \in Nat /\ (g.length <= f.length => short(f) <= short(g))
    BY ShorterIsMore DEF Within
  <2>2. short(g) \in Nat
    BY ShorterIsMore DEF Within
  <2>. HIDE DEF short
  <2>. QED
    BY <2>1, <2>2
<1>3. PICK sf, sg \in Nat : sf = said(f) /\ sg = said(g) /\ (f.hits <= g.hits => sf <= sg)
  BY <1>1
<1>4. /\ Scored(f, signals, much, whole, span, edge, top)
           = IF f.hits = 0 THEN 0 ELSE Knowledge!Clamped(sf + bf, whole)
      /\ Scored(g, signals, much, whole, span, edge, top)
           = IF g.hits = 0 THEN 0 ELSE Knowledge!Clamped(sg + bg, whole)
  BY <1>2, <1>3 DEF Scored
<1>. HIDE DEF said
<1>. QED
  BY <1>2, <1>3, <1>4 DEF Knowledge!Clamped

(* A fact with as many signals that is as short scores as much.            *)
LEMMA ScoresBy ==
  ASSUME NEW f, NEW g, f.hits \in Nat, g.hits \in Nat, f.length \in Nat, g.length \in Nat,
         NEW signals \in Nat \ {0}
  PROVE  /\ Knowledge!ScoreFact(f, signals) \in Nat
         /\ f.hits = 0 => Knowledge!ScoreFact(f, signals) = 0
         /\ f.hits <= g.hits /\ g.length <= f.length =>
              Knowledge!ScoreFact(f, signals) <= Knowledge!ScoreFact(g, signals)
<1>1. Within(240000, 80, 3000)
  BY SMT DEF Within
<1>2. /\ Knowledge!ScoreFact(f, signals) = Scored(f, signals, 7000, 10000, 240000, 80, 3000)
      /\ Knowledge!ScoreFact(g, signals) = Scored(g, signals, 7000, 10000, 240000, 80, 3000)
  BY SMT DEF Knowledge!ScoreFact, Scored, Brevity
<1>. DEFINE Less(a, b) == a \in Nat /\ (f.hits <= g.hits /\ g.length <= f.length => a <= b)
            More(m, w, s, e, t) ==
              Less(Scored(f, signals, m, w, s, e, t), Scored(g, signals, m, w, s, e, t))
<1>3. More(7000, 10000, 240000, 80, 3000)
  <2>1. \A m, w, s, t \in Nat, e \in Nat \ {0} : Within(s, e, t) => More(m, w, s, e, t)
    <3>. TAKE m, w, s, t \in Nat, e \in Nat \ {0}
    <3>. HAVE Within(s, e, t)
    <3>. QED
      BY ScoredBy, Zenon
  <2>. HIDE DEF More
  <2>2. /\ 7000 \in Nat /\ 10000 \in Nat /\ 240000 \in Nat /\ 3000 \in Nat
        /\ 80 \in Nat \ {0}
    BY SMT
  <2>. QED
    BY SMT, <1>1, <2>1, <2>2
<1>4. f.hits = 0 => Knowledge!ScoreFact(f, signals) = 0
  BY SMT DEF Knowledge!ScoreFact
<1>. QED
  BY SMT, <1>2, <1>3, <1>4

(* An order of all places by a number.                                     *)
ByNumber(n, key, order) ==
  /\ order \in Seq(1..n) /\ Len(order) = n /\ Elements(order) = 1..n
  /\ \A k, m \in 1..n : k < m => /\ ~(key[order[m]] > key[order[k]])
                                /\ (key[order[k]] > key[order[m]] \/ order[k] < order[m])

(* The sort makes such an order.                                           *)
LEMMA InOrderByNumber ==
  ASSUME NEW n \in Nat, NEW key \in [1..n -> Int]
  PROVE  ByNumber(n, key, Knowledge!InOrder(n, {p \in (1..n) \X (1..n) : key[p[1]] > key[p[2]]}))
<1>. DEFINE over == {p \in (1..n) \X (1..n) : key[p[1]] > key[p[2]]}
            order == Knowledge!InOrder(n, over)
<1>1. /\ Sorts(n, over)
      /\ \A a, b \in 1..n : <<a, b>> \in over <=> key[a] > key[b]
  BY ByKey
<1>. HIDE DEF over
<1>2. /\ order \in Seq(1..n) /\ Len(order) = n
      /\ Stable(order, over) /\ Elements(order) = 1..n
  BY <1>1, InOrderIs
<1>. HIDE DEF order
<1>3. \A k \in 1..n : order[k] \in 1..n
  BY <1>2
<1>4. ASSUME NEW k \in 1..n, NEW m \in 1..n, k < m
      PROVE  /\ ~(key[order[m]] > key[order[k]])
             /\ (key[order[k]] > key[order[m]] \/ order[k] < order[m])
  <2>1. PICK a \in 1..n, b \in 1..n : a = order[k] /\ b = order[m]
    BY <1>3
  <2>2. <<b, a>> \notin over /\ (<<a, b>> \in over \/ a < b)
    BY <1>2, <1>4, <2>1 DEF Stable
  <2>. QED
    BY <1>1, <2>1, <2>2
<1>. QED
  BY <1>2, <1>4 DEF ByNumber, order, over

(* The first two of an order by a number.                                  *)
LEMMA TopTwo ==
  ASSUME NEW n \in Nat, n # 0, NEW key \in [1..n -> Int], NEW order, ByNumber(n, key, order)
  PROVE  /\ order[1] \in 1..n
         /\ \A i \in 1..n : key[i] <= key[order[1]]
         /\ n > 1 => /\ order[2] \in 1..n /\ order[2] # order[1]
                     /\ \A i \in (1..n) \ {order[1]} : key[i] <= key[order[2]]
<1>1. order \in Seq(1..n) /\ Len(order) = n
  BY DEF ByNumber
<1>2. \A k, m \in 1..n : k < m => /\ ~(key[order[m]] > key[order[k]])
                                 /\ (key[order[k]] > key[order[m]] \/ order[k] < order[m])
  BY DEF ByNumber
<1>3. \A k \in 1..n : order[k] \in 1..n
  BY <1>1
<1>10. \A i \in 1..n : \E k \in 1..n : order[k] = i
  <2>1. Elements(order) = 1..n
    BY DEF ByNumber
  <2>. QED
    BY <1>1, <2>1 DEF Elements
<1>4. \A i \in 1..n : key[i] \in Int
  OBVIOUS
<1>5. 1 \in 1..n /\ (n > 1 => 2 \in 1..n)
  OBVIOUS
<1>6. \A k, m \in 1..n : k < m => /\ key[order[m]] <= key[order[k]]
                                  /\ order[m] # order[k]
  <2>. SUFFICES ASSUME NEW k \in 1..n, NEW m \in 1..n, k < m
                PROVE  key[order[m]] <= key[order[k]] /\ order[m] # order[k]
    OBVIOUS
  <2>1. PICK a \in 1..n, b \in 1..n : a = order[k] /\ b = order[m]
    BY <1>3
  <2>4. ~(key[order[m]] > key[order[k]]) /\ (key[order[k]] > key[order[m]] \/ order[k] < order[m])
    BY <1>2
  <2>2. ~(key[b] > key[a]) /\ (key[a] > key[b] \/ a < b)
    BY <2>1, <2>4
  <2>3. key[b] <= key[a] /\ a # b
    BY <1>4, <2>2
  <2>. QED
    BY <2>1, <2>3
<1>8. \A k \in 1..n : key[order[k]] \in Int
  BY <1>3, <1>4
<1>9. ASSUME NEW i \in 1..n PROVE key[i] <= key[order[1]]
  <2>1. PICK k \in 1..n : order[k] = i
    BY <1>10
  <2>2. CASE k = 1
    BY <1>8, <2>1, <2>2
  <2>3. CASE 1 < k
    BY <1>5, <1>6, <2>1, <2>3
  <2>. QED
    BY <2>2, <2>3
<1>11. ASSUME n > 1, NEW i \in (1..n) \ {order[1]} PROVE key[i] <= key[order[2]]
  <2>1. PICK k \in 1..n : order[k] = i
    BY <1>10
  <2>2. CASE k = 2
    BY <1>8, <2>1, <2>2
  <2>3. CASE 2 < k
    BY <1>5, <1>6, <1>11, <2>1, <2>3
  <2>4. k # 1
    BY <2>1
  <2>. QED
    BY <2>2, <2>3, <2>4
<1>. QED
  BY <1>3, <1>5, <1>6, <1>9, <1>11

(* The answer an order of the facts gives.                                 *)
AnswerBy(facts, signals, order) ==
  IF \/ facts = << >>
     \/ Knowledge!ScoreFact(facts[order[1]], signals) = 0
     \/ Knowledge!ScoreFact(facts[order[1]], signals)
          - (IF Len(facts) > 1 THEN Knowledge!ScoreFact(facts[order[2]], signals) ELSE 0) < 1500
  THEN 0 ELSE order[1]
BetterFacts(facts, signals) ==
  {p \in (1..Len(facts)) \X (1..Len(facts)) :
     Knowledge!ScoreFact(facts[p[1]], signals) > Knowledge!ScoreFact(facts[p[2]], signals)}

(* The short cut answers by the order of the scores.                       *)
LEMMA TryAnswerIs ==
  ASSUME NEW facts, NEW signals
  PROVE  Knowledge!TryAnswer(facts, signals)
           = AnswerBy(facts, signals, Knowledge!InOrder(Len(facts), BetterFacts(facts, signals)))
  BY DEF Knowledge!TryAnswer, Knowledge!Pairs, AnswerBy, BetterFacts

(* The scores of facts.                                                    *)
Scores(facts, signals) == [i \in 1..Len(facts) |-> Knowledge!ScoreFact(facts[i], signals)]
Fact == [hits : Nat, length : Nat]

(* It orders the facts by their scores.                                    *)
LEMMA FactsInOrder ==
  ASSUME NEW facts \in Seq(Fact), NEW n \in Nat, n = Len(facts), NEW signals \in Nat \ {0}
  PROVE  /\ Scores(facts, signals) \in [1..n -> Nat]
         /\ ByNumber(n, Scores(facts, signals),
                     Knowledge!InOrder(n, BetterFacts(facts, signals)))
<1>. DEFINE key == Scores(facts, signals)
            over == {p \in (1..n) \X (1..n) : key[p[1]] > key[p[2]]}
<1>1. \A i \in 1..n : key[i] = Knowledge!ScoreFact(facts[i], signals)
  BY DEF Scores
<1>2. ASSUME NEW i \in 1..n PROVE key[i] \in Nat
  <2>1. facts[i] \in Fact
    OBVIOUS
  <2>2. facts[i].hits \in Nat /\ facts[i].length \in Nat
    BY <2>1 DEF Fact
  <2>3. Knowledge!ScoreFact(facts[i], signals) \in Nat
    BY <2>2, ScoresBy
  <2>. QED
    BY <1>1, <2>3
<1>3. key = [i \in 1..n |-> key[i]]
  BY DEF Scores
<1>4. BetterFacts(facts, signals) = over
  <2>. HIDE DEF key
  <2>. QED
    BY <1>1 DEF BetterFacts
<1>. HIDE DEF key
<1>5. key \in [1..n -> Nat]
  BY <1>2, <1>3
<1>6. key \in [1..n -> Int]
  BY <1>5
<1>7. ByNumber(n, key, Knowledge!InOrder(n, over))
  BY <1>6, InOrderByNumber
<1>. QED
  BY <1>4, <1>5, <1>7 DEF key

(* A fact that answers stands out, and no other does beside its equal.     *)
AnswersWell(n, key, answer) ==
  /\ answer # 0 =>
       /\ answer \in 1..n /\ key[answer] # 0
       /\ \A i \in (1..n) \ {answer} : key[i] < key[answer]
  /\ \A i, j \in 1..n : i # j /\ (\A k \in 1..n : key[k] <= key[i] /\ key[k] <= key[j])
       => answer = 0

(* The short cut answers with such a fact, or leaves it to the model.      *)
LEMMA StandsOut ==
  ASSUME NEW facts \in Seq(Fact), NEW signals \in Nat \ {0}
  PROVE  AnswersWell(Len(facts), Scores(facts, signals), Knowledge!TryAnswer(facts, signals))
<1>. PICK n \in Nat : n = Len(facts)
  OBVIOUS
<1>. PICK key \in [1..n -> Nat] : key = Scores(facts, signals)
  BY FactsInOrder
<1>. PICK answer : answer = Knowledge!TryAnswer(facts, signals)
  OBVIOUS
<1>. SUFFICES AnswersWell(n, key, answer)
  OBVIOUS
<1>. DEFINE o == Knowledge!InOrder(n, BetterFacts(facts, signals))
<1>1. PICK order : order = o
  OBVIOUS
<1>2. ByNumber(n, key, order) /\ key \in [1..n -> Int]
  BY <1>1, FactsInOrder
<1>3. answer = AnswerBy(facts, signals, order)
  BY <1>1, TryAnswerIs
<1>11. ASSUME n # 0
       PROVE  /\ order[1] \in 1..n /\ \A i \in 1..n : key[i] <= key[order[1]]
              /\ n > 1 => /\ order[2] \in 1..n /\ order[2] # order[1]
                          /\ \A i \in (1..n) \ {order[1]} : key[i] <= key[order[2]]
  BY <1>2, <1>11, TopTwo, Zenon
<1>4. n # 0 => order[1] \in 1..n /\ \A i \in 1..n : key[i] <= key[order[1]]
  BY <1>11
<1>5. n > 1 => /\ order[2] \in 1..n /\ order[2] # order[1]
               /\ \A i \in (1..n) \ {order[1]} : key[i] <= key[order[2]]
  <2>1. n > 1 => n # 0
    OBVIOUS
  <2>. QED
    BY <1>11, <2>1, Zenon
<1>6. facts = << >> <=> n = 0
  OBVIOUS
<1>7. \A i \in 1..n : key[i] = Knowledge!ScoreFact(facts[i], signals)
  BY DEF Scores
<1>. HIDE DEF o
<1>8. CASE n = 0
  BY <1>3, <1>6, <1>8 DEF AnswerBy, AnswersWell
<1>9. CASE n = 1
  <2>1. order[1] = 1
    BY <1>4, <1>9
  <2>2. key[1] = Knowledge!ScoreFact(facts[1], signals)
    BY <1>7, <1>9
  <2>3. answer # 0 => answer = 1 /\ key[1] # 0
    BY <1>3, <2>1, <2>2 DEF AnswerBy
  <2>. QED
    BY <1>9, <2>3 DEF AnswersWell
<1>10. CASE n > 1
  <2>1. PICK a \in 1..n, b \in 1..n : a = order[1] /\ b = order[2]
    BY <1>4, <1>5, <1>10
  <2>2. /\ a # b /\ \A i \in (1..n) \ {a} : key[i] <= key[b]
        /\ \A i \in 1..n : key[i] <= key[a]
    BY <1>4, <1>5, <1>10, <2>1
  <2>3. PICK s, t \in Nat : s = key[a] /\ t = key[b]
    OBVIOUS
  <2>4. s = Knowledge!ScoreFact(facts[order[1]], signals)
        /\ t = Knowledge!ScoreFact(facts[order[2]], signals)
    BY <1>7, <2>1, <2>3
  <2>5. answer = IF s = 0 \/ s - t < 1500 THEN 0 ELSE a
    BY SMT, <1>3, <1>6, <1>10, <2>1, <2>4 DEF AnswerBy
  <2>6. answer # 0 => answer = a /\ s # 0 /\ t < s
    BY SMT, <2>3, <2>5
  <2>7. s = t => answer = 0
    BY SMT, <2>3, <2>5
  <2>8. ASSUME NEW i \in 1..n, NEW j \in 1..n, i # j,
               \A k \in 1..n : key[k] <= key[i] /\ key[k] <= key[j]
        PROVE  answer = 0
    <3>1. PICK u, v \in Nat : u = key[i] /\ v = key[j]
      OBVIOUS
    <3>2. u = v /\ u = s
      BY <2>2, <2>3, <2>8, <3>1
    <3>3. i # a \/ j # a
      BY <2>8
    <3>4. u <= t
      BY <2>2, <2>3, <3>1, <3>2, <3>3
    <3>5. t <= s
      BY <2>2, <2>3
    <3>. QED
      BY <2>3, <2>7, <3>1, <3>2, <3>4, <3>5
  <2>9. ASSUME answer # 0
        PROVE  /\ answer \in 1..n /\ key[answer] # 0
               /\ \A i \in (1..n) \ {answer} : key[i] < key[answer]
    <3>1. answer = a /\ s # 0 /\ t < s
      BY <2>6, <2>9
    <3>2. ASSUME NEW i \in (1..n) \ {a} PROVE key[i] < key[a]
      <4>1. PICK u \in Nat : u = key[i]
        OBVIOUS
      <4>2. u <= t
        BY <2>2, <2>3, <4>1
      <4>. QED
        BY <2>3, <3>1, <4>1, <4>2
    <3>. QED
      BY <2>3, <3>1, <3>2
  <2>. QED
    BY <2>8, <2>9 DEF AnswersWell
<1>. QED
  BY <1>8, <1>9, <1>10

(* An instant answer is not a guess, among any number of facts: it has a   *)
(* signal of the question, no other fact has as many and is as short, and  *)
(* said twice the answer is left to the model (instant_recall.py,          *)
(* try_answer).                                                            *)
THEOREM FactsAnswerClearly ==
  ASSUME NEW facts \in Seq(Fact), NEW signals \in Nat \ {0}
  PROVE  Knowledge!AnswersClearly(facts, signals)
<1>. DEFINE answer == Knowledge!TryAnswer(facts, signals)
<1>1. PICK n \in Nat : n = Len(facts)
  OBVIOUS
<1>2. DOMAIN facts = 1..n /\ \A i \in 1..n : facts[i] \in Fact
  BY <1>1
<1>3. PICK key \in [1..n -> Nat] : key = Scores(facts, signals)
  BY <1>1, FactsInOrder
<1>4. answer # 0 => /\ answer \in 1..n /\ key[answer] # 0
                    /\ \A i \in (1..n) \ {answer} : key[i] < key[answer]
  <2>1. AnswersWell(n, key, answer)
    BY <1>1, <1>3, StandsOut
  <2>. HIDE DEF answer
  <2>. QED
    BY <2>1 DEF AnswersWell
<1>. SUFFICES ASSUME answer # 0
              PROVE  /\ facts[answer].hits > 0
                     /\ \A i \in (1..n) \ {answer} :
                          \/ facts[i].hits < facts[answer].hits
                          \/ facts[i].length > facts[answer].length
                     /\ Knowledge!TryAnswer(Append(facts, facts[answer]), signals) = 0
  BY <1>2 DEF Knowledge!AnswersClearly
<1>. HIDE DEF answer
<1>5. PICK a \in 1..n : a = answer
  BY <1>4
<1>6. key[a] # 0 /\ \A i \in (1..n) \ {a} : key[i] < key[a]
  BY <1>4, <1>5
<1>7. \A i \in 1..n : facts[i].hits \in Nat /\ facts[i].length \in Nat
  BY <1>2 DEF Fact
<1>8. \A i \in 1..n : key[i] = Knowledge!ScoreFact(facts[i], signals)
  BY <1>1, <1>3 DEF Scores
<1>9. facts[a].hits > 0
  <2>1. facts[a].hits = 0 => Knowledge!ScoreFact(facts[a], signals) = 0
    BY <1>7, ScoresBy
  <2>. QED
    BY <1>6, <1>7, <1>8, <2>1
<1>10. ASSUME NEW i \in (1..n) \ {a}
       PROVE  facts[i].hits < facts[a].hits \/ facts[i].length > facts[a].length
  <2>1. PICK hi, ha, li, la \in Nat : /\ hi = facts[i].hits /\ ha = facts[a].hits
                                     /\ li = facts[i].length /\ la = facts[a].length
    BY <1>7
  <2>4. facts[a].hits <= facts[i].hits /\ facts[i].length <= facts[a].length =>
          Knowledge!ScoreFact(facts[a], signals) <= Knowledge!ScoreFact(facts[i], signals)
    BY <1>7, ScoresBy
  <2>2. ha <= hi /\ li <= la => key[a] <= key[i]
    BY <1>8, <2>1, <2>4
  <2>3. PICK s, t \in Nat : s = key[i] /\ t = key[a]
    OBVIOUS
  <2>5. s < t
    BY <1>6, <2>3
  <2>6. ~(ha <= hi /\ li <= la)
    BY <2>2, <2>3, <2>5
  <2>7. hi < ha \/ li > la
    BY <2>6
  <2>. QED
    BY <2>1, <2>7
<1>11. Knowledge!TryAnswer(Append(facts, facts[a]), signals) = 0
  <2>1. PICK more \in Seq(Fact) : /\ more = Append(facts, facts[a]) /\ Len(more) = n + 1
                                 /\ more[n + 1] = facts[a]
                                 /\ \A i \in 1..n : more[i] = facts[i]
    <3>1. facts[a] \in Fact
      BY <1>2
    <3>2. PICK x \in Fact : x = facts[a]
      BY <3>1
    <3>3. PICK more : more = Append(facts, x)
      OBVIOUS
    <3>4. more \in Seq(Fact) /\ Len(more) = n + 1 /\ more[n + 1] = x
          /\ \A i \in 1..n : more[i] = facts[i]
      BY <1>1, <3>3, AppendedIs
    <3>. QED
      BY <3>2, <3>3, <3>4
  <2>2. PICK m \in Nat : m = n + 1 /\ m = Len(more)
    BY <2>1
  <2>3. PICK wide \in [1..m -> Nat] : wide = Scores(more, signals)
    BY <2>2, FactsInOrder
  <2>4. \A i \in 1..m : wide[i] = Knowledge!ScoreFact(more[i], signals)
    BY <2>2, <2>3 DEF Scores
  <2>5. /\ \A i \in 1..n : wide[i] = key[i]
        /\ wide[m] = key[a]
    BY <1>8, <2>1, <2>2, <2>4
  <2>6. \A k \in 1..m : wide[k] <= wide[a] /\ wide[k] <= wide[m]
    <3>. SUFFICES ASSUME NEW k \in 1..m PROVE wide[k] <= wide[a] /\ wide[k] <= wide[m]
      OBVIOUS
    <3>1. wide[a] = key[a] /\ wide[m] = key[a] /\ key[a] \in Nat
      BY <2>5
    <3>2. k = m \/ k = a \/ k \in (1..n) \ {a}
      BY <2>2
    <3>3. k \in (1..n) \ {a} => wide[k] \in Nat /\ wide[k] < key[a]
      BY <1>6, <2>5
    <3>. QED
      BY <3>1, <3>2, <3>3
  <2>7. a \in 1..m /\ m \in 1..m /\ a # m
    BY <2>2
  <2>8. Knowledge!TryAnswer(more, signals) = 0
    <3>1. AnswersWell(m, wide, Knowledge!TryAnswer(more, signals))
      BY <2>2, <2>3, StandsOut
    <3>. QED
      BY <2>6, <2>7, <3>1 DEF AnswersWell
  <2>. QED
    BY <2>1, <2>8
<1>. QED
  BY <1>5, <1>9, <1>10, <1>11

-----------------------------------------------------------------------------
(* PROVIDERS. What a completion, its tool calls, the tokens of its reply   *)
(* and the lines of a stream come to.                                      *)

(* Every failure of a provider ends as an error of the application's, with *)
(* the code that fits it, but for bodies that nothing checks; a reply with *)
(* words comes of an answer alone, or of the fake provider, and a body     *)
(* that says nothing passes for a reply without words (generate of the     *)
(* gateways in services/llm).                                              *)
THEOREM ProvidersFailInTheirTerms ==
  ASSUME NEW llm \in Providers!LLM, NEW keyed \in BOOLEAN, NEW exchange \in Providers!Exchanges,
         NEW tokens
  PROVE  Providers!FailsInItsTerms(llm, keyed, exchange, tokens)
<1>. USE DEF Providers!FailsInItsTerms, Providers!Generate, Providers!Reply, Providers!AppError,
             Providers!Raised, Providers!Shaped
<1>1. CASE llm = "fake"
  BY <1>1
<1>2. CASE llm = "openai"
  BY <1>2 DEF Providers!Exchanges, Providers!OpenAIError
<1>3. CASE llm = "claude"
  BY <1>3 DEF Providers!Exchanges, Providers!ClaudeError
<1>4. CASE llm = "ollama"
  BY <1>4 DEF Providers!Exchanges, Providers!OllamaError
<1>. QED
  BY <1>1, <1>2, <1>3, <1>4 DEF Providers!LLM

(* Made-up ids differ from each other and from none.                       *)
LEMMA SynthesizedIs ==
  /\ \A i : Providers!Synthesized(i) # Providers!NoId
  /\ \A i, j : Providers!Synthesized(i) = Providers!Synthesized(j) => i = j
<1>1. "call" # "none"
  OBVIOUS
<1>. QED
  BY <1>1, Zenon DEF Providers!Synthesized, Providers!NoId

(* What is taken of a sequence at chosen places.                           *)
LEMMA ChosenToo == \A n, S : Providers!Chosen(n, S) = Knowledge!Chosen(n, S)
  BY DEF Providers!Chosen, Knowledge!Chosen, Providers!ChosenUpTo, Knowledge!ChosenUpTo

(* What is chosen is chosen in order, and all of it.                       *)
LEMMA ChosenPlaces ==
  ASSUME NEW n \in Nat, NEW S
  PROVE  \E m \in Nat : /\ m = Len(Knowledge!Chosen(n, S)) /\ DOMAIN Knowledge!Chosen(n, S) = 1..m
                        /\ \A k \in 1..m : /\ Knowledge!Chosen(n, S)[k] \in 1..n
                                           /\ Knowledge!Chosen(n, S)[k] \in S
                        /\ \A j, k \in 1..m : j < k =>
                             Knowledge!Chosen(n, S)[j] < Knowledge!Chosen(n, S)[k]
                        /\ \A i \in S \cap (1..n) : \E k \in 1..m : Knowledge!Chosen(n, S)[k] = i
<1>. PICK c : c = Knowledge!Chosen(n, S)
  OBVIOUS
<1>1. c \in Seq(1..n) /\ Increasing(c) /\ Elements(c) = S \cap (1..n)
  BY ChosenIs
<1>2. PICK m \in Nat : m = Len(c)
  BY <1>1
<1>3. DOMAIN c = 1..m /\ \A k \in 1..m : c[k] \in 1..n
  BY <1>1, <1>2
<1>4. \A k \in 1..m : c[k] \in Elements(c)
  BY <1>2 DEF Elements
<1>5. \A i \in Elements(c) : \E k \in 1..m : c[k] = i
  BY <1>2 DEF Elements
<1>6. \A j, k \in 1..m : j < k => c[j] < c[k]
  BY <1>1, <1>2 DEF Increasing
<1>7. \A k \in 1..m : c[k] \in S
  BY <1>1, <1>4
<1>8. \A i \in S \cap (1..n) : \E k \in 1..m : c[k] = i
  BY <1>1, <1>5
<1>. QED
  BY <1>2, <1>3, <1>6, <1>7, <1>8

(* The calls of a completion.                                              *)
CallsAt(entries, W) ==
  [k \in DOMAIN W |->
    [ id |-> IF entries[W[k]].id = Providers!NoId
             THEN Providers!Synthesized(W[k] - 1) ELSE entries[W[k]].id,
      name |-> entries[W[k]].name,
      given |-> entries[W[k]].arguments \in {"object", "text of one"} ]]
NamedCalls(entries) == {i \in DOMAIN entries : entries[i].name # ""}

(* Its calls are those of the entries with a name.                         *)
LEMMA CallsParsed ==
  ASSUME NEW entries
  PROVE  Providers!ParseToolCalls(entries)
           = CallsAt(entries, Knowledge!Chosen(Len(entries), NamedCalls(entries)))
<1>1. Providers!Chosen(Len(entries), NamedCalls(entries))
        = Knowledge!Chosen(Len(entries), NamedCalls(entries))
  BY ChosenToo
<1>. QED
  BY <1>1 DEF Providers!ParseToolCalls, CallsAt, NamedCalls

(* How long a function of the first so many numbers is.                    *)
LEMMA LengthIs ==
  ASSUME NEW n \in Nat, NEW f, f = [i \in 1..n |-> f[i]]
  PROVE  DOMAIN f = 1..n /\ Len(f) = n /\ f \in Seq({f[i] : i \in 1..n})
<1>. DEFINE R == {f[i] : i \in 1..n}
<1>1. f \in [1..n -> R]
  OBVIOUS
<1>. HIDE DEF R
<1>2. f \in Seq(R)
  BY <1>1
<1>3. DOMAIN f = 1..n /\ Len(f) \in Nat /\ DOMAIN f = 1..Len(f)
  BY <1>1, <1>2
<1>. QED
  BY <1>2, <1>3 DEF R

(* The calls of a completion, before they are parsed.                      *)
Calls(Names, Ids) ==
  [name : Names, id : Ids, arguments : {"object", "text of one", "neither"}]

(* Every call of a completion that has a name becomes a call, in order,    *)
(* with its own id or one made up, whatever stands around it; and if the   *)
(* model told its calls apart, and made up no id that the code makes up,   *)
(* so do the calls (ollama_gateway.py, _parse_tool_calls).                 *)
THEOREM ToolCallsArePaired ==
  ASSUME NEW Names, NEW Ids, NEW entries \in Seq(Calls(Names, Ids))
  PROVE  Providers!CallsArePaired(entries)
<1>1. PICK n \in Nat : n = Len(entries) /\ DOMAIN entries = 1..n
  OBVIOUS
<1>2. \A i \in 1..n : entries[i] \in Calls(Names, Ids)
  BY <1>1
<1>3. \A i \in 1..n : entries[i].arguments \in {"object", "text of one", "neither"}
  BY <1>2 DEF Calls
<1>. DEFINE S == {i \in 1..n : entries[i].name # ""}
            synth(i) == Providers!Synthesized(i - 1)
            noId == Providers!NoId
<1>21. PICK W : W = Knowledge!Chosen(n, S)
  OBVIOUS
<1>4. PICK m \in Nat : /\ m = Len(W) /\ DOMAIN W = 1..m
                       /\ \A k \in 1..m : W[k] \in 1..n
                       /\ \A j, k \in 1..m : j < k => W[j] < W[k]
  <2>. HIDE DEF S
  <2>. QED
    BY <1>21, ChosenPlaces
<1>5. PICK calls : calls = Providers!ParseToolCalls(entries)
  OBVIOUS
<1>6. calls = [k \in 1..m |->
                 [ id |-> IF entries[W[k]].id = noId THEN synth(W[k]) ELSE entries[W[k]].id,
                   name |-> entries[W[k]].name,
                   given |-> entries[W[k]].arguments \in {"object", "text of one"} ]]
  <2>1. S = NamedCalls(entries)
    BY <1>1 DEF NamedCalls
  <2>2. calls = CallsAt(entries, W)
    BY <1>1, <1>5, <1>21, <2>1, CallsParsed
  <2>. QED
    BY <1>4, <2>2 DEF CallsAt
<1>7. PICK named : named = Providers!Kept(entries, LAMBDA e : e.name # "")
  OBVIOUS
<1>8. named = [k \in 1..m |-> entries[W[k]]]
  <2>1. Providers!Chosen(Len(entries), {i \in DOMAIN entries : entries[i].name # ""}) = W
    BY <1>1, <1>21, ChosenToo
  <2>2. named = [k \in DOMAIN W |-> entries[W[k]]]
    BY <1>7, <2>1 DEF Providers!Kept, Providers!Taken
  <2>. QED
    BY <1>4, <2>2
<1>9. /\ Len(calls) = m /\ Len(named) = m /\ DOMAIN calls = 1..m /\ DOMAIN named = 1..m
  <2>1. calls = [k \in 1..m |-> calls[k]] /\ named = [k \in 1..m |-> named[k]]
    BY <1>6, <1>8
  <2>. QED
    BY <2>1, LengthIs
<1>10. ASSUME NEW k \in 1..m
       PROVE  /\ calls[k].name = named[k].name /\ calls[k].id # noId
              /\ named[k].id # noId => calls[k].id = named[k].id
              /\ calls[k].given <=> named[k].arguments # "neither"
  <2>1. W[k] \in 1..n
    BY <1>4
  <2>2. /\ named[k] = entries[W[k]]
        /\ calls[k].name = entries[W[k]].name
        /\ calls[k].id = IF entries[W[k]].id = noId THEN synth(W[k]) ELSE entries[W[k]].id
        /\ calls[k].given = (entries[W[k]].arguments \in {"object", "text of one"})
    BY <1>6, <1>8
  <2>3. synth(W[k]) # noId
    BY SynthesizedIs
  <2>4. entries[W[k]].arguments \in {"object", "text of one", "neither"}
    BY <1>3, <2>1
  <2>. QED
    BY <2>2, <2>3, <2>4
<1>. DEFINE own == Providers!Kept(named, LAMBDA e : e.id # Providers!NoId)
            O == {k \in 1..m : named[k].id # noId}
<1>22. PICK P : P = Knowledge!Chosen(m, O)
  OBVIOUS
<1>11. PICK l \in Nat : /\ l = Len(P) /\ DOMAIN P = 1..l
                        /\ \A k \in 1..l : P[k] \in 1..m
                        /\ \A k \in O \cap (1..m) : \E j \in 1..l : P[j] = k
  <2>. HIDE DEF O
  <2>. QED
    <3>1. PICK l \in Nat :
            /\ l = Len(Knowledge!Chosen(m, O)) /\ DOMAIN Knowledge!Chosen(m, O) = 1..l
            /\ \A k \in 1..l : Knowledge!Chosen(m, O)[k] \in 1..m
            /\ \A k \in O \cap (1..m) : \E j \in 1..l : Knowledge!Chosen(m, O)[j] = k
      BY ChosenPlaces
    <3>. QED
      BY <1>22, <3>1
<1>12. own = [k \in 1..l |-> named[P[k]]]
  <2>1. Providers!Chosen(Len(named), {i \in DOMAIN named : named[i].id # Providers!NoId}) = P
    BY <1>9, <1>22, ChosenToo
  <2>2. own = [k \in DOMAIN P |-> named[P[k]]]
    BY <2>1 DEF Providers!Kept, Providers!Taken
  <2>. QED
    BY <1>11, <2>2
<1>13. \A i, j \in 1..m : i # j => W[i] # W[j]
  <2>. SUFFICES ASSUME NEW i \in 1..m, NEW j \in 1..m, i < j PROVE W[i] # W[j]
    OBVIOUS
  <2>1. W[i] < W[j] /\ W[i] \in 1..n /\ W[j] \in 1..n
    BY <1>4
  <2>. QED
    BY <2>1
<1>14. ASSUME \A i, j \in 1..l : own[i].id = own[j].id => i = j,
              \A i \in 1..n : synth(i) \notin {entries[j].id : j \in 1..n},
              NEW i \in 1..m, NEW j \in 1..m, calls[i].id = calls[j].id
       PROVE  i = j
  <2>1. PICK u \in 1..n, v \in 1..n : u = W[i] /\ v = W[j]
    BY <1>4
  <2>2. /\ named[i] = entries[u] /\ named[j] = entries[v]
        /\ calls[i].id = IF named[i].id = noId THEN synth(u) ELSE named[i].id
        /\ calls[j].id = IF named[j].id = noId THEN synth(v) ELSE named[j].id
    BY <1>6, <1>8, <2>1
  <2>3. CASE named[i].id = noId /\ named[j].id = noId
    <3>1. u - 1 = v - 1
      BY <1>14, <2>2, <2>3, SynthesizedIs
    <3>2. u = v
      BY <3>1
    <3>. QED
      BY <1>13, <2>1, <3>2
  <2>4. CASE named[i].id # noId /\ named[j].id # noId
    <3>1. i \in O \cap (1..m) /\ j \in O \cap (1..m)
      BY <2>4
    <3>2. PICK a \in 1..l, b \in 1..l : P[a] = i /\ P[b] = j
      BY <1>11, <3>1
    <3>3. own[a].id = named[i].id /\ own[b].id = named[j].id
      BY <1>12, <3>2
    <3>4. a = b
      BY <1>14, <2>2, <2>4, <3>3
    <3>. QED
      BY <3>2, <3>4
  <2>5. CASE named[i].id = noId /\ named[j].id # noId
    <3>1. synth(u) = entries[v].id
      BY <1>14, <2>2, <2>5
    <3>. QED
      BY <1>14, <3>1, Zenon
  <2>6. CASE named[i].id # noId /\ named[j].id = noId
    <3>1. synth(v) = entries[u].id
      BY <1>14, <2>2, <2>6
    <3>. QED
      BY <1>14, <3>1, Zenon
  <2>. QED
    BY <2>3, <2>4, <2>5, <2>6
<1>. DEFINE ids == {entries[i].id : i \in DOMAIN entries}
            Tells(f) == Providers!IsInjective([k \in DOMAIN f |-> f[k].id])
<1>15. Tells(own) <=> \A i, j \in 1..l : own[i].id = own[j].id => i = j
  BY <1>12 DEF Providers!IsInjective
<1>16. Tells(calls) <=> \A i, j \in 1..m : calls[i].id = calls[j].id => i = j
  BY <1>9 DEF Providers!IsInjective
<1>17. Tells(own) /\ (\A i \in DOMAIN entries : synth(i) \notin ids) => Tells(calls)
  <2>. HIDE DEF own, Tells, synth
  <2>. QED
    BY <1>1, <1>14, <1>15, <1>16
<1>18. /\ Len(calls) = Len(named)
       /\ \A k \in DOMAIN calls :
            /\ calls[k].name = named[k].name /\ calls[k].id # Providers!NoId
            /\ named[k].id # Providers!NoId => calls[k].id = named[k].id
            /\ calls[k].given <=> named[k].arguments # "neither"
  BY <1>9, <1>10
<1>. QED
  BY <1>5, <1>7, <1>17, <1>18, Zenon DEF Providers!CallsArePaired

(* Tokens are read one after the other.                                    *)
LEMMA ReadRecur ==
  ASSUME NEW tokens, NEW n, n = Len(tokens), n \in Nat
  PROVE  /\ Providers!ReadUpTo(tokens)[0] = [said |-> << >>, held |-> << >>]
         /\ \A k \in 1..n :
              Providers!ReadUpTo(tokens)[k]
                = Providers!ReadOn(Providers!ReadUpTo(tokens)[k - 1], tokens[k])
<1>. DEFINE n0 == n
            f == Providers!ReadUpTo(tokens)
            OneStep(g, k) == Providers!ReadOn(g[k - 1], tokens[k])
            Body(g, k) == IF k = 0 THEN [said |-> << >>, held |-> << >>] ELSE OneStep(g, k)
            Is(g, m) == g = [k \in 0..m |-> Body(g, k)]
            M == {m \in 0..n0 : \E g : Is(g, m)}
<1>1. f = CHOOSE g : Is(g, n0)
  BY DEF Providers!ReadUpTo
<1>2. ASSUME NEW g, NEW h, NEW k, h[k - 1] = g[k - 1] PROVE OneStep(h, k) = OneStep(g, k)
  BY <1>2
<1>. HIDE DEF OneStep
<1>3. 0 \in M
  <2>1. Is([k \in 0..0 |-> [said |-> << >>, held |-> << >>]], 0)
    OBVIOUS
  <2>2. \E g : Is(g, 0)
    <3>. HIDE DEF Is
    <3>. QED
      BY <2>1
  <2>. QED
    BY <2>2
<1>4. ASSUME NEW m \in 1..n0, m - 1 \in M PROVE m \in M
  <2>1. PICK g : Is(g, m - 1)
    BY <1>4
  <2>. DEFINE h == [k \in 0..m |-> IF k < m THEN g[k] ELSE Body(g, m)]
  <2>2. ASSUME NEW k \in 0..m PROVE h[k] = Body(h, k)
    <3>1. k # 0 => h[k - 1] = g[k - 1]
      OBVIOUS
    <3>2. Body(h, k) = Body(g, k)
      <4>. HIDE DEF h
      <4>. QED
        BY <3>1, <1>2
    <3>3. k < m => h[k] = Body(g, k)
      BY <2>1
    <3>. QED
      BY <3>2, <3>3
  <2>3. \E i : Is(i, m)
    <3>1. Is(h, m)
      BY <2>2
    <3>. HIDE DEF Is, h
    <3>. QED
      BY <3>1
  <2>. QED
    BY <2>3
<1>5. Is(f, n0)
  <2>1. 0..n0 \subseteq M
    <3>. HIDE DEF M
    <3>. QED
      BY <1>3, <1>4, Upwards
  <2>2. n0 \in M
    <3>. HIDE DEF M
    <3>. QED
      BY <2>1
  <2>3. \E g : Is(g, n0)
    BY <2>2
  <2>. HIDE DEF Is, f
  <2>. QED
    BY <1>1, <2>3
<1>6. \A k \in 0..n0 : f[k] = Body(f, k)
  BY <1>5
<1>. QED
  BY <1>6 DEF OneStep

(* Places in order are told by which they are.                             *)
LEMMA OneIncreasing ==
  ASSUME NEW n \in Nat, NEW s \in Seq(1..n), NEW t \in Seq(1..n), Increasing(s), Increasing(t),
         Elements(s) = Elements(t)
  PROVE  s = t
<1>. DEFINE before == {p \in (1..n) \X (1..n) : p[1] < p[2]}
<1>1. \A a, b \in 1..n : <<a, b>> \in before <=> a < b
  OBVIOUS
<1>. HIDE DEF before
<1>2. \A a, b \in 1..n : <<a, b>> \in before => <<b, a>> \notin before
  BY <1>1
<1>3. ASSUME NEW u \in Seq(1..n), Increasing(u)
      PROVE  \A i, j \in 1..Len(u) : i < j => <<u[i], u[j]>> \in before
  <2>1. \A i \in 1..Len(u) : u[i] \in 1..n
    OBVIOUS
  <2>. QED
    BY <1>1, <1>3, <2>1 DEF Increasing
<1>4. \A i, j \in 1..Len(s) : i < j => <<s[i], s[j]>> \in before
  BY <1>3
<1>5. \A i, j \in 1..Len(t) : i < j => <<t[i], t[j]>> \in before
  BY <1>3
<1>6. PICK A : A = 1..n
  OBVIOUS
<1>7. s \in Seq(A) /\ t \in Seq(A) /\ \A a, b \in A : <<a, b>> \in before => <<b, a>> \notin before
  BY <1>2, <1>6
<1>. QED
  BY <1>4, <1>5, <1>7, OneOrder

Closed(tokens, a, b) == \E i \in a..b : tokens[i] = Providers!Closing
Thought(tokens, n, i) ==
  \E o \in 1..i, c \in i..n : /\ o < c /\ tokens[o] = Providers!Opening
                              /\ tokens[c] = Providers!Closing /\ ~Closed(tokens, o, c - 1)
Outside(tokens, n, p) == {i \in 1..(p - 1) : ~Thought(tokens, n, i)}

(* What has been read: what is held runs from the first opening tag that   *)
(* is not closed, and what was said is what is outside of thoughts before. *)
Pending(U, tokens, n, held, p) ==
  /\ held \in Seq(U) /\ Len(held) = n + 1 - p
  /\ \A k \in 1..(n + 1 - p) : held[k] = tokens[p - 1 + k]
  /\ \A i \in p..n : tokens[i] # Providers!Closing
  /\ p <= n => tokens[p] = Providers!Opening
  /\ \A o \in 1..(p - 1) : tokens[o] = Providers!Opening => Closed(tokens, o, p - 1)
SaidOf(tokens, N, said, p) ==
  \E places \in Seq(1..N) : /\ Increasing(places) /\ Elements(places) = Outside(tokens, N, p)
                            /\ said = [k \in 1..Len(places) |-> tokens[places[k]]]
ReadSoFar(U, tokens, N, n, read) ==
  \E p \in 1..(n + 1) :
    /\ read = [said |-> read.said, held |-> read.held]
    /\ Pending(U, tokens, n, read.held, p)
    /\ SaidOf(tokens, N, read.said, p)

(* One more token keeps that.                                              *)
LEMMA OneMoreRead ==
  ASSUME NEW U, NEW N \in Nat, NEW tokens \in Seq(U), Len(tokens) = N, NEW n \in 1..N,
         NEW read, ReadSoFar(U, tokens, N, n - 1, read)
  PROVE  ReadSoFar(U, tokens, N, n, Providers!ReadOn(read, tokens[n]))
<1>. DEFINE t == tokens[n]
            next == Providers!ReadOn(read, t)
<1>1. PICK p \in 1..n : /\ read = [said |-> read.said, held |-> read.held]
                        /\ Pending(U, tokens, n - 1, read.held, p)
                        /\ SaidOf(tokens, N, read.said, p)
  BY DEF ReadSoFar
<1>2. PICK said, held : said = read.said /\ held = read.held
  OBVIOUS
<1>3. read = [said |-> said, held |-> held]
  BY <1>1, <1>2
<1>4. /\ held \in Seq(U) /\ Len(held) = n - p
      /\ \A k \in 1..(n - p) : held[k] = tokens[p - 1 + k]
      /\ \A i \in p..(n - 1) : tokens[i] # Providers!Closing
      /\ p <= n - 1 => tokens[p] = Providers!Opening
      /\ \A o \in 1..(p - 1) : tokens[o] = Providers!Opening => Closed(tokens, o, p - 1)
  BY <1>1, <1>2 DEF Pending
<1>5. PICK places \in Seq(1..N) :
        /\ Increasing(places) /\ Elements(places) = Outside(tokens, N, p)
        /\ said = [k \in 1..Len(places) |-> tokens[places[k]]]
  BY <1>1, <1>2 DEF SaidOf
<1>6. held = << >> <=> p = n
  BY <1>4
<1>7. Providers!Opening # Providers!Closing
  BY DEF Providers!Opening, Providers!Closing
<1>8. t \in U
  OBVIOUS
<1>9. CASE held # << >> /\ t = Providers!Closing
  <2>1. next = [said |-> said, held |-> << >>]
    BY <1>3, <1>9 DEF Providers!ReadOn
  <2>2. p < n
    BY <1>6, <1>9
  <2>3. \A o \in 1..n : Closed(tokens, o, n)
    BY <1>9 DEF Closed
  <2>4. Pending(U, tokens, n, << >>, n + 1)
    BY <2>3 DEF Pending
  <2>5. ASSUME NEW i \in p..n PROVE Thought(tokens, N, i)
    <3>1. ~Closed(tokens, p, n - 1)
      BY <1>4 DEF Closed
    <3>. QED
      BY <1>4, <1>9, <2>2, <3>1 DEF Thought
  <2>6. Outside(tokens, N, n + 1) = Outside(tokens, N, p)
    BY <2>5 DEF Outside
  <2>7. SaidOf(tokens, N, said, n + 1)
    BY <1>5, <2>6 DEF SaidOf
  <2>8. PICK q \in 1..(n + 1) : q = n + 1
    OBVIOUS
  <2>. QED
    BY <2>1, <2>4, <2>7, <2>8 DEF ReadSoFar
<1>10. CASE held # << >> /\ t # Providers!Closing
  <2>1. next = [said |-> said, held |-> Append(held, t)]
    BY <1>3, <1>10 DEF Providers!ReadOn
  <2>2. PICK more : more = Append(held, t)
    OBVIOUS
  <2>7. PICK h \in Nat : h = Len(held) /\ h = n - p
    BY <1>4
  <2>3. /\ more \in Seq(U) /\ Len(more) = h + 1 /\ more[h + 1] = t
        /\ \A k \in 1..h : more[k] = held[k]
    BY <1>4, <1>8, <2>2, <2>7, AppendedIs
  <2>8. \A k \in 1..(n + 1 - p) : more[k] = tokens[p - 1 + k]
    <3>. SUFFICES ASSUME NEW k \in 1..(n + 1 - p) PROVE more[k] = tokens[p - 1 + k]
      OBVIOUS
    <3>1. CASE k \in 1..h
      BY <1>4, <2>3, <2>7, <3>1
    <3>2. CASE k = h + 1
      BY <2>3, <2>7, <3>2
    <3>. QED
      BY <2>7, <3>1, <3>2
  <2>9. \A i \in p..n : tokens[i] # Providers!Closing
    BY <1>4, <1>10
  <2>10. tokens[p] = Providers!Opening
    BY <1>4, <1>6, <1>10
  <2>11. Len(more) = n + 1 - p
    BY <2>3, <2>7
  <2>4. Pending(U, tokens, n, more, p)
    BY <1>4, <2>3, <2>8, <2>9, <2>10, <2>11 DEF Pending
  <2>5. SaidOf(tokens, N, said, p)
    BY <1>1, <1>2
  <2>6. p \in 1..(n + 1)
    OBVIOUS
  <2>. QED
    BY <2>1, <2>2, <2>4, <2>5, <2>6 DEF ReadSoFar
<1>11. CASE held = << >> /\ t = Providers!Opening
  <2>1. next = [said |-> said, held |-> <<t>>]
    BY <1>3, <1>11 DEF Providers!ReadOn
  <2>2. PICK one : one = <<t>>
    OBVIOUS
  <2>3. one \in Seq(U) /\ Len(one) = 1 /\ one[1] = t
    BY <1>8, <2>2
  <2>4. Pending(U, tokens, n, one, p)
    BY <1>4, <1>6, <1>7, <1>11, <2>3 DEF Pending
  <2>5. SaidOf(tokens, N, said, p)
    BY <1>1, <1>2
  <2>6. p \in 1..(n + 1)
    OBVIOUS
  <2>. QED
    BY <2>1, <2>2, <2>4, <2>5, <2>6 DEF ReadSoFar
<1>12. CASE held = << >> /\ t # Providers!Opening
  <2>1. next = [said |-> Append(said, t), held |-> << >>]
    BY <1>3, <1>12 DEF Providers!ReadOn
  <2>2. p = n
    BY <1>6, <1>12
  <2>3. \A o \in 1..n : tokens[o] = Providers!Opening => Closed(tokens, o, n - 1) /\ Closed(tokens, o, n)
    <3>. SUFFICES ASSUME NEW o \in 1..n, tokens[o] = Providers!Opening
                  PROVE  Closed(tokens, o, n - 1) /\ Closed(tokens, o, n)
      OBVIOUS
    <3>1. o \in 1..(n - 1)
      BY <1>12
    <3>2. Closed(tokens, o, n - 1)
      BY <1>4, <2>2, <3>1
    <3>. QED
      BY <3>2 DEF Closed
  <2>4. Pending(U, tokens, n, << >>, n + 1)
    BY <2>3 DEF Pending
  <2>5. ~Thought(tokens, N, n)
    <3>. SUFFICES ASSUME NEW o \in 1..n, NEW c \in n..N, o < c, tokens[o] = Providers!Opening,
                         ~Closed(tokens, o, c - 1)
                  PROVE  FALSE
      BY DEF Thought
    <3>1. Closed(tokens, o, n - 1)
      BY <2>3
    <3>. QED
      BY <3>1 DEF Closed
  <2>6. Outside(tokens, N, n + 1) = Outside(tokens, N, n) \cup {n}
    BY <2>5 DEF Outside
  <2>15. PICK m \in Nat : m = Len(places)
    OBVIOUS
  <2>16. PICK more : more = Append(places, n)
    OBVIOUS
  <2>7. m = Len(places) /\ more = Append(places, n)
    BY <2>15, <2>16
  <2>8. /\ more \in Seq(1..N) /\ Len(more) = m + 1 /\ more[m + 1] = n
        /\ \A k \in 1..m : more[k] = places[k]
    BY <2>7, AppendedIs
  <2>9. Elements(more) = Outside(tokens, N, n + 1)
    <3>1. Elements(more) = Elements(places) \cup {n}
      BY <2>7, ElementsAppended
    <3>2. Elements(places) = Outside(tokens, N, n)
      BY <1>5, <2>2
    <3>. QED
      BY <2>6, <3>1, <3>2
  <2>10. Increasing(more)
    <3>1. \A k \in 1..m : places[k] \in Elements(places) /\ places[k] \in 1..N
      BY <2>7 DEF Elements
    <3>2. \A k \in 1..m : places[k] < n
      BY <1>5, <2>2, <3>1 DEF Outside
    <3>3. \A i, j \in 1..m : i < j => places[i] < places[j]
      BY <1>5, <2>7 DEF Increasing
    <3>4. ASSUME NEW i \in 1..(m + 1), NEW j \in 1..(m + 1), i < j PROVE more[i] < more[j]
      <4>1. CASE j \in 1..m
        BY <2>8, <3>3, <3>4, <4>1
      <4>2. CASE j = m + 1
        <5>1. i \in 1..m
          BY <3>4, <4>2
        <5>. QED
          BY <2>8, <3>2, <4>2, <5>1
      <4>. QED
        BY <4>1, <4>2
    <3>. QED
      BY <2>8, <3>4 DEF Increasing
  <2>11. Append(said, t) = [k \in 1..Len(more) |-> tokens[more[k]]]
    <3>1. said = [k \in 1..m |-> tokens[places[k]]]
      BY <1>5, <2>7
    <3>2. \A k \in 1..m : places[k] \in 1..N
      BY <2>7
    <3>3. \A k \in 1..m : tokens[places[k]] \in U
      BY <3>2
    <3>4. said \in Seq(U) /\ Len(said) = m
      BY <3>1, <3>3
    <3>5. PICK told : told = Append(said, t)
      OBVIOUS
    <3>6. /\ told \in Seq(U) /\ Len(told) = m + 1 /\ told[m + 1] = t
          /\ \A k \in 1..m : told[k] = said[k]
      BY <1>8, <2>15, <3>4, <3>5, AppendedAs
    <3>7. \A k \in 1..(m + 1) : told[k] = tokens[more[k]]
      BY <2>8, <3>1, <3>6
    <3>. QED
      BY <2>8, <3>5, <3>6, <3>7
  <2>12. SaidOf(tokens, N, Append(said, t), n + 1)
    BY <2>8, <2>9, <2>10, <2>11 DEF SaidOf
  <2>13. PICK q \in 1..(n + 1) : q = n + 1
    OBVIOUS
  <2>14. PICK told : told = Append(said, t)
    OBVIOUS
  <2>. QED
    BY <2>1, <2>4, <2>12, <2>13, <2>14 DEF ReadSoFar
<1>. QED
  BY <1>9, <1>10, <1>11, <1>12

(* The whole of what was said.                                             *)
LEMMA AllRead ==
  ASSUME NEW U, NEW N \in Nat, NEW tokens \in Seq(U), Len(tokens) = N
  PROVE  ReadSoFar(U, tokens, N, N, Providers!ReadUpTo(tokens)[N])
<1>. DEFINE r == Providers!ReadUpTo(tokens)
            M == {n \in 0..N : ReadSoFar(U, tokens, N, n, r[n])}
<1>1. /\ r[0] = [said |-> << >>, held |-> << >>]
      /\ \A n \in 1..N : r[n] = Providers!ReadOn(r[n - 1], tokens[n])
  BY ReadRecur
<1>. HIDE DEF r
<1>2. 0 \in M
  <2>1. Pending(U, tokens, 0, << >>, 1)
    BY DEF Pending
  <2>2. Outside(tokens, N, 1) = {}
    BY DEF Outside
  <2>9. << >> \in Seq(1..N) /\ Len(<< >>) = 0
    OBVIOUS
  <2>3. PICK none : none = << >>
    OBVIOUS
  <2>10. none \in Seq(1..N) /\ Len(none) = 0
    BY <2>3, <2>9
  <2>4. /\ Increasing(none) /\ Elements(none) = Outside(tokens, N, 1)
        /\ << >> = [k \in 1..Len(none) |-> tokens[none[k]]]
    BY <2>2, <2>3, <2>10 DEF Increasing, Elements
  <2>5. SaidOf(tokens, N, << >>, 1)
    BY <2>4, <2>10 DEF SaidOf
  <2>6. r[0].said = << >> /\ r[0].held = << >>
    BY <1>1
  <2>7. 1 \in 1..(0 + 1)
    OBVIOUS
  <2>8. ReadSoFar(U, tokens, N, 0, r[0])
    BY <1>1, <2>1, <2>5, <2>6, <2>7 DEF ReadSoFar
  <2>. QED
    BY <2>8
<1>3. ASSUME NEW n \in 1..N, n - 1 \in M PROVE n \in M
  BY <1>1, <1>3, OneMoreRead
<1>4. N \in M
  <2>. HIDE DEF M
  <2>. QED
    BY <1>2, <1>3, Upwards
<1>. QED
  BY <1>4 DEF r

(* One sequence that is another and a third after it.                      *)
Joins(A, w, u, v) ==
  /\ w \in Seq(A) /\ Len(w) = Len(u) + Len(v)
  /\ \A i \in 1..Len(u) : w[i] = u[i]
  /\ \A i \in 1..Len(v) : w[Len(u) + i] = v[i]

(* Concatenation joins.                                                    *)
LEMMA JoinsThem ==
  ASSUME NEW A, NEW u \in Seq(A), NEW v \in Seq(A)
  PROVE  Joins(A, u \o v, u, v)
  BY DEF Joins

(* The reply of a reasoning model is all it said outside of its thoughts,  *)
(* in order, and nothing of a thought that was closed, for any number of   *)
(* tokens (ollama_gateway.py, _clean).                                     *)
THEOREM RepliesSayTheAnswer ==
  ASSUME NEW U, NEW tokens \in Seq(U)
  PROVE  Providers!SaysTheAnswer(tokens)
<1>1. PICK N \in Nat : N = Len(tokens) /\ DOMAIN tokens = 1..N
  OBVIOUS
<1>. DEFINE S == {i \in 1..N : ~Thought(tokens, N, i)}
<1>2. PICK W : W = Knowledge!Chosen(N, S)
  OBVIOUS
<1>3. W \in Seq(1..N) /\ Increasing(W) /\ Elements(W) = S
  <2>1. S \cap (1..N) = S
    OBVIOUS
  <2>. HIDE DEF S
  <2>. QED
    BY <1>2, <2>1, ChosenIs
<1>4. PICK read : read = Providers!ReadUpTo(tokens)[N]
  OBVIOUS
<1>5. PICK p \in 1..(N + 1) : Pending(U, tokens, N, read.held, p) /\ SaidOf(tokens, N, read.said, p)
  <2>1. ReadSoFar(U, tokens, N, N, read)
    BY <1>1, <1>4, AllRead
  <2>. QED
    BY <2>1 DEF ReadSoFar
<1>6. PICK said, held : said = read.said /\ held = read.held
  OBVIOUS
<1>7. PICK h \in Nat : h = N + 1 - p
  OBVIOUS
<1>8. /\ held \in Seq(U) /\ Len(held) = h
      /\ \A k \in 1..h : held[k] = tokens[p - 1 + k]
      /\ \A i \in p..N : tokens[i] # Providers!Closing
  BY <1>5, <1>6, <1>7 DEF Pending
<1>9. PICK places \in Seq(1..N) :
        /\ Increasing(places) /\ Elements(places) = Outside(tokens, N, p)
        /\ said = [k \in 1..Len(places) |-> tokens[places[k]]]
  BY <1>5, <1>6 DEF SaidOf
<1>10. PICK m \in Nat : m = Len(places) /\ \A k \in 1..m : places[k] \in 1..N
  OBVIOUS
<1>11. \A k \in 1..m : places[k] \in Outside(tokens, N, p)
  BY <1>9, <1>10 DEF Elements
<1>12. \A i \in Outside(tokens, N, p) : \E k \in 1..m : places[k] = i
  BY <1>9, <1>10 DEF Elements
<1>. DEFINE every == [k \in 1..(m + h) |-> IF k <= m THEN places[k] ELSE p - 1 + (k - m)]
<1>13. PICK all : all = every
  OBVIOUS
<1>14. /\ \A k \in 1..m : all[k] = places[k]
       /\ \A k \in 1..h : all[m + k] = p - 1 + k
  BY <1>13
<1>15. all \in Seq(1..N) /\ Len(all) = m + h
  <2>1. \A k \in 1..(m + h) : (IF k <= m THEN places[k] ELSE p - 1 + (k - m)) \in 1..N
    BY <1>7, <1>10
  <2>2. PICK q \in Nat : q = m + h
    OBVIOUS
  <2>3. all \in [1..q -> 1..N]
    BY <1>13, <2>1, <2>2
  <2>4. all \in Seq(1..N) /\ Len(all) = q
    <3>. HIDE DEF every
    <3>1. all \in Seq(1..N)
      BY <2>3
    <3>. QED
      BY <2>3, <3>1
  <2>. QED
    BY <2>2, <2>4
<1>16. Increasing(all)
  <2>. SUFFICES ASSUME NEW i \in 1..(m + h), NEW j \in 1..(m + h), i < j PROVE all[i] < all[j]
    BY <1>15 DEF Increasing
  <2>1. CASE j <= m
    <3>1. i \in 1..m /\ j \in 1..m
      BY <2>1
    <3>. QED
      BY <1>9, <1>10, <1>14, <3>1 DEF Increasing
  <2>2. CASE i <= m /\ m < j
    <3>1. PICK k \in 1..h : j = m + k
      <4>1. j - m \in 1..h /\ j = m + (j - m)
        BY <2>2
      <4>. QED
        BY <4>1
    <3>2. i \in 1..m
      BY <2>2
    <3>3. all[i] = places[i] /\ all[j] = p - 1 + k
      BY <1>14, <3>1, <3>2
    <3>4. places[i] \in 1..(p - 1)
      BY <1>11, <3>2 DEF Outside
    <3>. QED
      BY <3>3, <3>4
  <2>3. CASE m < i
    <3>1. PICK k \in 1..h, l \in 1..h : i = m + k /\ j = m + l
      <4>1. i - m \in 1..h /\ i = m + (i - m) /\ j - m \in 1..h /\ j = m + (j - m)
        BY <2>3
      <4>. QED
        BY <4>1
    <3>2. all[i] = p - 1 + k /\ all[j] = p - 1 + l
      BY <1>14, <3>1
    <3>. QED
      BY <3>1, <3>2
  <2>. QED
    BY <2>1, <2>2, <2>3
<1>17. Elements(all) = S
  <2>1. \A i \in p..N : ~Thought(tokens, N, i)
    BY <1>8 DEF Thought
  <2>2. \A i \in 1..N : i \in S <=> i \in Outside(tokens, N, p) \/ i \in p..N
    BY <2>1 DEF Outside
  <2>3. ASSUME NEW i \in S PROVE i \in Elements(all)
    <3>1. CASE i \in Outside(tokens, N, p)
      <4>1. PICK k \in 1..m : places[k] = i
        BY <1>12, <3>1
      <4>2. k \in 1..Len(all) /\ all[k] = i
        BY <1>14, <1>15, <4>1
      <4>. QED
        BY <4>2 DEF Elements
    <3>2. CASE i \in p..N
      <4>1. PICK k \in 1..h : i = p - 1 + k
        <5>1. i - (p - 1) \in 1..h /\ i = p - 1 + (i - (p - 1))
          BY <1>7, <3>2
        <5>. QED
          BY <5>1
      <4>2. PICK q \in 1..(m + h) : q = m + k
        OBVIOUS
      <4>3. q \in 1..Len(all) /\ all[q] = i
        BY <1>14, <1>15, <4>1, <4>2
      <4>. QED
        BY <4>3 DEF Elements
    <3>. QED
      BY <2>2, <3>1, <3>2
  <2>4. ASSUME NEW q \in 1..(m + h) PROVE all[q] \in S
    <3>1. CASE q <= m
      <4>1. q \in 1..m
        BY <3>1
      <4>2. all[q] \in Outside(tokens, N, p) /\ all[q] \in 1..N
        BY <1>10, <1>11, <1>14, <4>1
      <4>. QED
        BY <2>2, <4>2
    <3>2. CASE m < q
      <4>1. PICK k \in 1..h : q = m + k
        <5>1. q - m \in 1..h /\ q = m + (q - m)
          BY <3>2
        <5>. QED
          BY <5>1
      <4>2. all[q] = p - 1 + k /\ p - 1 + k \in p..N /\ p - 1 + k \in 1..N
        <5>1. all[q] = p - 1 + k
          BY <1>14, <4>1
        <5>. QED
          BY <1>7, <5>1
      <4>. QED
        BY <2>2, <4>2
    <3>. QED
      BY <3>1, <3>2
  <2>5. \A x \in Elements(all) : x \in S
    BY <1>15, <2>4 DEF Elements
  <2>. QED
    BY <2>3, <2>5
<1>18. W = all
  BY <1>3, <1>15, <1>16, <1>17, OneIncreasing
<1>19. PICK told : told = said \o held
  OBVIOUS
<1>20. told = [k \in DOMAIN W |-> tokens[W[k]]]
  <2>1. said = [k \in 1..m |-> tokens[places[k]]]
    BY <1>9, <1>10
  <2>2. \A k \in 1..m : tokens[places[k]] \in U
    BY <1>1, <1>10
  <2>3. said \in Seq(U) /\ Len(said) = m
    <3>1. said = [k \in 1..m |-> said[k]]
      BY <2>1
    <3>2. \A k \in 1..m : said[k] \in U
      BY <2>1, <2>2
    <3>3. said \in [1..m -> U]
      BY <3>1, <3>2
    <3>4. said \in Seq(U)
      BY <3>3
    <3>. QED
      BY <3>3, <3>4
  <2>4. /\ told \in Seq(U) /\ Len(told) = m + h
        /\ \A k \in 1..m : told[k] = said[k]
        /\ \A k \in 1..h : told[m + k] = held[k]
    <3>1. held \in Seq(U) /\ Len(held) = h
      BY <1>8
    <3>2. Joins(U, told, said, held)
      BY <1>19, <2>3, <3>1, JoinsThem
    <3>. QED
      BY <2>3, <3>1, <3>2 DEF Joins
  <2>5. ASSUME NEW k \in 1..(m + h) PROVE told[k] = tokens[all[k]]
    <3>1. CASE k <= m
      <4>1. k \in 1..m
        BY <3>1
      <4>. QED
        BY <1>14, <2>1, <2>4, <4>1
    <3>2. CASE m < k
      <4>1. PICK j \in 1..h : k = m + j
        <5>1. k - m \in 1..h /\ k = m + (k - m)
          BY <3>2
        <5>. QED
          BY <5>1
      <4>. QED
        BY <1>8, <1>14, <2>4, <4>1
    <3>. QED
      BY <3>1, <3>2
  <2>6. DOMAIN W = 1..(m + h)
    BY <1>15, <1>18
  <2>7. told = [k \in 1..(m + h) |-> told[k]]
    BY <2>4
  <2>. QED
    BY <1>18, <2>5, <2>6, <2>7
<1>21. Providers!Clean(tokens) = told
  BY <1>1, <1>4, <1>6, <1>19 DEF Providers!Clean
<1>22. Providers!SaysTheAnswer(tokens) <=> Providers!Clean(tokens) = [k \in DOMAIN W |-> tokens[W[k]]]
  <2>1. {i \in DOMAIN tokens :
           ~(\E o \in 1..i, c \in i..Len(tokens) :
               /\ o < c /\ tokens[o] = Providers!Opening /\ tokens[c] = Providers!Closing
               /\ ~(\E j \in o..(c - 1) : tokens[j] = Providers!Closing))} = S
    BY <1>1 DEF Thought, Closed
  <2>2. Providers!Chosen(Len(tokens), S) = W
    BY <1>1, <1>2, ChosenToo
  <2>3. Providers!Chosen(Len(tokens), {i \in DOMAIN tokens :
           ~(\E o \in 1..i, c \in i..Len(tokens) :
               /\ o < c /\ tokens[o] = Providers!Opening /\ tokens[c] = Providers!Closing
               /\ ~(\E j \in o..(c - 1) : tokens[j] = Providers!Closing))}) = W
    BY <2>1, <2>2
  <2>. HIDE DEF S
  <2>. QED
    BY <2>3 DEF Providers!SaysTheAnswer, Providers!Taken
<1>. QED
  BY <1>20, <1>21, <1>22

(* Texts are put together one after the other.                             *)
LEMMA FlattenRecur ==
  ASSUME NEW seqs, NEW n \in Nat \ {0}, n = Len(seqs)
  PROVE  \E f : /\ Providers!FlattenSeq(seqs) = f[n] /\ f[1] = seqs[1]
                /\ \A k \in 2..n : f[k] = f[k - 1] \o seqs[k]
<1>. DEFINE OneStep(g, k) == g[k - 1] \o seqs[k]
            Body(g, k) == IF k = 1 THEN seqs[k] ELSE OneStep(g, k)
            Is(g, m) == g = [k \in 1..m |-> Body(g, k)]
            f == CHOOSE g : Is(g, n)
            M == {m \in 0..n : \E g : Is(g, m)}
<1>0. Providers!FlattenSeq(seqs) = f[n]
  BY DEF Providers!FlattenSeq
<1>5. ASSUME NEW g, NEW h, NEW k, h[k - 1] = g[k - 1] PROVE OneStep(h, k) = OneStep(g, k)
  BY <1>5
<1>. HIDE DEF OneStep
<1>1. 0 \in M
  <2>1. Is([k \in 1..0 |-> 0], 0)
    OBVIOUS
  <2>2. \E g : Is(g, 0)
    <3>. HIDE DEF Is
    <3>. QED
      BY <2>1
  <2>3. 0 \in 0..n
    OBVIOUS
  <2>. HIDE DEF Is
  <2>. QED
    BY <2>2, <2>3
<1>2. ASSUME NEW m \in 1..n, m - 1 \in M PROVE m \in M
  <2>1. PICK g : Is(g, m - 1)
    BY <1>2
  <2>. DEFINE h == [k \in 1..m |-> IF k < m THEN g[k] ELSE Body(g, m)]
  <2>2. ASSUME NEW k \in 1..m PROVE h[k] = Body(h, k)
    <3>1. k # 1 => h[k - 1] = g[k - 1]
      OBVIOUS
    <3>2. Body(h, k) = Body(g, k)
      <4>. HIDE DEF h
      <4>. QED
        BY <3>1, <1>5
    <3>3. k < m => h[k] = Body(g, k)
      BY <2>1
    <3>. QED
      BY <3>2, <3>3
  <2>3. \E i : Is(i, m)
    <3>1. Is(h, m)
      BY <2>2
    <3>. HIDE DEF Is, h
    <3>. QED
      BY <3>1
  <2>. QED
    BY <2>3
<1>3. Is(f, n)
  <2>1. 0..n \subseteq M
    <3>. HIDE DEF M
    <3>. QED
      BY <1>1, <1>2, Upwards
  <2>2. n \in M
    <3>. HIDE DEF M
    <3>. QED
      BY <2>1
  <2>3. \E g : Is(g, n)
    BY <2>2
  <2>. HIDE DEF Is
  <2>. QED
    BY <2>3
<1>. HIDE DEF f
<1>4. \A k \in 1..n : f[k] = Body(f, k)
  BY <1>3
<1>6. f[1] = seqs[1] /\ \A k \in 2..n : f[k] = OneStep(f, k)
  BY <1>4
<1>. QED
  BY <1>0, <1>6 DEF OneStep

(* The first so many texts, together.                                      *)
First(texts, k) == [i \in 1..k |-> texts[i]]
Flat(texts, k) == Providers!FlattenSeq(First(texts, k))

(* They are what fewer are, and the last after it.                         *)
LEMMA FlatIs ==
  ASSUME NEW A, NEW n \in Nat, NEW texts, \A i \in 1..n : texts[i] \in Seq(A)
  PROVE  /\ Flat(texts, 0) = << >>
         /\ \A k \in 0..n : Flat(texts, k) \in Seq(A)
         /\ \A k \in 1..n : Flat(texts, k) = Flat(texts, k - 1) \o texts[k]
<1>1. \A k \in Nat : /\ Len(First(texts, k)) = k
                     /\ \A i \in 1..k : First(texts, k)[i] = texts[i]
  <2>. SUFFICES ASSUME NEW k \in Nat
                PROVE  /\ Len(First(texts, k)) = k
                       /\ \A i \in 1..k : First(texts, k)[i] = texts[i]
    OBVIOUS
  <2>1. \A i \in 1..k : First(texts, k)[i] = texts[i]
    BY DEF First
  <2>2. First(texts, k) = [i \in 1..k |-> First(texts, k)[i]]
    BY DEF First
  <2>. QED
    BY <2>1, <2>2, LengthIs
<1>2. Flat(texts, 0) = << >>
  <2>1. First(texts, 0) = << >>
    BY DEF First
  <2>. QED
    BY <1>1, <2>1 DEF Flat, Providers!FlattenSeq
<1>. DEFINE Parts(f, k) == /\ f[1] = texts[1]
                           /\ \A j \in 2..k : f[j] = f[j - 1] \o texts[j]
<1>3. ASSUME NEW k \in 1..n PROVE \E f : Flat(texts, k) = f[k] /\ Parts(f, k)
  <2>1. k \in Nat \ {0} /\ k = Len(First(texts, k))
    BY <1>1
  <2>2. PICK f : /\ Providers!FlattenSeq(First(texts, k)) = f[k] /\ f[1] = First(texts, k)[1]
                 /\ \A j \in 2..k : f[j] = f[j - 1] \o First(texts, k)[j]
    BY <2>1, FlattenRecur
  <2>3. f[1] = texts[1]
    BY <1>1, <2>1, <2>2
  <2>4. \A j \in 2..k : First(texts, k)[j] = texts[j]
    BY <1>1
  <2>5. Parts(f, k)
    BY <2>2, <2>3, <2>4
  <2>. HIDE DEF Parts
  <2>. QED
    BY <2>2, <2>5 DEF Flat
<1>4. ASSUME NEW f, NEW g, NEW k \in 1..n, NEW l \in 1..n, Parts(f, k), Parts(g, l)
      PROVE  \A j \in 1..n : j <= k /\ j <= l => f[j] = g[j]
  <2>. DEFINE M == {j \in 0..n : j # 0 /\ j <= k /\ j <= l => f[j] = g[j]}
  <2>1. 0 \in M
    OBVIOUS
  <2>2. ASSUME NEW j \in 1..n, j - 1 \in M PROVE j \in M
    <3>1. CASE j = 1
      BY <1>4, <3>1
    <3>2. CASE j # 1 /\ j <= k /\ j <= l
      <4>1. f[j - 1] = g[j - 1]
        BY <2>2, <3>2
      <4>2. f[j] = f[j - 1] \o texts[j] /\ g[j] = g[j - 1] \o texts[j]
        <5>1. j \in 2..k /\ j \in 2..l
          BY <3>2
        <5>. QED
          BY <1>4, <5>1
      <4>3. f[j] = g[j]
        BY <4>1, <4>2
      <4>. QED
        BY <4>3
    <3>3. CASE ~(j <= k /\ j <= l)
      BY <3>3
    <3>. QED
      BY <3>1, <3>2, <3>3
  <2>3. 0..n \subseteq M
    <3>. HIDE DEF M
    <3>. QED
      BY <2>1, <2>2, Upwards
  <2>. QED
    BY <2>3
<1>5. ASSUME NEW k \in 2..n PROVE Flat(texts, k) = Flat(texts, k - 1) \o texts[k]
  <2>1. k \in 1..n /\ k - 1 \in 1..n
    OBVIOUS
  <2>2. PICK f : Flat(texts, k) = f[k] /\ Parts(f, k)
    BY <1>3, <2>1
  <2>3. PICK g : Flat(texts, k - 1) = g[k - 1] /\ Parts(g, k - 1)
    <3>. HIDE DEF Parts
    <3>. QED
      BY <1>3, <2>1
  <2>4. f[k - 1] = g[k - 1]
    <3>1. \A j \in 1..n : j <= k /\ j <= k - 1 => f[j] = g[j]
      <4>. HIDE DEF Parts
      <4>. QED
        BY <1>4, <2>1, <2>2, <2>3
    <3>. QED
      BY <2>1, <3>1
  <2>5. f[k] = f[k - 1] \o texts[k]
    <3>1. k \in 2..k
      OBVIOUS
    <3>. QED
      BY <2>2, <3>1
  <2>. QED
    BY <2>2, <2>3, <2>4, <2>5
<1>6. n # 0 => Flat(texts, 1) = texts[1]
  <2>. SUFFICES ASSUME n # 0 PROVE Flat(texts, 1) = texts[1]
    OBVIOUS
  <2>1. PICK f : Flat(texts, 1) = f[1] /\ Parts(f, 1)
    <3>1. 1 \in 1..n
      OBVIOUS
    <3>. HIDE DEF Parts
    <3>. QED
      BY <1>3, <3>1
  <2>. QED
    BY <2>1
<1>7. ASSUME NEW s \in Seq(A) PROVE << >> \o s = s
  OBVIOUS
<1>8. ASSUME NEW k \in 1..n PROVE Flat(texts, k) = Flat(texts, k - 1) \o texts[k]
  <2>1. CASE k = 1
    BY <1>2, <1>6, <1>7, <2>1
  <2>2. CASE k # 1
    <3>1. k \in 2..n
      BY <2>2
    <3>. QED
      BY <1>5, <3>1
  <2>. QED
    BY <2>1, <2>2
<1>. DEFINE M == {k \in 0..n : Flat(texts, k) \in Seq(A)}
<1>9. 0 \in M
  <2>1. 0 \in 0..n /\ << >> \in Seq(A)
    OBVIOUS
  <2>. QED
    BY <1>2, <2>1
<1>10. ASSUME NEW k \in 1..n, k - 1 \in M PROVE k \in M
  <2>1. PICK s \in Seq(A) : s = Flat(texts, k - 1)
    BY <1>10
  <2>2. PICK t \in Seq(A) : t = texts[k]
    OBVIOUS
  <2>3. s \o t \in Seq(A)
    OBVIOUS
  <2>4. Flat(texts, k) = s \o t
    BY <1>8, <2>1, <2>2
  <2>5. Flat(texts, k) \in Seq(A)
    BY <2>3, <2>4
  <2>. QED
    BY <2>5
<1>11. 0..n \subseteq M
  <2>. HIDE DEF M
  <2>. QED
    BY <1>9, <1>10, Upwards
<1>. QED
  BY <1>2, <1>8, <1>11

(* More texts have what fewer have, and then more.                         *)
Leads(s, w) == Len(s) <= Len(w) /\ \A i \in 1..Len(s) : w[i] = s[i]

(* The first of many texts lead what all of them are.                      *)
LEMMA FlatGrows ==
  ASSUME NEW A, NEW n \in Nat, NEW texts, \A i \in 1..n : texts[i] \in Seq(A),
         NEW j \in 0..n
  PROVE  \A k \in j..n : Leads(Flat(texts, j), Flat(texts, k))
<1>. DEFINE M == {k \in 0..n : k < j \/ Leads(Flat(texts, j), Flat(texts, k))}
<1>1. \A k \in 0..n : Flat(texts, k) \in Seq(A)
  BY FlatIs
<1>2. \A k \in 1..n : Flat(texts, k) = Flat(texts, k - 1) \o texts[k]
  BY FlatIs
<1>3. Leads(Flat(texts, j), Flat(texts, j))
  <2>1. PICK s \in Seq(A) : s = Flat(texts, j)
    BY <1>1
  <2>. QED
    BY <2>1 DEF Leads
<1>4. 0 \in M
  BY <1>3
<1>5. ASSUME NEW k \in 1..n, k - 1 \in M PROVE k \in M
  <2>1. PICK s \in Seq(A), u \in Seq(A) : s = Flat(texts, j) /\ u = Flat(texts, k - 1)
    <3>1. k - 1 \in 0..n
      OBVIOUS
    <3>. QED
      BY <1>1, <3>1
  <2>2. PICK w : w = Flat(texts, k)
    OBVIOUS
  <2>3. Joins(A, w, u, texts[k])
    BY <1>2, <2>1, <2>2, JoinsThem
  <2>4. CASE j <= k - 1
    <3>1. Leads(s, u)
      BY <1>5, <2>1, <2>4
    <3>7. w \in Seq(A) /\ texts[k] \in Seq(A)
      BY <2>3 DEF Joins
    <3>2. PICK a, b, c, d \in Nat : a = Len(s) /\ b = Len(u) /\ c = Len(w) /\ d = Len(texts[k])
      BY <3>7
    <3>3. c = b + d /\ \A i \in 1..b : w[i] = u[i]
      BY <2>3, <3>2 DEF Joins
    <3>4. a <= b /\ \A i \in 1..a : u[i] = s[i]
      BY <3>1, <3>2 DEF Leads
    <3>5. a <= c /\ \A i \in 1..a : w[i] = s[i]
      BY <3>3, <3>4
    <3>6. Leads(s, w)
      BY <3>2, <3>5 DEF Leads
    <3>. QED
      BY <2>1, <2>2, <3>6
  <2>5. CASE j = k
    BY <1>3, <2>5
  <2>6. CASE k < j
    BY <2>6
  <2>. QED
    BY <2>4, <2>5, <2>6
<1>6. 0..n \subseteq M
  <2>. HIDE DEF M
  <2>. QED
    BY <1>4, <1>5, Upwards
<1>. QED
  BY <1>6

(* What leads a sequence begins it.                                        *)
LEMMA LeadsIsPrefix ==
  ASSUME NEW A, NEW s \in Seq(A), NEW w \in Seq(A), Leads(s, w)
  PROVE  Providers!IsPrefix(s, w)
<1>1. PICK a \in Nat, b \in Nat : a = Len(s) /\ b = Len(w)
  OBVIOUS
<1>2. a <= b /\ \A i \in 1..a : w[i] = s[i]
  BY <1>1 DEF Leads
<1>3. SubSeq(s, 1, a) = [i \in 1..a |-> s[i]] /\ SubSeq(w, 1, a) = [i \in 1..a |-> w[i]]
  <2>1. s = [i \in 1..a |-> s[i]] /\ w = [i \in 1..b |-> w[i]]
    BY <1>1
  <2>2. SubSeq(s, 1, a) = [i \in 1..a |-> s[i]]
    BY SMT DEF SubSeq
  <2>3. SubSeq(w, 1, a) = [i \in 1..a |-> w[i]]
    BY SMT DEF SubSeq
  <2>. QED
    BY <2>2, <2>3
<1>4. SubSeq(s, 1, a) = SubSeq(w, 1, a)
  BY <1>2, <1>3
<1>. QED
  BY <1>1, <1>2, <1>4 DEF Providers!IsPrefix

(* A reply without an opening tag is said as it is.                        *)
LEMMA NothingToClean ==
  ASSUME NEW U, NEW tokens \in Seq(U), \A i \in 1..Len(tokens) : tokens[i] # Providers!Opening
  PROVE  Providers!Clean(tokens) = tokens
<1>1. PICK N \in Nat : N = Len(tokens) /\ DOMAIN tokens = 1..N
  OBVIOUS
<1>2. PICK read : read = Providers!ReadUpTo(tokens)[N]
  OBVIOUS
<1>3. PICK p \in 1..(N + 1) : Pending(U, tokens, N, read.held, p) /\ SaidOf(tokens, N, read.said, p)
  <2>1. ReadSoFar(U, tokens, N, N, read)
    BY <1>1, <1>2, AllRead
  <2>. QED
    BY <2>1 DEF ReadSoFar
<1>4. p = N + 1 /\ read.held = << >>
  <2>1. p <= N => tokens[p] = Providers!Opening
    BY <1>3 DEF Pending
  <2>2. p = N + 1
    BY <1>1, <2>1
  <2>3. read.held \in Seq(U) /\ Len(read.held) = 0
    BY <1>3, <2>2 DEF Pending
  <2>. QED
    BY <2>2, <2>3
<1>5. PICK places \in Seq(1..N) :
        /\ Increasing(places) /\ Elements(places) = Outside(tokens, N, N + 1)
        /\ read.said = [k \in 1..Len(places) |-> tokens[places[k]]]
  BY <1>3, <1>4 DEF SaidOf
<1>6. Outside(tokens, N, N + 1) = 1..N
  <2>1. \A i \in 1..N : ~Thought(tokens, N, i)
    BY <1>1 DEF Thought
  <2>. QED
    BY <2>1 DEF Outside
<1>. DEFINE id == [k \in 1..N |-> k]
<1>7. places = id
  <2>1. id \in [1..N -> 1..N]
    OBVIOUS
  <2>2. id \in Seq(1..N)
    BY <2>1
  <2>3. Len(id) = N
    OBVIOUS
  <2>4. Increasing(id)
    BY <2>3 DEF Increasing
  <2>5. Elements(id) = 1..N
    BY <2>3 DEF Elements
  <2>. HIDE DEF id
  <2>. QED
    BY <1>5, <1>6, <2>2, <2>4, <2>5, OneIncreasing
<1>8. PICK said : said = read.said
  OBVIOUS
<1>9. said = tokens
  <2>1. Len(places) = N /\ \A k \in 1..N : places[k] = k
    BY <1>7
  <2>2. said = [k \in 1..N |-> tokens[k]]
    BY <1>5, <1>8, <2>1
  <2>3. tokens = [k \in 1..N |-> tokens[k]]
    BY <1>1
  <2>. QED
    BY <2>2, <2>3
<1>10. said \o << >> = said
  BY <1>9
<1>. QED
  BY <1>1, <1>2, <1>4, <1>8, <1>9, <1>10 DEF Providers!Clean

(* The lines of a stream, the last of which says that it is done.          *)
Lines(U) == [text : Seq(U), failed : BOOLEAN, done : BOOLEAN]

(* A stream of any number of lines shows the beginning of what was sent,   *)
(* and everything before the line that ends it; it ends whole just when    *)
(* the line came or the stream simply ended, whatever failures the lines   *)
(* reported; and what has no thought in it is what a turn that does not    *)
(* stream would reply (OllamaGateway.stream).                              *)
THEOREM StreamsShowTheReply ==
  ASSUME NEW U, NEW lines \in Seq(Lines(U)), NEW ending \in Providers!Exchanges
  PROVE  Providers!StreamsTheReply(lines, ending)
<1>1. PICK n \in Nat : n = Len(lines) /\ DOMAIN lines = 1..n
  OBVIOUS
<1>2. PICK texts : texts = [i \in 1..n |-> Providers!Piece(lines[i])]
  OBVIOUS
<1>3. \A i \in 1..n : texts[i] \in Seq(U) /\ texts[i] = Providers!Piece(lines[i])
  <2>1. \A i \in 1..n : lines[i] \in Lines(U)
    BY <1>1
  <2>2. << >> \in Seq(U)
    OBVIOUS
  <2>3. \A i \in 1..n : Providers!Piece(lines[i]) \in Seq(U)
    BY <2>1, <2>2 DEF Lines, Providers!Piece
  <2>. QED
    BY <1>2, <2>3
<1>. DEFINE last == {i \in 1..n : lines[i].done}
            read == IF last = {} THEN lines ELSE SubSeq(lines, 1, Providers!Min(last))
<1>4. last # {} => /\ Providers!Min(last) \in last
                   /\ \A i \in last : Providers!Min(last) <= i
  <2>. SUFFICES ASSUME last # {}
                PROVE  Providers!Min(last) \in last /\ \A i \in last : Providers!Min(last) <= i
    OBVIOUS
  <2>1. \E i \in last : \A j \in last : i <= j
    <3>1. last \in SUBSET (1..n)
      OBVIOUS
    <3>. HIDE DEF last
    <3>2. PICK i \in last : \A j \in 1..(i - 1) : j \notin last
      BY <3>1, FirstOfAll
    <3>3. \A j \in last : i <= j
      BY <3>1, <3>2
    <3>. QED
      BY <3>3
  <2>. HIDE DEF last
  <2>. QED
    BY <2>1 DEF Providers!Min
<1>5. PICK r \in 0..n :
        /\ last = {} => r = n
        /\ last # {} => r = Providers!Min(last)
  <2>1. CASE last = {}
    <3>1. n \in 0..n
      OBVIOUS
    <3>. QED
      BY <2>1, <3>1
  <2>2. CASE last # {}
    <3>1. Providers!Min(last) \in 0..n
      BY <1>4, <2>2
    <3>. QED
      BY <2>2, <3>1
  <2>. QED
    BY <2>1, <2>2
<1>6. [i \in DOMAIN read |-> Providers!Piece(read[i])] = First(texts, r)
  <2>1. CASE last = {}
    BY <1>1, <1>3, <1>5, <2>1 DEF First
  <2>2. CASE last # {}
    <3>1. read = SubSeq(lines, 1, r)
      BY <1>5, <2>2
    <3>2. PICK s : s = SubSeq(lines, 1, r)
      OBVIOUS
    <3>3. DOMAIN s = 1..r /\ \A i \in 1..r : s[i] = lines[i]
      BY <1>1, <3>2
    <3>4. \A i \in 1..r : Providers!Piece(s[i]) = texts[i]
      BY <1>3, <3>3
    <3>5. [i \in DOMAIN s |-> Providers!Piece(s[i])] = [i \in 1..r |-> texts[i]]
      BY <3>3, <3>4
    <3>6. read = s
      BY <3>1, <3>2
    <3>. HIDE DEF read
    <3>. QED
      BY <3>5, <3>6 DEF First
  <2>. QED
    BY <2>1, <2>2
<1>7. PICK shown \in Seq(U), all \in Seq(U) : shown = Flat(texts, r) /\ all = Flat(texts, n)
  <2>1. \A k \in 0..n : Flat(texts, k) \in Seq(U)
    <3>1. \A i \in 1..n : texts[i] \in Seq(U)
      BY <1>3
    <3>. HIDE DEF last, read
    <3>. QED
      BY <3>1, FlatIs
  <2>2. n \in 0..n
    OBVIOUS
  <2>. QED
    BY <2>1, <2>2
<1>8. Providers!FlattenSeq([i \in DOMAIN lines |-> Providers!Piece(lines[i])]) = all
  <2>1. [i \in DOMAIN lines |-> Providers!Piece(lines[i])] = First(texts, n)
    BY <1>1, <1>3 DEF First
  <2>. QED
    BY <1>7, <2>1 DEF Flat
<1>18. \A j \in 0..n : \A k \in j..n : Leads(Flat(texts, j), Flat(texts, k))
  <2>1. \A i \in 1..n : texts[i] \in Seq(U)
    BY <1>3
  <2>. HIDE DEF last, read
  <2>. QED
    BY <2>1, FlatGrows
<1>9. Leads(shown, all)
  <2>1. n \in r..n
    OBVIOUS
  <2>. QED
    BY <1>7, <1>18, <2>1
<1>10. PICK streamed : streamed = Providers!Stream(lines, ending)
  OBVIOUS
<1>11. /\ streamed.shown = shown
       /\ streamed.ending = IF last # {} \/ ending \in Providers!Shaped THEN "whole"
                            ELSE Providers!OllamaStreamError(ending).kind
  <2>1. {i \in DOMAIN lines : lines[i].done} = last
    BY <1>1
  <2>2. Providers!FlattenSeq([i \in DOMAIN read |-> Providers!Piece(read[i])]) = shown
    BY <1>6, <1>7 DEF Flat
  <2>. QED
    BY <1>10, <2>1, <2>2 DEF Providers!Stream
<1>. HIDE DEF read
<1>12. streamed.ending = "whole" <=> last # {} \/ ending \in Providers!Shaped
  <2>1. ending \notin Providers!Shaped => Providers!OllamaStreamError(ending).kind # "whole"
    BY DEF Providers!OllamaStreamError, Providers!OllamaError, Providers!Exchanges,
           Providers!Shaped, Providers!AppError, Providers!Raised
  <2>. QED
    BY <1>11, <2>1
<1>13. last # {} <=> \E i \in DOMAIN lines : lines[i].done
  BY <1>1
<1>14. ASSUME NEW i \in 1..n, \A j \in 1..i : ~lines[j].done
       PROVE  Len(shown) >= Len(Providers!FlattenSeq([j \in 1..i |-> Providers!Piece(lines[j])]))
  <2>1. i <= r
    <3>1. CASE last = {}
      BY <1>5, <3>1
    <3>2. CASE last # {}
      <4>1. r \in 1..n /\ lines[r].done
        BY <1>4, <1>5, <3>2
      <4>. QED
        BY <1>14, <4>1
    <3>. QED
      BY <3>1, <3>2
  <2>2. [j \in 1..i |-> Providers!Piece(lines[j])] = First(texts, i)
    BY <1>3 DEF First
  <2>3. Leads(Flat(texts, i), Flat(texts, r))
    <3>1. i \in 0..n /\ r \in i..n
      BY <2>1
    <3>. QED
      BY <1>18, <3>1
  <2>4. PICK part \in Seq(U) : part = Flat(texts, i)
    <3>1. i \in 0..n
      OBVIOUS
    <3>. QED
      BY <1>3, <3>1, FlatIs
  <2>5. Len(part) <= Len(shown) /\ Len(part) \in Nat /\ Len(shown) \in Nat
    BY <1>7, <2>3, <2>4 DEF Leads
  <2>6. Len(shown) >= Len(part)
    BY <2>5
  <2>. QED
    BY <2>2, <2>4, <2>6 DEF Flat
<1>15. ASSUME ~Providers!Contains(all, Providers!Opening)
       PROVE  Providers!Generate("ollama", FALSE, "answered", shown) = Providers!Reply(shown)
  <2>1. \A i \in 1..Len(all) : all[i] # Providers!Opening
    BY <1>15 DEF Providers!Contains
  <2>2. PICK a, b \in Nat : a = Len(shown) /\ b = Len(all)
    OBVIOUS
  <2>3. a <= b /\ \A i \in 1..a : all[i] = shown[i]
    BY <1>9, <2>2 DEF Leads
  <2>4. \A i \in 1..Len(shown) : shown[i] # Providers!Opening
    BY <2>1, <2>2, <2>3
  <2>5. Providers!Clean(shown) = shown
    BY <2>4, NothingToClean
  <2>. QED
    BY <2>5 DEF Providers!Generate
<1>16. Providers!IsPrefix(shown, all)
  BY <1>9, LeadsIsPrefix
<1>. HIDE DEF last
<1>17. \A i \in DOMAIN lines : ~lines[i].done /\ (\A j \in 1..i : ~lines[j].done) =>
         Len(shown) >= Len(Providers!FlattenSeq([j \in 1..i |-> Providers!Piece(lines[j])]))
  BY <1>1, <1>14
<1>. QED
  BY <1>8, <1>10, <1>11, <1>12, <1>13, <1>15, <1>16, <1>17 DEF Providers!StreamsTheReply

-----------------------------------------------------------------------------
(* RANKING. What is known is put on one scale and ranked: the items of the *)
(* four sources lie one after the other, each rated by its source, and the *)
(* sort keeps in order what does not outrank each other.                   *)

(* A tenth is taken off with each place.                                   *)
LEMMA DecayedRecur ==
  ASSUME NEW n \in Nat
  PROVE  /\ Knowledge!Decayed(n)[0] = 60000000
         /\ \A k \in 1..n :
              Knowledge!Decayed(n)[k] = (Knowledge!Decayed(n)[k - 1] * 9) \div 10
<1>. DEFINE n0 == n
            f == Knowledge!Decayed(n)
            OneStep(g, k) == (g[k - 1] * 9) \div 10
            Body(g, k) == IF k = 0 THEN 60000000 ELSE OneStep(g, k)
            Is(g, m) == g = [k \in 0..m |-> Body(g, k)]
            M == {m \in 0..n0 : \E g : Is(g, m)}
<1>1. f = CHOOSE g : Is(g, n0)
  BY DEF Knowledge!Decayed
<1>2. ASSUME NEW g, NEW h, NEW k, h[k - 1] = g[k - 1] PROVE OneStep(h, k) = OneStep(g, k)
  BY <1>2
<1>. HIDE DEF OneStep
<1>3. 0 \in M
  <2>1. Is([k \in 0..0 |-> 60000000], 0)
    OBVIOUS
  <2>2. \E g : Is(g, 0)
    <3>. HIDE DEF Is
    <3>. QED
      BY <2>1
  <2>. QED
    BY <2>2
<1>4. ASSUME NEW m \in 1..n0, m - 1 \in M PROVE m \in M
  <2>1. PICK g : Is(g, m - 1)
    BY <1>4
  <2>. DEFINE h == [k \in 0..m |-> IF k < m THEN g[k] ELSE Body(g, m)]
  <2>2. ASSUME NEW k \in 0..m PROVE h[k] = Body(h, k)
    <3>1. k # 0 => h[k - 1] = g[k - 1]
      OBVIOUS
    <3>2. Body(h, k) = Body(g, k)
      <4>. HIDE DEF h
      <4>. QED
        BY <3>1, <1>2
    <3>3. k < m => h[k] = Body(g, k)
      BY <2>1
    <3>. QED
      BY <3>2, <3>3
  <2>3. \E i : Is(i, m)
    <3>1. Is(h, m)
      BY <2>2
    <3>. HIDE DEF Is, h
    <3>. QED
      BY <3>1
  <2>. QED
    BY <2>3
<1>5. Is(f, n0)
  <2>1. 0..n0 \subseteq M
    <3>. HIDE DEF M
    <3>. QED
      BY <1>3, <1>4, Upwards
  <2>2. n0 \in M
    <3>. HIDE DEF M
    <3>. QED
      BY <2>1
  <2>3. \E g : Is(g, n0)
    BY <2>2
  <2>. HIDE DEF Is, f
  <2>. QED
    BY <1>1, <2>3
<1>6. \A k \in 0..n0 : f[k] = Body(f, k)
  BY <1>5
<1>. QED
  BY <1>6 DEF OneStep

(* Nine tenths with each: no more than the one before, and never below     *)
(* nothing.                                                                *)
OnScale(x) == x \in Nat /\ x <= 60000000

(* The decayed scores stay on the scale and only fall.                     *)
LEMMA DecaysDown ==
  ASSUME NEW n \in Nat
  PROVE  /\ \A k \in 0..n : OnScale(Knowledge!Decayed(n)[k])
         /\ \A j, k \in 0..n : j <= k => Knowledge!Decayed(n)[k] <= Knowledge!Decayed(n)[j]
<1>. DEFINE d == Knowledge!Decayed(n)
<1>1. d[0] = 60000000 /\ \A k \in 1..n : d[k] = (d[k - 1] * 9) \div 10
  BY DecayedRecur
<1>. HIDE DEF d
<1>2. \A x \in Nat : (x * 9) \div 10 \in Nat /\ (x * 9) \div 10 <= x
  BY SMT
<1>. DEFINE P == {k \in 0..n : d[k] \in Nat}
<1>7. 0 \in P
  BY SMT, <1>1
<1>8. \A k \in 1..n : k - 1 \in P => k \in P
  BY <1>1, <1>2
<1>9. \A k \in 0..n : d[k] \in Nat
  <2>1. 0..n \subseteq P
    <3>. HIDE DEF P
    <3>. QED
      BY <1>7, <1>8, Upwards
  <2>. QED
    BY <2>1
<1>. DEFINE M == {k \in 0..n : d[k] \in Nat /\ \A j \in 0..k : d[k] <= d[j]}
<1>3. 0 \in M
  BY SMT, <1>1
<1>4. ASSUME NEW k \in 1..n, k - 1 \in M PROVE k \in M
  <2>1. PICK x \in Nat : x = d[k - 1]
    BY <1>4
  <2>2. PICK y \in Nat : y = (x * 9) \div 10 /\ y <= x
    BY <1>2
  <2>3. d[k] = y
    BY <1>1, <2>1, <2>2
  <2>4. \A j \in 0..(k - 1) : x <= d[j]
    BY <1>4, <2>1
  <2>5. ASSUME NEW j \in 0..k PROVE d[k] <= d[j]
    <3>1. CASE j = k
      BY <2>3, <3>1
    <3>2. CASE j # k
      <4>1. k - 1 \in 0..n /\ \A i \in 0..(k - 1) : x <= d[i]
        BY <2>4
      <4>2. j \in 0..(k - 1)
        BY <3>2
      <4>3. x <= d[j]
        BY <4>1, <4>2
      <4>4. d[j] \in Nat
        BY <1>9
      <4>. QED
        BY <2>2, <2>3, <4>3, <4>4
    <3>. QED
      BY <3>1, <3>2
  <2>. QED
    BY <2>3, <2>5
<1>5. 0..n \subseteq M
  <2>. HIDE DEF M
  <2>. QED
    BY <1>3, <1>4, Upwards
<1>6. \A k \in 0..n : d[k] \in Nat /\ d[k] <= d[0] /\ \A j \in 0..k : d[k] <= d[j]
  BY <1>5
<1>10. \A k \in 0..n : OnScale(d[k])
  BY SMT, <1>1, <1>6 DEF OnScale
<1>11. \A j, k \in 0..n : j <= k => d[k] <= d[j]
  <2>1. \A k \in 0..n : \A j \in 0..n : j <= k => j \in 0..k
    OBVIOUS
  <2>. QED
    BY <1>6, <2>1
<1>. QED
  BY <1>10, <1>11 DEF d

(* The items of a context and where they stand.                            *)
Remembered(U) == [score : Int, text : U, cost : Nat]
Goals(U) == [priority : {"low", "medium", "high"}, days : Int, text : U, cost : Nat]
Excerpts(U) == [text : U, cost : Nat]
WebHits(U) == [named : BOOLEAN, text : U, cost : Nat]
Known(U, c) ==
  /\ c.memories \in Seq(Remembered(U)) /\ c.goals \in Seq(Goals(U))
  /\ c.files \in Seq(Excerpts(U)) /\ c.search \in Seq(WebHits(U))
Sources == {"memory", "goal", "file", "search"}
Items(U) == [source : Sources, text : U, cost : Nat, native : Int, rank : Int]

MemoryItem(x) == Knowledge!Item("memory", x, Knowledge!Clamped(x.score * 10000, Knowledge!Whole),
                                Knowledge!Clamped(x.score * 10000, Knowledge!Whole))
GoalItem(x) == Knowledge!Item("goal", x, Knowledge!GoalScore(x), Knowledge!GoalScore(x))
FileItem(c, i) ==
  Knowledge!Item("file", c.files[i], Knowledge!Decayed(Len(c.files))[i - 1],
                 Knowledge!Decayed(Len(c.files))[i - 1] + IF c.attached THEN Knowledge!Whole ELSE 0)
MemoryItems(c) == [i \in DOMAIN c.memories |-> MemoryItem(c.memories[i])]
GoalItems(c) == [i \in DOMAIN c.goals |-> GoalItem(c.goals[i])]
FileItems(c) == [i \in DOMAIN c.files |-> FileItem(c, i)]

(* The items of a context are those of its four sources.                   *)
LEMMA ScoredItemsAre ==
  ASSUME NEW c
  PROVE  Knowledge!ScoredItems(c)
           = MemoryItems(c) \o GoalItems(c) \o FileItems(c) \o Knowledge!SearchItems(c.search)
  BY DEF Knowledge!ScoredItems, MemoryItems, GoalItems, FileItems, MemoryItem, GoalItem, FileItem

(* How an item of each source is rated.                                    *)
IsA(source, x) == x.source = source
Modest(x) == x <= 30000000
RatedMemory(x) == /\ IsA("memory", x) /\ x.rank = x.native
                  /\ 0 <= x.rank /\ x.rank <= Knowledge!Whole
RatedGoal(x) == IsA("goal", x) /\ ~Modest(x.rank) /\ x.rank <= Knowledge!Whole
RatedFile(x, attached) ==
  /\ IsA("file", x) /\ 0 <= x.native
  /\ x.rank = x.native + IF attached THEN Knowledge!Whole ELSE 0
RatedHit(x) == IsA("search", x) /\ 0 <= x.rank /\ Modest(x.rank)

(* A memory's item has its score, on the scale.                            *)
LEMMA MemoryIs ==
  ASSUME NEW U, NEW x \in Remembered(U)
  PROVE  MemoryItem(x) \in Items(U) /\ RatedMemory(MemoryItem(x))
<1>1. x.score \in Int /\ x.text \in U /\ x.cost \in Nat
  BY DEF Remembered
<1>2. PICK v \in Int : /\ v = Knowledge!Clamped(x.score * 10000, Knowledge!Whole)
                       /\ 0 <= v /\ v <= Knowledge!Whole
  BY SMT, <1>1 DEF Knowledge!Clamped, Knowledge!Whole
<1>3. MemoryItem(x) = [source |-> "memory", text |-> x.text, cost |-> x.cost,
                       native |-> v, rank |-> v]
  BY <1>2 DEF MemoryItem, Knowledge!Item
<1>. QED
  BY <1>1, <1>2, <1>3 DEF Items, Sources, RatedMemory, IsA

(* A goal's item stands above what is modest.                              *)
LEMMA GoalIs ==
  ASSUME NEW U, NEW x \in Goals(U)
  PROVE  GoalItem(x) \in Items(U) /\ RatedGoal(GoalItem(x))
<1>1. x.days \in Int /\ x.text \in U /\ x.cost \in Nat /\ x.priority \in {"low", "medium", "high"}
  BY DEF Goals
<1>2. PICK r \in 1..3 : r = Knowledge!PriorityRank[x.priority]
  BY <1>1 DEF Knowledge!PriorityRank
<1>3. PICK d \in Nat : d = Knowledge!DeadlineProximity(x.days)
  BY SMT, <1>1 DEF Knowledge!DeadlineProximity, Knowledge!Clamped, Knowledge!Whole
<1>4. PICK v \in Int : v = Knowledge!GoalScore(x) /\ ~Modest(v) /\ v <= Knowledge!Whole
  <2>1. Knowledge!GoalScore(x)
          = Knowledge!Clamped(Knowledge!Whole \div 2 + r * (Knowledge!Whole \div 10) + d \div 5,
                              Knowledge!Whole)
    BY <1>2, <1>3 DEF Knowledge!GoalScore
  <2>2. PICK e \in Nat : e = d \div 5
    BY SMT
  <2>3. Knowledge!Whole = 100000000 /\ Knowledge!Whole \div 2 = 50000000
        /\ Knowledge!Whole \div 10 = 10000000
    BY SMT DEF Knowledge!Whole
  <2>. QED
    BY SMT, <2>1, <2>2, <2>3 DEF Knowledge!Clamped, Modest
<1>5. GoalItem(x) = [source |-> "goal", text |-> x.text, cost |-> x.cost,
                     native |-> v, rank |-> v]
  BY <1>4 DEF GoalItem, Knowledge!Item
<1>. QED
  BY <1>1, <1>4, <1>5 DEF Items, Sources, RatedGoal, IsA

(* An excerpt's item has its share, and stands above the scale when        *)
(* attached.                                                               *)
LEMMA FileIs ==
  ASSUME NEW U, NEW c, c.files \in Seq(Excerpts(U)), NEW i \in 1..Len(c.files)
  PROVE  /\ FileItem(c, i) \in Items(U) /\ RatedFile(FileItem(c, i), c.attached)
         /\ FileItem(c, i).native = Knowledge!Decayed(Len(c.files))[i - 1]
<1>. DEFINE x == c.files[i]
<1>1. x.text \in U /\ x.cost \in Nat
  <2>1. x \in Excerpts(U)
    OBVIOUS
  <2>. QED
    BY <2>1 DEF Excerpts
<1>2. PICK v \in Nat : v = Knowledge!Decayed(Len(c.files))[i - 1]
  <2>1. PICK n \in Nat : n = Len(c.files)
    OBVIOUS
  <2>2. i - 1 \in 0..n
    BY <2>1
  <2>3. Knowledge!Decayed(n)[i - 1] \in Nat
    BY <2>2, DecaysDown DEF OnScale
  <2>. QED
    BY <2>1, <2>3
<1>3. PICK e \in Nat : e = IF c.attached THEN Knowledge!Whole ELSE 0
  BY SMT DEF Knowledge!Whole
<1>4. FileItem(c, i) = [source |-> "file", text |-> x.text, cost |-> x.cost,
                        native |-> v, rank |-> v + e]
  BY <1>2, <1>3 DEF FileItem, Knowledge!Item
<1>5. v + e \in Int /\ 0 <= v
  OBVIOUS
<1>6. FileItem(c, i) \in Items(U)
  BY <1>1, <1>4, <1>5 DEF Items, Sources
<1>7. /\ FileItem(c, i).source = "file" /\ FileItem(c, i).native = v
      /\ FileItem(c, i).rank = v + e
  BY <1>4
<1>. QED
  BY <1>2, <1>3, <1>5, <1>6, <1>7 DEF RatedFile, IsA

HitItem(x, v) == Knowledge!Item("search", x, v, v \div 2)
NamedHits(hits) == {i \in DOMAIN hits : hits[i].named}
HitsAt(hits, named) ==
  [n \in DOMAIN named |->
     HitItem(hits[named[n]], Knowledge!Decayed(Len(hits))[named[n] - 1])]

(* The items of a search are those of its named hits.                      *)
LEMMA SearchItemsAre ==
  ASSUME NEW hits
  PROVE  Knowledge!SearchItems(hits)
           = HitsAt(hits, Knowledge!Chosen(Len(hits), NamedHits(hits)))
  BY DEF Knowledge!SearchItems, HitsAt, HitItem, NamedHits

(* A hit's item is modest, and falls with its score.                       *)
LEMMA HitIs ==
  ASSUME NEW U, NEW x \in WebHits(U), NEW v, OnScale(v), NEW u, OnScale(u)
  PROVE  /\ HitItem(x, v) \in Items(U) /\ RatedHit(HitItem(x, v))
         /\ HitItem(x, v).native = v /\ HitItem(x, v).rank = v \div 2
         /\ v <= u => v \div 2 <= u \div 2
<1>1. x.text \in U /\ x.cost \in Nat
  BY DEF WebHits
<1>2. PICK h \in Nat : h = v \div 2 /\ Modest(h) /\ (v <= u => h <= u \div 2)
  BY SMT DEF OnScale, Modest
<1>3. v \in Nat
  BY DEF OnScale
<1>4. HitItem(x, v) = [source |-> "search", text |-> x.text, cost |-> x.cost,
                       native |-> v, rank |-> h]
  BY <1>2 DEF HitItem, Knowledge!Item
<1>5. HitItem(x, v) \in Items(U)
  BY <1>1, <1>2, <1>3, <1>4 DEF Items, Sources
<1>6. HitItem(x, v).source = "search" /\ HitItem(x, v).native = v /\ HitItem(x, v).rank = h
  BY <1>4
<1>. QED
  BY <1>2, <1>5, <1>6 DEF RatedHit, IsA

(* The items of a search are modest, and only fall.                        *)
LEMMA SearchIs ==
  ASSUME NEW U, NEW hits \in Seq(WebHits(U))
  PROVE  \E w \in Nat :
           /\ w = Len(Knowledge!SearchItems(hits))
           /\ Knowledge!SearchItems(hits) \in Seq(Items(U))
           /\ \A k \in 1..w : RatedHit(Knowledge!SearchItems(hits)[k])
           /\ \A j, k \in 1..w : j < k =>
                /\ Knowledge!SearchItems(hits)[k].native <= Knowledge!SearchItems(hits)[j].native
                /\ Knowledge!SearchItems(hits)[k].rank <= Knowledge!SearchItems(hits)[j].rank
<1>1. PICK n \in Nat : n = Len(hits) /\ DOMAIN hits = 1..n
  OBVIOUS
<1>2. PICK named : named = Knowledge!Chosen(n, NamedHits(hits))
  OBVIOUS
<1>3. PICK w \in Nat : /\ w = Len(named) /\ DOMAIN named = 1..w
                       /\ \A k \in 1..w : named[k] \in 1..n
                       /\ \A j, k \in 1..w : j < k => named[j] < named[k]
  BY <1>2, ChosenPlaces
<1>4. PICK found : found = Knowledge!SearchItems(hits)
  OBVIOUS
<1>. DEFINE v(k) == Knowledge!Decayed(n)[named[k] - 1]
<1>5. found = [k \in 1..w |-> HitItem(hits[named[k]], v(k))]
  BY <1>1, <1>2, <1>3, <1>4, SearchItemsAre DEF HitsAt
<1>6. ASSUME NEW k \in 1..w PROVE OnScale(v(k)) /\ hits[named[k]] \in WebHits(U)
  <2>1. named[k] - 1 \in 0..n /\ named[k] \in 1..n
    BY <1>3
  <2>. QED
    BY <1>1, <2>1, DecaysDown
<1>7. ASSUME NEW j \in 1..w, NEW k \in 1..w, j < k PROVE v(k) <= v(j)
  <2>1. PICK a \in 1..n, b \in 1..n : a = named[j] /\ b = named[k]
    BY <1>3
  <2>2. a < b
    BY <1>3, <1>7, <2>1
  <2>3. a - 1 \in 0..n /\ b - 1 \in 0..n /\ a - 1 <= b - 1
    BY <2>2
  <2>4. Knowledge!Decayed(n)[b - 1] <= Knowledge!Decayed(n)[a - 1]
    BY <2>3, DecaysDown
  <2>. QED
    BY <2>1, <2>4
<1>. HIDE DEF v
<1>8. ASSUME NEW k \in 1..w
      PROVE  /\ found[k] \in Items(U) /\ RatedHit(found[k])
             /\ found[k].native = v(k) /\ found[k].rank = v(k) \div 2
  <2>1. found[k] = HitItem(hits[named[k]], v(k))
    BY <1>5
  <2>2. OnScale(v(k)) /\ hits[named[k]] \in WebHits(U)
    BY <1>6
  <2>. QED
    BY <2>1, <2>2, HitIs
<1>9. \A j, k \in 1..w : j < k => v(k) \div 2 <= v(j) \div 2
  <2>. SUFFICES ASSUME NEW j \in 1..w, NEW k \in 1..w, j < k PROVE v(k) \div 2 <= v(j) \div 2
    OBVIOUS
  <2>1. OnScale(v(k)) /\ OnScale(v(j)) /\ hits[named[k]] \in WebHits(U) /\ v(k) <= v(j)
    BY <1>6, <1>7
  <2>. QED
    BY <2>1, HitIs
<1>10. \A j, k \in 1..w : j < k => /\ found[k].native <= found[j].native
                                  /\ found[k].rank <= found[j].rank
  BY <1>7, <1>8, <1>9
<1>11. Len(found) = w /\ found \in Seq(Items(U))
  <2>1. found = [k \in 1..w |-> found[k]]
    BY <1>5
  <2>2. found \in [1..w -> Items(U)]
    BY <1>8, <2>1
  <2>3. found \in Seq(Items(U))
    BY <2>2
  <2>. QED
    BY <2>2, <2>3
<1>. QED
  BY <1>4, <1>8, <1>10, <1>11

(* Four sequences, one after the other.                                    *)
LaidOut(A, s, u1, u2, u3, u4, a, b, c, d) ==
  /\ s \in Seq(A) /\ Len(s) = a + b + c + d
  /\ \A i \in 1..a : s[i] = u1[i]
  /\ \A i \in 1..b : s[a + i] = u2[i]
  /\ \A i \in 1..c : s[a + b + i] = u3[i]
  /\ \A i \in 1..d : s[a + b + c + i] = u4[i]

(* Four sequences concatenated are laid out so.                            *)
LEMMA LaysOut ==
  ASSUME NEW A, NEW u1 \in Seq(A), NEW u2 \in Seq(A), NEW u3 \in Seq(A), NEW u4 \in Seq(A)
  PROVE  LaidOut(A, u1 \o u2 \o u3 \o u4, u1, u2, u3, u4, Len(u1), Len(u2), Len(u3), Len(u4))
<1>1. PICK a \in Nat, b \in Nat, c \in Nat, d \in Nat :
        a = Len(u1) /\ b = Len(u2) /\ c = Len(u3) /\ d = Len(u4)
  OBVIOUS
<1>2. PICK v : v = u1 \o u2
  OBVIOUS
<1>3. Joins(A, v, u1, u2)
  BY <1>2, JoinsThem
<1>4. /\ v \in Seq(A) /\ Len(v) = a + b
      /\ \A i \in 1..a : v[i] = u1[i]
      /\ \A i \in 1..b : v[a + i] = u2[i]
  BY <1>1, <1>3 DEF Joins
<1>5. PICK w : w = v \o u3
  OBVIOUS
<1>6. Joins(A, w, v, u3)
  BY <1>4, <1>5, JoinsThem
<1>7. /\ w \in Seq(A) /\ Len(w) = a + b + c
      /\ \A i \in 1..(a + b) : w[i] = v[i]
      /\ \A i \in 1..c : w[a + b + i] = u3[i]
  BY <1>1, <1>4, <1>6 DEF Joins
<1>8. PICK s : s = w \o u4
  OBVIOUS
<1>9. Joins(A, s, w, u4)
  BY <1>7, <1>8, JoinsThem
<1>10. /\ s \in Seq(A) /\ Len(s) = a + b + c + d
       /\ \A i \in 1..(a + b + c) : s[i] = w[i]
       /\ \A i \in 1..d : s[a + b + c + i] = u4[i]
  BY <1>1, <1>7, <1>9 DEF Joins
<1>11. \A i \in 1..a : s[i] = u1[i]
  BY <1>4, <1>7, <1>10
<1>12. \A i \in 1..b : s[a + i] = u2[i]
  <2>. SUFFICES ASSUME NEW i \in 1..b PROVE s[a + i] = u2[i]
    OBVIOUS
  <2>1. PICK k \in 1..(a + b) : k = a + i
    OBVIOUS
  <2>2. k \in 1..(a + b + c)
    OBVIOUS
  <2>. QED
    BY <1>4, <1>7, <1>10, <2>1, <2>2
<1>13. \A i \in 1..c : s[a + b + i] = u3[i]
  <2>. SUFFICES ASSUME NEW i \in 1..c PROVE s[a + b + i] = u3[i]
    OBVIOUS
  <2>1. PICK k \in 1..(a + b + c) : k = a + b + i
    OBVIOUS
  <2>. QED
    BY <1>7, <1>10, <2>1
<1>14. s = u1 \o u2 \o u3 \o u4
  BY <1>2, <1>5, <1>8
<1>15. LaidOut(A, s, u1, u2, u3, u4, a, b, c, d)
  BY <1>10, <1>11, <1>12, <1>13 DEF LaidOut
<1>. QED
  BY <1>1, <1>14, <1>15

(* What the ranking needs to know of the items in their places.            *)
Rated(s, n, attached) ==
  /\ \A i \in 1..n : \/ RatedMemory(s[i]) \/ RatedGoal(s[i])
                     \/ RatedFile(s[i], attached) \/ RatedHit(s[i])
  /\ \A i, j \in 1..n : i < j /\ IsA("file", s[i]) /\ IsA("file", s[j]) =>
       s[j].native <= s[i].native
  /\ \A i, j \in 1..n : i < j /\ IsA("search", s[i]) /\ IsA("search", s[j]) =>
       s[j].native <= s[i].native /\ s[j].rank <= s[i].rank
InSources(c, s, m, g, f, w) ==
  /\ \A i \in 1..m : s[i] = MemoryItem(c.memories[i])
  /\ \A i \in 1..g : s[m + i] = GoalItem(c.goals[i])
  /\ \A i \in 1..f : s[m + g + i] = FileItem(c, i)
  /\ \A i \in 1..w : s[m + g + f + i] = Knowledge!SearchItems(c.search)[i]

(* The items of a context lie in the order of their sources.               *)
Lies(U, c, s, m, g, f, w) ==
  s \in Seq(Items(U)) /\ Len(s) = m + g + f + w /\ InSources(c, s, m, g, f, w)

(* A context's items lie so.                                               *)
LEMMA ScoredIs ==
  ASSUME NEW U, NEW c, Known(U, c)
  PROVE  Lies(U, c, Knowledge!ScoredItems(c), Len(c.memories), Len(c.goals),
              Len(c.files), Len(Knowledge!SearchItems(c.search)))
<1>0. PICK m \in Nat, g \in Nat, f \in Nat, w \in Nat :
        /\ m = Len(c.memories) /\ g = Len(c.goals)
        /\ f = Len(c.files) /\ w = Len(Knowledge!SearchItems(c.search))
  <2>1. c.search \in Seq(WebHits(U))
    BY DEF Known
  <2>2. Knowledge!SearchItems(c.search) \in Seq(Items(U))
    BY <2>1, SearchIs
  <2>. QED
    BY <2>2 DEF Known
<1>. DEFINE u1 == MemoryItems(c)
            u2 == GoalItems(c)
            u3 == FileItems(c)
            u4 == Knowledge!SearchItems(c.search)
            A == Items(U)
<1>1. u1 \in Seq(A) /\ Len(u1) = m /\ \A i \in 1..m : u1[i] = MemoryItem(c.memories[i])
  <2>1. \A i \in 1..m : MemoryItem(c.memories[i]) \in A
    <3>1. \A i \in 1..m : c.memories[i] \in Remembered(U)
      BY <1>0 DEF Known
    <3>. QED
      BY <3>1, MemoryIs
  <2>2. u1 = [i \in 1..m |-> MemoryItem(c.memories[i])]
    <3>1. DOMAIN c.memories = 1..m
      BY <1>0 DEF Known
    <3>. QED
      BY <3>1 DEF MemoryItems
  <2>. HIDE DEF A, u1
  <2>3. u1 \in [1..m -> A]
    BY <2>1, <2>2
  <2>4. u1 \in Seq(A)
    BY <2>3
  <2>. QED
    BY <2>2, <2>3, <2>4
<1>2. u2 \in Seq(A) /\ Len(u2) = g /\ \A i \in 1..g : u2[i] = GoalItem(c.goals[i])
  <2>1. \A i \in 1..g : GoalItem(c.goals[i]) \in A
    <3>1. \A i \in 1..g : c.goals[i] \in Goals(U)
      BY <1>0 DEF Known
    <3>. QED
      BY <3>1, GoalIs
  <2>2. u2 = [i \in 1..g |-> GoalItem(c.goals[i])]
    <3>1. DOMAIN c.goals = 1..g
      BY <1>0 DEF Known
    <3>. QED
      BY <3>1 DEF GoalItems
  <2>. HIDE DEF A, u2
  <2>3. u2 \in [1..g -> A]
    BY <2>1, <2>2
  <2>4. u2 \in Seq(A)
    BY <2>3
  <2>. QED
    BY <2>2, <2>3, <2>4
<1>3. u3 \in Seq(A) /\ Len(u3) = f /\ \A i \in 1..f : u3[i] = FileItem(c, i)
  <2>1. \A i \in 1..f : FileItem(c, i) \in A
    <3>1. c.files \in Seq(Excerpts(U))
      BY DEF Known
    <3>. QED
      BY <1>0, <3>1, FileIs
  <2>2. u3 = [i \in 1..f |-> FileItem(c, i)]
    <3>1. DOMAIN c.files = 1..f
      BY <1>0 DEF Known
    <3>. QED
      BY <3>1 DEF FileItems
  <2>. HIDE DEF A, u3
  <2>3. u3 \in [1..f -> A]
    BY <2>1, <2>2
  <2>4. u3 \in Seq(A)
    BY <2>3
  <2>. QED
    BY <2>2, <2>3, <2>4
<1>4. u4 \in Seq(A) /\ Len(u4) = w
  <2>1. c.search \in Seq(WebHits(U))
    BY DEF Known
  <2>. QED
    BY <1>0, <2>1, SearchIs
<1>5. PICK s : s = Knowledge!ScoredItems(c)
  OBVIOUS
<1>. HIDE DEF u1, u2, u3, u4, A
<1>6. LaidOut(A, u1 \o u2 \o u3 \o u4, u1, u2, u3, u4, Len(u1), Len(u2), Len(u3), Len(u4))
  BY <1>1, <1>2, <1>3, <1>4, LaysOut
<1>7. s = u1 \o u2 \o u3 \o u4
  BY <1>5, ScoredItemsAre DEF u1, u2, u3, u4
<1>8. LaidOut(A, s, u1, u2, u3, u4, m, g, f, w)
  BY <1>1, <1>2, <1>3, <1>4, <1>6, <1>7
<1>9. s \in Seq(A) /\ Len(s) = m + g + f + w
  BY <1>8 DEF LaidOut
<1>10. InSources(c, s, m, g, f, w)
  <2>1. \A i \in 1..m : s[i] = MemoryItem(c.memories[i])
    BY <1>1, <1>8 DEF LaidOut
  <2>2. \A i \in 1..g : s[m + i] = GoalItem(c.goals[i])
    BY <1>2, <1>8 DEF LaidOut
  <2>3. \A i \in 1..f : s[m + g + i] = FileItem(c, i)
    BY <1>3, <1>8 DEF LaidOut
  <2>4. \A i \in 1..w : s[m + g + f + i] = Knowledge!SearchItems(c.search)[i]
    BY <1>8 DEF LaidOut, u4
  <2>. QED
    BY <2>1, <2>2, <2>3, <2>4 DEF InSources
<1>11. Lies(U, c, s, m, g, f, w)
  BY <1>9, <1>10 DEF Lies, A
<1>. QED
  BY <1>0, <1>5, <1>11

(* A place among four stretches.                                           *)
LEMMA Stretch ==
  ASSUME NEW m \in Nat, NEW g \in Nat, NEW f \in Nat, NEW w \in Nat,
         NEW i \in 1..(m + g + f + w)
  PROVE  \/ i \in 1..m
         \/ \E k \in 1..g : i = m + k
         \/ \E k \in 1..f : i = m + g + k
         \/ \E k \in 1..w : i = m + g + f + k
<1>1. CASE i <= m
  BY <1>1
<1>2. CASE m < i /\ i <= m + g
  <2>1. i - m \in 1..g /\ i = m + (i - m)
    BY <1>2
  <2>. QED
    BY <2>1
<1>3. CASE m + g < i /\ i <= m + g + f
  <2>1. i - (m + g) \in 1..f /\ i = m + g + (i - (m + g))
    BY <1>3
  <2>. QED
    BY <2>1
<1>4. CASE m + g + f < i
  <2>1. i - (m + g + f) \in 1..w /\ i = m + g + f + (i - (m + g + f))
    BY <1>4
  <2>. QED
    BY <2>1
<1>. QED
  BY <1>1, <1>2, <1>3, <1>4

(* An item is of one source.                                               *)
LEMMA OneSource ==
  ASSUME NEW x
  PROVE  /\ RatedMemory(x) => ~IsA("file", x) /\ ~IsA("search", x) /\ ~IsA("goal", x)
         /\ RatedGoal(x) => ~IsA("file", x) /\ ~IsA("search", x) /\ ~IsA("memory", x)
         /\ \A attached : RatedFile(x, attached) =>
              IsA("file", x) /\ ~IsA("search", x) /\ ~IsA("goal", x)
         /\ RatedHit(x) => IsA("search", x) /\ ~IsA("file", x)
  BY DEF RatedMemory, RatedGoal, RatedFile, RatedHit, IsA

(* The items of a context are rated by their sources.                      *)
LEMMA ScoredIsRated ==
  ASSUME NEW U, NEW c, Known(U, c)
  PROVE  Rated(Knowledge!ScoredItems(c), Len(Knowledge!ScoredItems(c)), c.attached)
<1>1. PICK m \in Nat, g \in Nat, f \in Nat :
        m = Len(c.memories) /\ g = Len(c.goals) /\ f = Len(c.files)
  BY DEF Known
<1>2. PICK found : found = Knowledge!SearchItems(c.search)
  OBVIOUS
<1>3. PICK w \in Nat :
        /\ w = Len(found)
        /\ \A k \in 1..w : RatedHit(found[k])
        /\ \A j, k \in 1..w : j < k =>
             found[k].native <= found[j].native /\ found[k].rank <= found[j].rank
  <2>1. c.search \in Seq(WebHits(U))
    BY DEF Known
  <2>. QED
    BY <1>2, <2>1, SearchIs
<1>4. PICK s : s = Knowledge!ScoredItems(c)
  OBVIOUS
<1>5. PICK n \in Nat : n = Len(s) /\ n = m + g + f + w /\ InSources(c, s, m, g, f, w)
  <2>1. Lies(U, c, s, m, g, f, w)
    BY <1>1, <1>2, <1>3, <1>4, ScoredIs
  <2>. QED
    BY <2>1 DEF Lies
<1>6. /\ \A i \in 1..m : RatedMemory(s[i])
      /\ \A i \in 1..g : RatedGoal(s[m + i])
      /\ \A i \in 1..f : RatedFile(s[m + g + i], c.attached)
      /\ \A i \in 1..w : RatedHit(s[m + g + f + i])
  <2>1. ASSUME NEW i \in 1..m PROVE RatedMemory(s[i])
    <3>1. c.memories[i] \in Remembered(U)
      BY <1>1 DEF Known
    <3>. QED
      BY <1>5, <3>1, MemoryIs DEF InSources
  <2>2. ASSUME NEW i \in 1..g PROVE RatedGoal(s[m + i])
    <3>1. c.goals[i] \in Goals(U)
      BY <1>1 DEF Known
    <3>. QED
      BY <1>5, <3>1, GoalIs DEF InSources
  <2>3. ASSUME NEW i \in 1..f PROVE RatedFile(s[m + g + i], c.attached)
    <3>1. c.files \in Seq(Excerpts(U)) /\ i \in 1..Len(c.files)
      BY <1>1 DEF Known
    <3>2. RatedFile(FileItem(c, i), c.attached)
      BY <3>1, FileIs
    <3>. QED
      BY <1>5, <3>2 DEF InSources
  <2>4. ASSUME NEW i \in 1..w PROVE RatedHit(s[m + g + f + i])
    BY <1>2, <1>3, <1>5 DEF InSources
  <2>. QED
    BY <2>1, <2>2, <2>3, <2>4
<1>7. ASSUME NEW i \in 1..n
      PROVE  \/ RatedMemory(s[i]) \/ RatedGoal(s[i])
             \/ \E k \in 1..f : i = m + g + k
             \/ \E k \in 1..w : i = m + g + f + k
  BY <1>5, <1>6, Stretch
<1>8. ASSUME NEW i \in 1..n
      PROVE  \/ RatedMemory(s[i]) \/ RatedGoal(s[i])
             \/ RatedFile(s[i], c.attached) \/ RatedHit(s[i])
  BY <1>6, <1>7
<1>9. ASSUME NEW i \in 1..n, IsA("file", s[i]) PROVE \E k \in 1..f : i = m + g + k
  <2>1. ~RatedMemory(s[i]) /\ ~RatedGoal(s[i]) /\ ~RatedHit(s[i])
    BY <1>9, OneSource
  <2>. QED
    BY <1>6, <1>7, <2>1
<1>10. ASSUME NEW i \in 1..n, IsA("search", s[i]) PROVE \E k \in 1..w : i = m + g + f + k
  <2>1. ~RatedMemory(s[i]) /\ ~RatedGoal(s[i]) /\ ~RatedFile(s[i], c.attached)
    BY <1>10, OneSource
  <2>. QED
    BY <1>6, <1>7, <2>1
<1>11. ASSUME NEW i \in 1..n, NEW j \in 1..n, i < j, IsA("file", s[i]), IsA("file", s[j])
       PROVE  s[j].native <= s[i].native
  <2>1. PICK a \in 1..f, b \in 1..f : i = m + g + a /\ j = m + g + b
    BY <1>9, <1>11
  <2>2. s[i] = FileItem(c, a) /\ s[j] = FileItem(c, b)
    BY <1>5, <2>1 DEF InSources
  <2>3. /\ s[i].native = Knowledge!Decayed(f)[a - 1]
        /\ s[j].native = Knowledge!Decayed(f)[b - 1]
    <3>1. c.files \in Seq(Excerpts(U))
      BY DEF Known
    <3>. QED
      BY <1>1, <2>2, <3>1, FileIs
  <2>4. a - 1 \in 0..f /\ b - 1 \in 0..f /\ a - 1 <= b - 1
    BY <1>11, <2>1
  <2>5. Knowledge!Decayed(f)[b - 1] <= Knowledge!Decayed(f)[a - 1]
    BY <2>4, DecaysDown
  <2>. QED
    BY <2>3, <2>5
<1>12. ASSUME NEW i \in 1..n, NEW j \in 1..n, i < j, IsA("search", s[i]), IsA("search", s[j])
       PROVE  s[j].native <= s[i].native /\ s[j].rank <= s[i].rank
  <2>1. PICK a \in 1..w, b \in 1..w : i = m + g + f + a /\ j = m + g + f + b
    BY <1>10, <1>12
  <2>2. s[i] = found[a] /\ s[j] = found[b]
    BY <1>2, <1>5, <2>1 DEF InSources
  <2>3. a < b
    BY <1>12, <2>1
  <2>. QED
    BY <1>3, <2>2, <2>3
<1>. QED
  BY <1>4, <1>5, <1>8, <1>11, <1>12 DEF Rated

(* Items outrank each other by their rank, then by their source, and then  *)
(* by their native score.                                                  *)
Tie(x) == Knowledge!TieBreak[x.source]
Higher(r, t, v, a, b) ==
  \/ r[a] > r[b]
  \/ r[a] = r[b] /\ t[a] > t[b]
  \/ r[a] = r[b] /\ t[a] = t[b] /\ v[a] > v[b]
Outranking(s) == {p \in (1..Len(s)) \X (1..Len(s)) : Knowledge!Outranks(s[p[1]], s[p[2]])}

(* The ranking of a context, by the places of its items.                   *)
LEMMA RankIs ==
  ASSUME NEW c
  PROVE  LET s == Knowledge!ScoredItems(c)
         IN  Knowledge!Rank(c) = Knowledge!Taken(s, Knowledge!InOrder(Len(s), Outranking(s)))
  BY DEF Knowledge!Rank, Knowledge!Sorted, Knowledge!Pairs, Outranking

(* No two sources tie.                                                     *)
LEMMA TiesAre ==
  ASSUME NEW U, NEW x \in Items(U), NEW y \in Items(U)
  PROVE  /\ Tie(x) \in 0..3 /\ (Tie(x) = Tie(y) <=> x.source = y.source)
         /\ IsA("file", x) <=> Tie(x) = 3
         /\ IsA("search", x) <=> Tie(x) = 0
         /\ Knowledge!Outranks(x, y) <=>
              \/ x.rank > y.rank
              \/ x.rank = y.rank /\ Tie(x) > Tie(y)
              \/ x.rank = y.rank /\ Tie(x) = Tie(y) /\ x.native > y.native
         /\ x.rank \in Int /\ x.native \in Int
<1>1. x.source \in Sources /\ y.source \in Sources /\ x.rank \in Int /\ x.native \in Int
  BY DEF Items
<1>2. /\ Tie(x) \in 0..3 /\ (Tie(x) = Tie(y) <=> x.source = y.source)
      /\ IsA("file", x) <=> Tie(x) = 3
      /\ IsA("search", x) <=> Tie(x) = 0
  BY <1>1 DEF Sources, Tie, Knowledge!TieBreak, IsA
<1>. QED
  BY <1>1, <1>2 DEF Knowledge!Outranks, Tie

(* That is an order that sorts.                                            *)
LEMMA OutranksSorts ==
  ASSUME NEW U, NEW s \in Seq(Items(U)), NEW n \in Nat, n = Len(s)
  PROVE  Sorts(n, Outranking(s))
<1>. DEFINE r == [i \in 1..n |-> s[i].rank]
            t == [i \in 1..n |-> Tie(s[i])]
            v == [i \in 1..n |-> s[i].native]
<1>1. \A i \in 1..n : s[i] \in Items(U)
  OBVIOUS
<1>2. \A i \in 1..n : r[i] \in Int /\ t[i] \in Int /\ v[i] \in Int
  <2>. SUFFICES ASSUME NEW i \in 1..n PROVE r[i] \in Int /\ t[i] \in Int /\ v[i] \in Int
    OBVIOUS
  <2>1. Tie(s[i]) \in 0..3 /\ s[i].rank \in Int /\ s[i].native \in Int
    BY <1>1, TiesAre
  <2>. QED
    BY <2>1
<1>3. \A a, b \in 1..n : <<a, b>> \in Outranking(s) <=> Higher(r, t, v, a, b)
  <2>. SUFFICES ASSUME NEW a \in 1..n, NEW b \in 1..n
                PROVE  <<a, b>> \in Outranking(s) <=> Higher(r, t, v, a, b)
    OBVIOUS
  <2>1. <<a, b>> \in Outranking(s) <=> Knowledge!Outranks(s[a], s[b])
    BY DEF Outranking
  <2>2. Knowledge!Outranks(s[a], s[b]) <=>
          \/ s[a].rank > s[b].rank
          \/ s[a].rank = s[b].rank /\ Tie(s[a]) > Tie(s[b])
          \/ s[a].rank = s[b].rank /\ Tie(s[a]) = Tie(s[b]) /\ s[a].native > s[b].native
    BY <1>1, TiesAre
  <2>. QED
    BY <2>1, <2>2 DEF Higher
<1>. HIDE DEF r, t, v
<1>4. \A a, b \in 1..n : Higher(r, t, v, a, b) => ~Higher(r, t, v, b, a)
  BY <1>2 DEF Higher
<1>5. \A a, b, e \in 1..n :
        Higher(r, t, v, a, b) => Higher(r, t, v, a, e) \/ Higher(r, t, v, e, b)
  <2>. SUFFICES ASSUME NEW a \in 1..n, NEW b \in 1..n, NEW e \in 1..n, Higher(r, t, v, a, b)
                PROVE  Higher(r, t, v, a, e) \/ Higher(r, t, v, e, b)
    OBVIOUS
  <2>1. /\ r[a] \in Int /\ r[b] \in Int /\ r[e] \in Int
        /\ t[a] \in Int /\ t[b] \in Int /\ t[e] \in Int
        /\ v[a] \in Int /\ v[b] \in Int /\ v[e] \in Int
    BY <1>2
  <2>. QED
    <3>1. PICK ra, rb, re, ta, tb, te, va, vb, ve \in Int :
            /\ ra = r[a] /\ rb = r[b] /\ re = r[e]
            /\ ta = t[a] /\ tb = t[b] /\ te = t[e]
            /\ va = v[a] /\ vb = v[b] /\ ve = v[e]
      BY <2>1
    <3>2. \/ ra > rb
          \/ ra = rb /\ ta > tb
          \/ ra = rb /\ ta = tb /\ va > vb
      BY <3>1 DEF Higher
    <3>3. \/ \/ ra > re
             \/ ra = re /\ ta > te
             \/ ra = re /\ ta = te /\ va > ve
          \/ \/ re > rb
             \/ re = rb /\ te > tb
             \/ re = rb /\ te = tb /\ ve > vb
      BY <3>2
    <3>. QED
      BY <3>1, <3>3 DEF Higher
<1>. QED
  BY <1>3, <1>4, <1>5 DEF Sorts

(* What is kept of a sorted sequence are the places kept, sorted.          *)
KeptPlaces(order, n, Q) ==
  Knowledge!Taken(order, Knowledge!Chosen(n, {k \in 1..n : order[k] \in Q}))

(* What is kept is in order, and all of it.                                *)
LEMMA KeptInOrder ==
  ASSUME NEW n \in Nat, NEW over, Sorts(n, over), NEW Q \in SUBSET (1..n)
  PROVE  LET q == KeptPlaces(Knowledge!InOrder(n, over), n, Q)
         IN  q \in Seq(1..n) /\ Elements(q) = Q /\ Stable(q, over)
<1>1. PICK order : order = Knowledge!InOrder(n, over)
  OBVIOUS
<1>2. order \in Seq(1..n) /\ Len(order) = n /\ Stable(order, over) /\ Elements(order) = 1..n
  BY <1>1, InOrderIs
<1>. DEFINE P == {k \in 1..n : order[k] \in Q}
<1>3. PICK c : c = Knowledge!Chosen(n, P)
  OBVIOUS
<1>4. PICK m \in Nat : /\ m = Len(c) /\ DOMAIN c = 1..m
                       /\ \A k \in 1..m : c[k] \in 1..n /\ c[k] \in P
                       /\ \A j, k \in 1..m : j < k => c[j] < c[k]
                       /\ \A i \in P \cap (1..n) : \E k \in 1..m : c[k] = i
  <2>. HIDE DEF P
  <2>. QED
    BY <1>3, ChosenPlaces
<1>5. PICK q : q = [k \in 1..m |-> order[c[k]]]
  OBVIOUS
<1>6. q = KeptPlaces(order, n, Q)
  BY <1>3, <1>4, <1>5 DEF KeptPlaces, Knowledge!Taken
<1>7. \A k \in 1..n : order[k] \in 1..n
  BY <1>2
<1>8. q \in Seq(1..n) /\ Len(q) = m
  <2>1. q \in [1..m -> 1..n]
    BY <1>4, <1>5, <1>7
  <2>. QED
    BY <2>1
<1>9. \A k \in 1..m : q[k] \in Q
  BY <1>4, <1>5
<1>10. \A i \in Q : \E k \in 1..m : q[k] = i
  <2>. SUFFICES ASSUME NEW i \in Q PROVE \E k \in 1..m : q[k] = i
    OBVIOUS
  <2>1. i \in Elements(order)
    BY <1>2
  <2>2. PICK j \in 1..n : order[j] = i
    BY <1>2, <2>1 DEF Elements
  <2>3. PICK k \in 1..m : c[k] = j
    BY <1>4, <2>2
  <2>. QED
    BY <1>5, <2>2, <2>3
<1>11. Elements(q) = Q
  BY <1>8, <1>9, <1>10 DEF Elements
<1>12. Stable(q, over)
  <2>. SUFFICES ASSUME NEW i \in 1..m, NEW j \in 1..m, i < j
                PROVE  <<q[j], q[i]>> \notin over /\ (<<q[i], q[j]>> \in over \/ q[i] < q[j])
    BY <1>8 DEF Stable
  <2>1. PICK a \in 1..n, b \in 1..n : a = c[i] /\ b = c[j] /\ a < b
    BY <1>4
  <2>2. /\ <<order[b], order[a]>> \notin over
        /\ <<order[a], order[b]>> \in over \/ order[a] < order[b]
    BY <1>2, <2>1 DEF Stable
  <2>. QED
    BY <1>5, <2>1, <2>2
<1>. QED
  BY <1>1, <1>6, <1>8, <1>11, <1>12

(* Places on which one order follows the other are kept alike by both.     *)
LEMMA KeptAlike ==
  ASSUME NEW n \in Nat, NEW over, Sorts(n, over), NEW other, Sorts(n, other),
         NEW Q \in SUBSET (1..n), \A a, b \in Q : <<a, b>> \in over <=> <<a, b>> \in other
  PROVE  KeptPlaces(Knowledge!InOrder(n, over), n, Q)
           = KeptPlaces(Knowledge!InOrder(n, other), n, Q)
<1>1. PICK q, p : /\ q = KeptPlaces(Knowledge!InOrder(n, over), n, Q)
                  /\ p = KeptPlaces(Knowledge!InOrder(n, other), n, Q)
  OBVIOUS
<1>2. /\ q \in Seq(1..n) /\ Elements(q) = Q /\ Stable(q, over)
      /\ p \in Seq(1..n) /\ Elements(p) = Q /\ Stable(p, other)
  BY <1>1, KeptInOrder
<1>. DEFINE before == {e \in (1..n) \X (1..n) :
                         e \in over \/ (<<e[2], e[1]>> \notin over /\ e[1] < e[2])}
<1>3. \A a, b \in 1..n : <<a, b>> \in before <=>
        <<a, b>> \in over \/ (<<b, a>> \notin over /\ a < b)
  OBVIOUS
<1>. HIDE DEF before
<1>4. \A a, b \in 1..n : <<a, b>> \in before => <<b, a>> \notin before
  BY <1>3 DEF Sorts
<1>5. \A i, j \in 1..Len(q) : i < j => <<q[i], q[j]>> \in before
  <2>1. \A i \in 1..Len(q) : q[i] \in 1..n
    BY <1>2
  <2>. QED
    BY <1>2, <1>3, <2>1 DEF Stable
<1>6. \A i, j \in 1..Len(p) : i < j => <<p[i], p[j]>> \in before
  <2>1. \A i \in 1..Len(p) : p[i] \in 1..n /\ p[i] \in Q
    BY <1>2 DEF Elements
  <2>. QED
    BY <1>2, <1>3, <2>1 DEF Stable
<1>7. q = p
  BY <1>2, <1>4, <1>5, <1>6, OneOrder
<1>. QED
  BY <1>1, <1>7

(* Places that the order leaves as they stand are kept as they stand.      *)
LEMMA KeptAsTheyStand ==
  ASSUME NEW n \in Nat, NEW over, Sorts(n, over), NEW Q \in SUBSET (1..n),
         \A a, b \in Q : <<a, b>> \in over => a < b
  PROVE  KeptPlaces(Knowledge!InOrder(n, over), n, Q) = Knowledge!Chosen(n, Q)
<1>1. PICK q, c : /\ q = KeptPlaces(Knowledge!InOrder(n, over), n, Q)
                  /\ c = Knowledge!Chosen(n, Q)
  OBVIOUS
<1>2. q \in Seq(1..n) /\ Elements(q) = Q /\ Stable(q, over)
  BY <1>1, KeptInOrder
<1>3. c \in Seq(1..n) /\ Elements(c) = Q /\ Increasing(c)
  <2>1. Q \cap (1..n) = Q
    OBVIOUS
  <2>. QED
    BY <1>1, <2>1, ChosenIs
<1>4. Increasing(q)
  <2>. SUFFICES ASSUME NEW i \in 1..Len(q), NEW j \in 1..Len(q), i < j PROVE q[i] < q[j]
    BY DEF Increasing
  <2>1. q[i] \in Q /\ q[j] \in Q
    BY <1>2 DEF Elements
  <2>2. <<q[i], q[j]>> \in over \/ q[i] < q[j]
    BY <1>2 DEF Stable
  <2>. QED
    BY <2>1, <2>2
<1>5. q = c
  BY <1>2, <1>3, <1>4, OneIncreasing
<1>. QED
  BY <1>1, <1>5

(* What of an item and one that does not outrank it.                       *)
Small(v) == ~(v >= 30000000)
InItsTurn(attached, x, y) ==
  /\ attached /\ y.source = "file" => x.source = "file"
  /\ \/ y.source = "goal"
     \/ y.source # "search" /\ ~Small(y.native)
     => x.source # "search"
RatedItem(x, attached) ==
  RatedMemory(x) \/ RatedGoal(x) \/ RatedFile(x, attached) \/ RatedHit(x)

(* The numbers of the scale.                                               *)
LEMMA ScaleIs ==
  /\ Knowledge!Whole \in Nat
  /\ \A v \in Int : Modest(v) => v < Knowledge!Whole
  /\ \A u, v \in Int : u < v /\ Modest(v) => Small(u)
  /\ \A u, v \in Int : ~Modest(u) /\ Modest(v) => u > v
  BY SMT DEF Knowledge!Whole, Modest, Small

(* What is not outranked takes its turn.                                   *)
LEMMA TakesItsTurn ==
  ASSUME NEW U, NEW x \in Items(U), NEW y \in Items(U), NEW attached \in BOOLEAN,
         RatedItem(x, attached), RatedItem(y, attached), ~Knowledge!Outranks(y, x)
  PROVE  InItsTurn(attached, x, y)
<1>1. PICK r, q, v, t, u : r = x.rank /\ q = y.rank /\ v = y.native /\ t = Tie(x) /\ u = Tie(y)
  OBVIOUS
<1>2. r \in Int /\ q \in Int /\ v \in Int /\ t \in 0..3 /\ u \in 0..3
  BY <1>1, TiesAre
<1>3. /\ ~(q > r)
      /\ ~(q = r /\ u > t)
  BY <1>1, TiesAre
<1>4. PICK whole \in Nat : whole = Knowledge!Whole
  BY ScaleIs
<1>5. ASSUME attached, IsA("file", y) PROVE IsA("file", x)
  <2>. SUFFICES ASSUME ~IsA("file", x) PROVE FALSE
    OBVIOUS
  <2>1. r <= whole
    <3>1. RatedMemory(x) \/ RatedGoal(x) \/ RatedHit(x)
      BY OneSource DEF RatedItem
    <3>2. RatedMemory(x) => r <= whole
      BY <1>1, <1>4 DEF RatedMemory
    <3>3. RatedGoal(x) => r <= whole
      BY <1>1, <1>4 DEF RatedGoal
    <3>4. RatedHit(x) => r <= whole
      BY <1>1, <1>2, <1>4, ScaleIs DEF RatedHit
    <3>. QED
      BY <3>1, <3>2, <3>3, <3>4
  <2>2. RatedFile(y, attached)
    BY <1>5, OneSource DEF RatedItem
  <2>3. q >= whole
    <3>1. 0 <= v /\ q = v + whole
      BY <1>1, <1>4, <1>5, <2>2 DEF RatedFile
    <3>. QED
      BY <1>2, <1>4, <3>1
  <2>4. u = 3 /\ t # 3
    BY <1>1, <1>5, TiesAre
  <2>. QED
    BY <1>2, <1>3, <1>4, <2>1, <2>3, <2>4
<1>6. ASSUME IsA("search", x), ~IsA("search", y)
      PROVE  ~IsA("goal", y) /\ Small(v)
  <2>1. Modest(r)
    <3>1. RatedHit(x)
      BY <1>6, OneSource DEF RatedItem
    <3>. QED
      BY <1>1, <3>1 DEF RatedHit
  <2>2. t = 0 /\ u # 0
    BY <1>1, <1>6, TiesAre
  <2>3. q < r
    BY <1>2, <1>3, <2>2
  <2>4. ~RatedGoal(y)
    <3>1. RatedGoal(y) => ~Modest(q)
      BY <1>1 DEF RatedGoal
    <3>. QED
      BY <1>2, <2>1, <2>3, <3>1, ScaleIs
  <2>5. RatedMemory(y) \/ RatedFile(y, attached)
    BY <1>6, <2>4, OneSource DEF RatedItem
  <2>6. v <= q
    <3>1. CASE RatedMemory(y)
      BY <1>1, <1>2, <3>1 DEF RatedMemory
    <3>2. CASE RatedFile(y, attached)
      <4>1. q = v + IF attached THEN whole ELSE 0
        BY <1>1, <1>4, <3>2 DEF RatedFile
      <4>. QED
        BY <1>2, <1>4, <4>1
    <3>. QED
      BY <2>5, <3>1, <3>2
  <2>7. v < r
    BY <1>2, <2>3, <2>6
  <2>8. Small(v)
    BY <1>2, <2>1, <2>7, ScaleIs
  <2>9. ~IsA("goal", y)
    BY <2>5, OneSource
  <2>. QED
    BY <2>8, <2>9
<1>. QED
  BY <1>1, <1>5, <1>6 DEF InItsTurn, IsA

(* What a comprehension keeps of what has been sorted.                     *)
Among(items, S) ==
  Knowledge!Taken(items, Knowledge!Chosen(Len(items), {i \in DOMAIN items : items[i] \in S}))

(* It keeps the places of what it keeps.                                   *)
LEMMA AmongSorted ==
  ASSUME NEW A, NEW s \in Seq(A), NEW n \in Nat, Len(s) = n,
         NEW order \in Seq(1..n), Len(order) = n, NEW S
  PROVE  Among(Knowledge!Taken(s, order), S)
           = Knowledge!Taken(s, KeptPlaces(order, n, {i \in 1..n : s[i] \in S}))
<1>. DEFINE Q == {i \in 1..n : s[i] \in S}
<1>1. PICK r : r = [k \in 1..n |-> s[order[k]]]
  OBVIOUS
<1>2. \A k \in 1..n : order[k] \in 1..n
  OBVIOUS
<1>3. r = Knowledge!Taken(s, order)
  <2>1. DOMAIN order = 1..n
    OBVIOUS
  <2>. QED
    BY <1>1, <2>1 DEF Knowledge!Taken
<1>4. DOMAIN r = 1..n /\ Len(r) = n
  BY <1>1
<1>5. {i \in DOMAIN r : r[i] \in S} = {k \in 1..n : order[k] \in Q}
  BY <1>1, <1>2
<1>6. PICK P : P = {k \in 1..n : order[k] \in Q}
  OBVIOUS
<1>7. PICK c : c = Knowledge!Chosen(n, P)
  OBVIOUS
<1>8. PICK m \in Nat : DOMAIN c = 1..m /\ \A k \in 1..m : c[k] \in 1..n
  BY <1>7, ChosenPlaces
<1>9. Among(r, S) = [k \in 1..m |-> r[c[k]]]
  <2>1. {i \in DOMAIN r : r[i] \in S} = P
    BY <1>5, <1>6
  <2>2. Among(r, S) = Knowledge!Taken(r, c)
    BY <1>4, <1>7, <2>1 DEF Among
  <2>. QED
    BY <1>8, <2>2 DEF Knowledge!Taken
<1>10. KeptPlaces(order, n, Q) = [k \in 1..m |-> order[c[k]]]
  BY <1>6, <1>7, <1>8 DEF KeptPlaces, Knowledge!Taken
<1>11. Knowledge!Taken(s, KeptPlaces(order, n, Q)) = [k \in 1..m |-> s[order[c[k]]]]
  <2>1. PICK p : p = KeptPlaces(order, n, Q)
    OBVIOUS
  <2>2. DOMAIN p = 1..m /\ \A k \in 1..m : p[k] = order[c[k]]
    BY <1>10, <2>1
  <2>3. Knowledge!Taken(s, p) = [k \in 1..m |-> s[p[k]]]
    BY <2>2 DEF Knowledge!Taken
  <2>. QED
    BY <2>1, <2>2, <2>3
<1>12. [k \in 1..m |-> r[c[k]]] = [k \in 1..m |-> s[order[c[k]]]]
  <2>1. \A k \in 1..m : r[c[k]] = s[order[c[k]]]
    BY <1>1, <1>8
  <2>. QED
    BY <2>1
<1>. QED
  BY <1>3, <1>9, <1>11, <1>12

(* The places of a context's items of one source, or of the others.        *)
FromSource(U, source) == {x \in Items(U) : x.source = source}
NotFrom(U, source) == {x \in Items(U) : x.source # source}

(* The comprehensions of the ranking keep what is of a source, or is not.  *)
LEMMA OfSource ==
  ASSUME NEW U, NEW items \in Seq(Items(U)), NEW source
  PROVE  /\ Knowledge!Taken(items, Knowledge!Chosen(Len(items),
                 {i \in DOMAIN items : items[i].source = source}))
              = Among(items, FromSource(U, source))
         /\ Knowledge!Taken(items, Knowledge!Chosen(Len(items),
                 {i \in DOMAIN items : items[i].source # source}))
              = Among(items, NotFrom(U, source))
<1>1. \A i \in DOMAIN items : items[i] \in Items(U)
  OBVIOUS
<1>2. {i \in DOMAIN items : items[i].source = source}
        = {i \in DOMAIN items : items[i] \in FromSource(U, source)}
  BY <1>1 DEF FromSource
<1>3. {i \in DOMAIN items : items[i].source # source}
        = {i \in DOMAIN items : items[i] \in NotFrom(U, source)}
  BY <1>1 DEF NotFrom
<1>. QED
  BY <1>2, <1>3 DEF Among

(* A context's items and their ranking.                                    *)
RankedBy(U, c, s, n, order) ==
  /\ s = Knowledge!ScoredItems(c) /\ s \in Seq(Items(U)) /\ n \in Nat /\ n = Len(s)
  /\ order = Knowledge!InOrder(n, Outranking(s)) /\ Sorts(n, Outranking(s))
  /\ Knowledge!Rank(c) = Knowledge!Taken(s, order)
  /\ order \in Seq(1..n) /\ Len(order) = n /\ Stable(order, Outranking(s))
  /\ Rated(s, n, c.attached)

(* The ranking is so.                                                      *)
LEMMA RankedSo ==
  ASSUME NEW U, NEW c, Known(U, c)
  PROVE  LET s == Knowledge!ScoredItems(c)
         IN  RankedBy(U, c, s, Len(s), Knowledge!InOrder(Len(s), Outranking(s)))
<1>1. PICK s : s = Knowledge!ScoredItems(c)
  OBVIOUS
<1>2. s \in Seq(Items(U))
  BY <1>1, ScoredIs DEF Lies
<1>3. PICK n \in Nat : n = Len(s)
  BY <1>2
<1>4. Sorts(n, Outranking(s))
  BY <1>2, <1>3, OutranksSorts
<1>5. PICK order : order = Knowledge!InOrder(n, Outranking(s))
  OBVIOUS
<1>6. order \in Seq(1..n) /\ Len(order) = n /\ Stable(order, Outranking(s))
  BY <1>4, <1>5, InOrderIs
<1>7. Knowledge!Rank(c) = Knowledge!Taken(s, order)
  BY <1>1, <1>3, <1>5, RankIs
<1>8. Rated(s, n, c.attached)
  BY <1>1, <1>3, ScoredIsRated
<1>9. RankedBy(U, c, s, n, order)
  BY <1>1, <1>2, <1>3, <1>4, <1>5, <1>6, <1>7, <1>8 DEF RankedBy
<1>. QED
  BY <1>1, <1>3, <1>5, <1>9

(* Each item and those ranked behind it.                                   *)
LEMMA InTurn ==
  ASSUME NEW U, NEW c, NEW s, NEW n, NEW order, RankedBy(U, c, s, n, order),
         c.attached \in BOOLEAN
  PROVE  /\ Knowledge!Rank(c) \in Seq(Items(U))
         /\ DOMAIN Knowledge!Rank(c) = 1..n
         /\ \A i, j \in 1..n : i < j =>
              InItsTurn(c.attached, Knowledge!Rank(c)[i], Knowledge!Rank(c)[j])
<1>1. /\ s \in Seq(Items(U)) /\ n \in Nat /\ n = Len(s)
      /\ order \in Seq(1..n) /\ Len(order) = n /\ Stable(order, Outranking(s))
      /\ Rated(s, n, c.attached)
  BY DEF RankedBy
<1>2. PICK r : r = Knowledge!Rank(c)
  OBVIOUS
<1>3. DOMAIN order = 1..n /\ \A k \in 1..n : order[k] \in 1..n
  BY <1>1
<1>4. r = [k \in 1..n |-> s[order[k]]]
  <2>1. r = Knowledge!Taken(s, order)
    BY <1>2 DEF RankedBy
  <2>. QED
    BY <1>3, <2>1 DEF Knowledge!Taken
<1>5. \A k \in 1..n : s[k] \in Items(U)
  BY <1>1
<1>6. r \in Seq(Items(U))
  <2>1. r \in [1..n -> Items(U)]
    BY <1>3, <1>4, <1>5
  <2>. QED
    BY <1>1, <2>1
<1>7. ASSUME NEW i \in 1..n, NEW j \in 1..n, i < j PROVE InItsTurn(c.attached, r[i], r[j])
  <2>1. PICK a \in 1..n, b \in 1..n : a = order[i] /\ b = order[j]
    BY <1>3
  <2>2. <<b, a>> \notin Outranking(s)
    BY <1>1, <1>7, <2>1 DEF Stable
  <2>3. ~Knowledge!Outranks(s[b], s[a])
    BY <1>1, <2>2 DEF Outranking
  <2>4. RatedItem(s[a], c.attached) /\ RatedItem(s[b], c.attached)
    BY <1>1 DEF Rated, RatedItem
  <2>5. InItsTurn(c.attached, s[a], s[b])
    BY <1>5, <2>3, <2>4, TakesItsTurn
  <2>. QED
    BY <1>4, <2>1, <2>5
<1>. QED
  BY <1>2, <1>4, <1>6, <1>7

(* What is kept of the ranking of a context.                               *)
LEMMA AmongRanked ==
  ASSUME NEW U, NEW c, NEW s, NEW n, NEW order, RankedBy(U, c, s, n, order), NEW S
  PROVE  Among(Knowledge!Rank(c), S)
           = Knowledge!Taken(s, KeptPlaces(Knowledge!InOrder(n, Outranking(s)), n,
                                           {i \in 1..n : s[i] \in S}))
  BY AmongSorted DEF RankedBy

(* Files, and hits, stay in the order of their source.                     *)
LEMMA StayInOrder ==
  ASSUME NEW U, NEW c, NEW s, NEW n, NEW order, RankedBy(U, c, s, n, order),
         NEW source \in {"file", "search"}
  PROVE  Among(Knowledge!Rank(c), FromSource(U, source)) = Among(s, FromSource(U, source))
<1>. DEFINE Q == {i \in 1..n : s[i] \in FromSource(U, source)}
<1>1. /\ s \in Seq(Items(U)) /\ n \in Nat /\ n = Len(s) /\ Sorts(n, Outranking(s))
      /\ Rated(s, n, c.attached)
  BY DEF RankedBy
<1>2. \A i \in 1..n : s[i] \in Items(U)
  BY <1>1
<1>3. \A a, b \in Q : <<a, b>> \in Outranking(s) => a < b
  <2>. SUFFICES ASSUME NEW a \in Q, NEW b \in Q, <<a, b>> \in Outranking(s), ~(a < b) PROVE FALSE
    OBVIOUS
  <2>1. a \in 1..n /\ b \in 1..n /\ s[a].source = source /\ s[b].source = source
    BY DEF FromSource
  <2>2. Knowledge!Outranks(s[a], s[b])
    BY DEF Outranking
  <2>3. Tie(s[a]) = Tie(s[b]) /\ Tie(s[a]) \in 0..3 /\ Tie(s[b]) \in 0..3
    BY <1>2, <2>1, TiesAre
  <2>4. s[a].rank > s[b].rank \/ s[a].native > s[b].native
    <3>1. \/ s[a].rank > s[b].rank
          \/ s[a].rank = s[b].rank /\ Tie(s[a]) > Tie(s[b])
          \/ s[a].rank = s[b].rank /\ Tie(s[a]) = Tie(s[b]) /\ s[a].native > s[b].native
      BY <1>2, <2>1, <2>2, TiesAre
    <3>. QED
      BY <2>3, <3>1
  <2>5. /\ s[a].rank \in Int /\ s[b].rank \in Int
        /\ s[a].native \in Int /\ s[b].native \in Int
    BY <1>2, <2>1, TiesAre
  <2>6. a # b
    BY <2>4, <2>5
  <2>7. b < a
    BY <2>1, <2>6
  <2>8. s[a].native <= s[b].native /\ s[a].rank <= s[b].rank
    <3>1. CASE source = "search"
      BY <1>1, <2>1, <2>7, <3>1 DEF Rated, IsA
    <3>2. CASE source = "file"
      <4>1. s[a].native <= s[b].native
        BY <1>1, <2>1, <2>7, <3>2 DEF Rated, IsA
      <4>2. RatedFile(s[a], c.attached) /\ RatedFile(s[b], c.attached)
        <5>1. IsA("file", s[a]) /\ IsA("file", s[b])
          BY <2>1, <3>2 DEF IsA
        <5>. QED
          BY <1>1, <2>1, <5>1, OneSource DEF Rated
      <4>3. PICK e \in Nat : e = IF c.attached THEN Knowledge!Whole ELSE 0
        BY ScaleIs
      <4>4. s[a].rank = s[a].native + e /\ s[b].rank = s[b].native + e
        BY <4>2, <4>3 DEF RatedFile
      <4>. QED
        BY <2>5, <4>1, <4>4
    <3>. QED
      BY <3>1, <3>2
  <2>. QED
    BY <2>4, <2>5, <2>8
<1>4. Among(Knowledge!Rank(c), FromSource(U, source))
        = Knowledge!Taken(s, KeptPlaces(Knowledge!InOrder(n, Outranking(s)), n, Q))
  BY AmongRanked
<1>5. KeptPlaces(Knowledge!InOrder(n, Outranking(s)), n, Q) = Knowledge!Chosen(n, Q)
  <2>1. Q \in SUBSET (1..n)
    OBVIOUS
  <2>. HIDE DEF Q
  <2>. QED
    BY <1>1, <1>3, <2>1, KeptAsTheyStand
<1>6. Among(s, FromSource(U, source)) = Knowledge!Taken(s, Knowledge!Chosen(n, Q))
  <2>1. DOMAIN s = 1..n
    BY <1>1
  <2>. QED
    BY <1>1, <2>1 DEF Among
<1>. QED
  BY <1>4, <1>5, <1>6

(* The hits are the last of a context's items.                             *)
LEMMA HitsAreLast ==
  ASSUME NEW U, NEW c, Known(U, c)
  PROVE  Among(Knowledge!ScoredItems(c), FromSource(U, "search"))
           = Knowledge!SearchItems(c.search)
<1>1. PICK s, u : s = Knowledge!ScoredItems(c) /\ u = Knowledge!SearchItems(c.search)
  OBVIOUS
<1>2. PICK m \in Nat, g \in Nat, f \in Nat :
        m = Len(c.memories) /\ g = Len(c.goals) /\ f = Len(c.files)
  BY DEF Known
<1>3. PICK w \in Nat : w = Len(u) /\ u \in Seq(Items(U)) /\ \A k \in 1..w : RatedHit(u[k])
  <2>1. c.search \in Seq(WebHits(U))
    BY DEF Known
  <2>. QED
    BY <1>1, <2>1, SearchIs
<1>4. Lies(U, c, s, m, g, f, w)
  BY <1>1, <1>2, <1>3, ScoredIs
<1>5. PICK n \in Nat : /\ n = Len(s) /\ n = m + g + f + w /\ s \in Seq(Items(U))
                       /\ InSources(c, s, m, g, f, w)
  BY <1>4 DEF Lies
<1>6. n = Len(s) /\ s \in Seq(Items(U))
  BY <1>5
<1>7. DOMAIN s = 1..n /\ \A i \in 1..n : s[i] \in Items(U)
  BY <1>6
<1>8. \A k \in 1..w : s[m + g + f + k] = u[k]
  BY <1>1, <1>5 DEF InSources
<1>9. /\ \A i \in 1..m : RatedMemory(s[i])
      /\ \A i \in 1..g : RatedGoal(s[m + i])
      /\ \A i \in 1..f : RatedFile(s[m + g + i], c.attached)
  <2>1. ASSUME NEW i \in 1..m PROVE RatedMemory(s[i])
    <3>1. c.memories[i] \in Remembered(U)
      BY <1>2 DEF Known
    <3>. QED
      BY <1>5, <3>1, MemoryIs DEF InSources
  <2>2. ASSUME NEW i \in 1..g PROVE RatedGoal(s[m + i])
    <3>1. c.goals[i] \in Goals(U)
      BY <1>2 DEF Known
    <3>. QED
      BY <1>5, <3>1, GoalIs DEF InSources
  <2>3. ASSUME NEW i \in 1..f PROVE RatedFile(s[m + g + i], c.attached)
    <3>1. c.files \in Seq(Excerpts(U)) /\ i \in 1..Len(c.files)
      BY <1>2 DEF Known
    <3>2. RatedFile(FileItem(c, i), c.attached)
      BY <3>1, FileIs
    <3>. QED
      BY <1>5, <3>2 DEF InSources
  <2>. QED
    BY <2>1, <2>2, <2>3
<1>10. /\ n = m + g + f + w
       /\ \A k \in 1..w : m + g + f + k \in 1..n
  <2>1. n = m + g + f + w
    BY <1>5
  <2>. QED
    BY <2>1
<1>. DEFINE Q == {i \in 1..n : s[i] \in FromSource(U, "search")}
<1>11. \A i \in 1..n : i \in Q <=> IsA("search", s[i])
  <2>1. \A i \in 1..n : s[i] \in Items(U)
    BY <1>7
  <2>. QED
    BY <2>1 DEF FromSource, IsA
<1>12. \A k \in 1..w : m + g + f + k \in Q
  <2>. SUFFICES ASSUME NEW k \in 1..w PROVE m + g + f + k \in Q
    OBVIOUS
  <2>1. m + g + f + k \in 1..n
    BY <1>10
  <2>2. IsA("search", s[m + g + f + k])
    BY <1>3, <1>8, OneSource
  <2>. QED
    BY <1>11, <2>1, <2>2
<1>13. ASSUME NEW i \in Q PROVE \E k \in 1..w : i = m + g + f + k
  <2>1. i \in 1..n /\ IsA("search", s[i])
    BY <1>11
  <2>2. ~RatedMemory(s[i]) /\ ~RatedGoal(s[i]) /\ ~RatedFile(s[i], c.attached)
    BY <2>1, OneSource
  <2>3. i \in 1..(m + g + f + w)
    BY <1>10, <2>1
  <2>. HIDE DEF Q
  <2>4. \/ i \in 1..m
        \/ \E k \in 1..g : i = m + k
        \/ \E k \in 1..f : i = m + g + k
        \/ \E k \in 1..w : i = m + g + f + k
    BY <2>3, Stretch
  <2>. QED
    BY <1>9, <2>2, <2>4
<1>. HIDE DEF Q
<1>14. PICK p : p = [k \in 1..w |-> m + g + f + k]
  OBVIOUS
<1>15. p \in Seq(1..n) /\ Len(p) = w
  <2>1. \A k \in 1..w : m + g + f + k \in 1..n
    BY <1>10
  <2>2. p \in [1..w -> 1..n]
    BY <1>14, <2>1
  <2>. QED
    BY <2>2
<1>16. Increasing(p) /\ Elements(p) = Q
  <2>1. Increasing(p)
    BY <1>14, <1>15 DEF Increasing
  <2>2. Elements(p) = {m + g + f + k : k \in 1..w}
    BY <1>14, <1>15 DEF Elements
  <2>3. {m + g + f + k : k \in 1..w} = Q
    BY <1>12, <1>13
  <2>. QED
    BY <2>1, <2>2, <2>3
<1>17. Knowledge!Chosen(n, Q) = p
  <2>1. Q \cap (1..n) = Q
    BY DEF Q
  <2>2. PICK d : d = Knowledge!Chosen(n, Q)
    OBVIOUS
  <2>3. d \in Seq(1..n) /\ Increasing(d) /\ Elements(d) = Q
    BY <2>1, <2>2, ChosenIs
  <2>4. d = p
    BY <1>15, <1>16, <2>3, OneIncreasing
  <2>. QED
    BY <2>2, <2>4
<1>18. Among(s, FromSource(U, "search")) = Knowledge!Taken(s, p)
  <2>1. DOMAIN s = 1..n
    BY <1>7
  <2>. QED
    BY <1>6, <1>17, <2>1 DEF Among, Q
<1>19. Knowledge!Taken(s, p) = [k \in 1..w |-> u[k]]
  <2>1. DOMAIN p = 1..w /\ \A k \in 1..w : s[p[k]] = u[k]
    BY <1>8, <1>14
  <2>2. Knowledge!Taken(s, p) = [k \in 1..w |-> s[p[k]]]
    BY <2>1 DEF Knowledge!Taken
  <2>. QED
    BY <2>1, <2>2
<1>20. u = [k \in 1..w |-> u[k]]
  BY <1>3
<1>. QED
  BY <1>1, <1>18, <1>19, <1>20

(* An agent's context has the same items but for the rank of its files.    *)
Full(c) == c.attached \in BOOLEAN /\ c = [c EXCEPT !.attached = c.attached]

(* An agent is told the same but for the attachments.                      *)
LEMMA FromPackIs ==
  ASSUME NEW c, Full(c)
  PROVE  LET told == Knowledge!FromPack(c)
         IN  /\ told.memories = c.memories /\ told.goals = c.goals
             /\ told.files = c.files /\ told.search = c.search
             /\ ~c.attached => told = c
<1>1. Knowledge!FromPack(c) = [c EXCEPT !.attached = FALSE]
  BY DEF Knowledge!FromPack
<1>2. c = [x \in DOMAIN c |-> c[x]]
  BY DEF Full
<1>3. ASSUME ~c.attached PROVE [c EXCEPT !.attached = FALSE] = c
  BY <1>3 DEF Full
<1>. QED
  BY <1>1, <1>3

(* So the two are of the same length and differ in files alone.            *)
LEMMA OthersAre ==
  ASSUME NEW U, NEW c, Known(U, c), Full(c)
  PROVE  LET s == Knowledge!ScoredItems(c)
             t == Knowledge!ScoredItems(Knowledge!FromPack(c))
         IN  /\ Known(U, Knowledge!FromPack(c))
             /\ Len(t) = Len(s)
             /\ \A i \in 1..Len(s) : \/ t[i] = s[i]
                                     \/ t[i].source = "file" /\ s[i].source = "file"
<1>1. PICK d : d = Knowledge!FromPack(c)
  OBVIOUS
<1>2. /\ d.memories = c.memories /\ d.goals = c.goals
      /\ d.files = c.files /\ d.search = c.search
  BY <1>1, FromPackIs
<1>3. Known(U, d)
  BY <1>2 DEF Known
<1>4. PICK s, t : s = Knowledge!ScoredItems(c) /\ t = Knowledge!ScoredItems(d)
  OBVIOUS
<1>5. PICK m \in Nat, g \in Nat, f \in Nat :
        m = Len(c.memories) /\ g = Len(c.goals) /\ f = Len(c.files)
  BY DEF Known
<1>6. PICK u : u = Knowledge!SearchItems(c.search)
  OBVIOUS
<1>7. PICK w \in Nat : w = Len(u)
  <2>1. c.search \in Seq(WebHits(U))
    BY DEF Known
  <2>. QED
    BY <1>6, <2>1, SearchIs
<1>8. Lies(U, c, s, m, g, f, w)
  BY <1>4, <1>5, <1>6, <1>7, ScoredIs
<1>9. Lies(U, d, t, m, g, f, w)
  BY <1>2, <1>3, <1>4, <1>5, <1>6, <1>7, ScoredIs
<1>10. PICK n \in Nat : n = m + g + f + w
  OBVIOUS
<1>11. Len(s) = n /\ Len(t) = n
  BY <1>8, <1>9, <1>10 DEF Lies
<1>12. InSources(c, s, m, g, f, w) /\ InSources(d, t, m, g, f, w)
  BY <1>8, <1>9 DEF Lies
<1>13. /\ \A i \in 1..m : t[i] = s[i]
       /\ \A i \in 1..g : t[m + i] = s[m + i]
       /\ \A i \in 1..w : t[m + g + f + i] = s[m + g + f + i]
  BY <1>2, <1>12 DEF InSources
<1>14. \A i \in 1..f : /\ t[m + g + i].source = "file"
                       /\ s[m + g + i].source = "file"
  <2>. SUFFICES ASSUME NEW i \in 1..f
                PROVE  t[m + g + i].source = "file" /\ s[m + g + i].source = "file"
    OBVIOUS
  <2>1. c.files \in Seq(Excerpts(U)) /\ d.files \in Seq(Excerpts(U)) /\ i \in 1..Len(c.files)
    BY <1>2, <1>5 DEF Known
  <2>2. RatedFile(FileItem(c, i), c.attached) /\ RatedFile(FileItem(d, i), d.attached)
    BY <1>2, <2>1, FileIs
  <2>3. s[m + g + i] = FileItem(c, i) /\ t[m + g + i] = FileItem(d, i)
    BY <1>12 DEF InSources
  <2>. QED
    BY <2>2, <2>3 DEF RatedFile, IsA
<1>15. ASSUME NEW i \in 1..n
       PROVE  t[i] = s[i] \/ (t[i].source = "file" /\ s[i].source = "file")
  <2>1. i \in 1..(m + g + f + w)
    BY <1>10
  <2>2. \/ i \in 1..m
        \/ \E k \in 1..g : i = m + k
        \/ \E k \in 1..f : i = m + g + k
        \/ \E k \in 1..w : i = m + g + f + k
    BY <2>1, Stretch
  <2>. QED
    BY <1>13, <1>14, <2>2
<1>. QED
  BY <1>1, <1>3, <1>4, <1>11, <1>15

(* And they rank everything else alike.                                    *)
LEMMA OthersRankAlike ==
  ASSUME NEW U, NEW c, Known(U, c), Full(c)
  PROVE  Among(Knowledge!Rank(c), NotFrom(U, "file"))
           = Among(Knowledge!Rank(Knowledge!FromPack(c)), NotFrom(U, "file"))
<1>1. PICK d, s, t : /\ d = Knowledge!FromPack(c) /\ s = Knowledge!ScoredItems(c)
                     /\ t = Knowledge!ScoredItems(d)
  OBVIOUS
<1>2. /\ Known(U, d) /\ Len(t) = Len(s)
      /\ \A i \in 1..Len(s) : t[i] = s[i] \/ (t[i].source = "file" /\ s[i].source = "file")
  BY <1>1, OthersAre
<1>3. PICK n \in Nat : n = Len(s)
  <2>1. s \in Seq(Items(U))
    BY <1>1, ScoredIs DEF Lies
  <2>. QED
    BY <2>1
<1>4. PICK order, other : /\ RankedBy(U, c, s, n, order)
                          /\ RankedBy(U, d, t, n, other)
  <2>1. RankedBy(U, c, s, n, Knowledge!InOrder(n, Outranking(s)))
    BY <1>1, <1>3, RankedSo
  <2>2. RankedBy(U, d, t, n, Knowledge!InOrder(n, Outranking(t)))
    BY <1>1, <1>2, <1>3, RankedSo
  <2>. QED
    BY <2>1, <2>2
<1>. DEFINE S == NotFrom(U, "file")
<1>5. PICK Q : Q = {i \in 1..n : s[i] \in S}
  OBVIOUS
<1>6. /\ \A i \in 1..n : s[i] \in Items(U) /\ t[i] \in Items(U)
      /\ Sorts(n, Outranking(s)) /\ Sorts(n, Outranking(t))
  <2>1. s \in Seq(Items(U)) /\ n = Len(s)
    BY <1>4 DEF RankedBy
  <2>2. t \in Seq(Items(U)) /\ n = Len(t)
    BY <1>4 DEF RankedBy
  <2>3. Sorts(n, Outranking(s)) /\ Sorts(n, Outranking(t))
    BY <1>4 DEF RankedBy
  <2>4. \A i \in 1..n : s[i] \in Items(U)
    BY <2>1
  <2>5. \A i \in 1..n : t[i] \in Items(U)
    BY <2>2
  <2>. QED
    BY <2>3, <2>4, <2>5
<1>7. Q \in SUBSET (1..n) /\ \A i \in Q : t[i] = s[i]
  BY <1>2, <1>3, <1>5 DEF NotFrom
<1>8. {i \in 1..n : t[i] \in S} = Q
  <2>1. \A i \in 1..n : t[i] \in S <=> s[i] \in S
    BY <1>2, <1>3, <1>6 DEF NotFrom
  <2>. QED
    BY <1>5, <2>1
<1>9. \A a, b \in Q : <<a, b>> \in Outranking(s) <=> <<a, b>> \in Outranking(t)
  <2>. SUFFICES ASSUME NEW a \in Q, NEW b \in Q
                PROVE  <<a, b>> \in Outranking(s) <=> <<a, b>> \in Outranking(t)
    OBVIOUS
  <2>1. /\ a \in 1..n /\ b \in 1..n /\ t[a] = s[a] /\ t[b] = s[b]
    BY <1>7
  <2>. QED
    BY <1>2, <1>3, <2>1 DEF Outranking
<1>10. PICK q : q = KeptPlaces(Knowledge!InOrder(n, Outranking(s)), n, Q)
  OBVIOUS
<1>11. q = KeptPlaces(Knowledge!InOrder(n, Outranking(t)), n, Q)
  BY <1>6, <1>7, <1>9, <1>10, KeptAlike
<1>12. /\ Among(Knowledge!Rank(c), S) = Knowledge!Taken(s, q)
       /\ Among(Knowledge!Rank(d), S) = Knowledge!Taken(t, q)
  <2>1. Among(Knowledge!Rank(c), S)
          = Knowledge!Taken(s, KeptPlaces(Knowledge!InOrder(n, Outranking(s)), n,
                                          {i \in 1..n : s[i] \in S}))
    BY <1>4, AmongRanked
  <2>2. Among(Knowledge!Rank(d), S)
          = Knowledge!Taken(t, KeptPlaces(Knowledge!InOrder(n, Outranking(t)), n,
                                          {i \in 1..n : t[i] \in S}))
    BY <1>4, AmongRanked
  <2>. QED
    BY <1>5, <1>8, <1>10, <1>11, <2>1, <2>2
<1>13. q \in Seq(1..n) /\ Elements(q) = Q
  BY <1>6, <1>7, <1>10, KeptInOrder
<1>14. PICK m \in Nat : DOMAIN q = 1..m /\ \A k \in 1..m : q[k] \in Q
  <2>1. PICK m \in Nat : m = Len(q)
    BY <1>13
  <2>2. \A k \in 1..m : q[k] \in Q
    BY <1>13, <2>1 DEF Elements
  <2>. QED
    BY <1>13, <2>1, <2>2
<1>15. [k \in 1..m |-> s[q[k]]] = [k \in 1..m |-> t[q[k]]]
  <2>1. \A k \in 1..m : s[q[k]] = t[q[k]]
    BY <1>7, <1>14
  <2>. QED
    BY <2>1
<1>16. Knowledge!Taken(s, q) = Knowledge!Taken(t, q)
  BY <1>14, <1>15 DEF Knowledge!Taken
<1>. QED
  BY <1>1, <1>12, <1>16

(* RanksFairly is of what comprehensions keep.                             *)
OnlyOf(items, source) ==
  Knowledge!Taken(items, Knowledge!Chosen(Len(items),
    {i \in DOMAIN items : items[i].source = source}))
AllBut(items, source) ==
  Knowledge!Taken(items, Knowledge!Chosen(Len(items),
    {i \in DOMAIN items : items[i].source # source}))

(* A fair ranking, in these terms.                                         *)
LEMMA FairlyIs ==
  ASSUME NEW c
  PROVE  LET ranked == Knowledge!Rank(c)
             told == Knowledge!Rank(Knowledge!FromPack(c))
         IN  Knowledge!RanksFairly(c) <=>
               /\ \A i, j \in DOMAIN ranked : i < j => InItsTurn(c.attached, ranked[i], ranked[j])
               /\ OnlyOf(ranked, "file") = OnlyOf(Knowledge!ScoredItems(c), "file")
               /\ OnlyOf(ranked, "search") = Knowledge!SearchItems(c.search)
               /\ AllBut(ranked, "file") = AllBut(told, "file")
               /\ ~c.attached => told = ranked
<1>1. PICK ranked, told :
        /\ ranked = Knowledge!Rank(c) /\ told = Knowledge!Rank(Knowledge!FromPack(c))
  OBVIOUS
<1>2. \A y : ~Small(y.native) <=> y.native >= 30000000
  BY DEF Small
<1>. QED
  BY <1>2 DEF Knowledge!RanksFairly, Knowledge!Kept, InItsTurn, OnlyOf, AllBut

(* Whatever is known, attached files lead, no web hit stands before a goal *)
(* or before what its own source rates 0.30 or more, each source keeps its *)
(* order, and an agent sees the same order of everything else              *)
(* (knowledge_ranker.py, rank; knowledge_retrieval_service.py,             *)
(* context_from_pack).                                                     *)
THEOREM ContextsRankFairly ==
  ASSUME NEW U, NEW c, Known(U, c), Full(c)
  PROVE  Knowledge!RanksFairly(c)
<1>1. PICK d, s, ranked, told :
        /\ d = Knowledge!FromPack(c) /\ s = Knowledge!ScoredItems(c)
        /\ ranked = Knowledge!Rank(c) /\ told = Knowledge!Rank(d)
  OBVIOUS
<1>2. Known(U, d) /\ d.attached \in BOOLEAN
  <2>1. Known(U, d)
    BY <1>1, OthersAre
  <2>2. "attached" \in DOMAIN c => d.attached = FALSE
    BY <1>1 DEF Knowledge!FromPack
  <2>3. "attached" \notin DOMAIN c => d = c
    BY <1>1 DEF Knowledge!FromPack, Full
  <2>. QED
    BY <2>1, <2>2, <2>3 DEF Full
<1>3. PICK n, order : RankedBy(U, c, s, n, order)
  BY <1>1, RankedSo
<1>4. PICK p, t, other : RankedBy(U, d, t, p, other)
  BY <1>2, RankedSo
<1>5. /\ ranked \in Seq(Items(U)) /\ told \in Seq(Items(U)) /\ s \in Seq(Items(U))
      /\ DOMAIN ranked = 1..n
      /\ \A i, j \in 1..n : i < j => InItsTurn(c.attached, ranked[i], ranked[j])
  <2>1. c.attached \in BOOLEAN
    BY DEF Full
  <2>2. s \in Seq(Items(U))
    BY <1>3 DEF RankedBy
  <2>. QED
    BY <1>1, <1>2, <1>3, <1>4, <2>1, <2>2, InTurn
<1>6. \A source : /\ OnlyOf(ranked, source) = Among(ranked, FromSource(U, source))
                  /\ OnlyOf(s, source) = Among(s, FromSource(U, source))
                  /\ AllBut(ranked, source) = Among(ranked, NotFrom(U, source))
                  /\ AllBut(told, source) = Among(told, NotFrom(U, source))
  BY <1>5, OfSource DEF OnlyOf, AllBut
<1>7. OnlyOf(ranked, "file") = OnlyOf(s, "file")
  BY <1>1, <1>3, <1>6, StayInOrder
<1>8. OnlyOf(ranked, "search") = Knowledge!SearchItems(c.search)
  <2>1. Among(ranked, FromSource(U, "search")) = Among(s, FromSource(U, "search"))
    BY <1>1, <1>3, StayInOrder
  <2>. QED
    BY <1>1, <1>6, <2>1, HitsAreLast
<1>9. AllBut(ranked, "file") = AllBut(told, "file")
  BY <1>1, <1>6, OthersRankAlike
<1>10. ~c.attached => told = ranked
  BY <1>1, FromPackIs
<1>. QED
  BY <1>1, <1>5, <1>7, <1>8, <1>9, <1>10, FairlyIs

-----------------------------------------------------------------------------
(* RETRIEVAL. Recalls and their scores, the sources of a context and of an *)
(* agent's pack, and the memories that are retrieved.                      *)

(* A score after each recall.                                              *)
LEMMA RecallsRecur ==
  ASSUME NEW score, NEW step, NEW recalls \in Nat
  PROVE  /\ Knowledge!AfterRecalls(score, step, recalls)[0] = score
         /\ \A k \in 1..recalls :
              Knowledge!AfterRecalls(score, step, recalls)[k]
                = Knowledge!Reinforced(Knowledge!AfterRecalls(score, step, recalls)[k - 1], step, k = 1)
<1>. DEFINE n0 == recalls
            f == Knowledge!AfterRecalls(score, step, recalls)
            OneStep(g, k) == Knowledge!Reinforced(g[k - 1], step, k = 1)
            Body(g, k) == IF k = 0 THEN score ELSE OneStep(g, k)
            Is(g, m) == g = [k \in 0..m |-> Body(g, k)]
            M == {m \in 0..n0 : \E g : Is(g, m)}
<1>1. f = CHOOSE g : Is(g, n0)
  BY DEF Knowledge!AfterRecalls
<1>2. ASSUME NEW g, NEW h, NEW k, h[k - 1] = g[k - 1] PROVE OneStep(h, k) = OneStep(g, k)
  BY <1>2
<1>. HIDE DEF OneStep
<1>3. 0 \in M
  <2>1. Is([k \in 0..0 |-> score], 0)
    OBVIOUS
  <2>2. \E g : Is(g, 0)
    <3>. HIDE DEF Is
    <3>. QED
      BY <2>1
  <2>. QED
    BY <2>2
<1>4. ASSUME NEW m \in 1..n0, m - 1 \in M PROVE m \in M
  <2>1. PICK g : Is(g, m - 1)
    BY <1>4
  <2>. DEFINE h == [k \in 0..m |-> IF k < m THEN g[k] ELSE Body(g, m)]
  <2>2. ASSUME NEW k \in 0..m PROVE h[k] = Body(h, k)
    <3>1. k # 0 => h[k - 1] = g[k - 1]
      OBVIOUS
    <3>2. Body(h, k) = Body(g, k)
      <4>. HIDE DEF h
      <4>. QED
        BY <3>1, <1>2
    <3>3. k < m => h[k] = Body(g, k)
      BY <2>1
    <3>. QED
      BY <3>2, <3>3
  <2>3. \E i : Is(i, m)
    <3>1. Is(h, m)
      BY <2>2
    <3>. HIDE DEF Is, h
    <3>. QED
      BY <3>1
  <2>. QED
    BY <2>3
<1>5. Is(f, n0)
  <2>1. 0..n0 \subseteq M
    <3>. HIDE DEF M
    <3>. QED
      BY <1>3, <1>4, Upwards
  <2>2. n0 \in M
    <3>. HIDE DEF M
    <3>. QED
      BY <2>1
  <2>3. \E g : Is(g, n0)
    BY <2>2
  <2>. HIDE DEF Is, f
  <2>. QED
    BY <1>1, <2>3
<1>6. \A k \in 0..n0 : f[k] = Body(f, k)
  BY <1>5
<1>. QED
  BY <1>6 DEF OneStep

(* One recall: no lower, and within bounds.                                *)
OfUnit(x) == x \in Nat /\ x <= 1000000

(* A recall never lowers a score, nor takes it out of bounds.              *)
LEMMA OneRecall ==
  ASSUME NEW score, OfUnit(score), NEW step \in Nat
  PROVE  /\ score <= Knowledge!Reinforced(score, step, TRUE)
         /\ OfUnit(Knowledge!Reinforced(score, step, TRUE))
<1>1. PICK rest \in Nat : rest = 1000000 - score
  BY SMT DEF OfUnit
<1>2. PICK product \in Nat : product = step * rest
  OBVIOUS
<1>3. PICK rise \in Nat : rise = product \div 100
  BY SMT
<1>. QED
  BY SMT, <1>1, <1>2, <1>3 DEF Knowledge!Reinforced, Knowledge!Clamped, OfUnit

(* What is to be shown of the scores after recalls.                        *)
LEMMA ReinforcesIs ==
  ASSUME NEW score, NEW step, NEW recalls
  PROVE  LET after == Knowledge!AfterRecalls(score, step, recalls)
         IN  score <= after[1] /\ after[recalls] = after[1] /\ OfUnit(after[1])
               => Knowledge!ReinforcesOnce(score, step, recalls)
  BY SMT DEF Knowledge!ReinforcesOnce, OfUnit

(* Whatever a score, a step and a number of recalls in one cool-down, the  *)
(* score rises once and stays within bounds (memory_retrieval_service.py,  *)
(* reinforced_scores).                                                     *)
THEOREM RecallsReinforceOnce ==
  ASSUME NEW score, OfUnit(score), NEW step \in Nat, NEW recalls \in Nat \ {0}
  PROVE  Knowledge!ReinforcesOnce(score, step, recalls)
<1>1. PICK after : after = Knowledge!AfterRecalls(score, step, recalls)
  OBVIOUS
<1>2. /\ after[0] = score
      /\ \A k \in 1..recalls : after[k] = Knowledge!Reinforced(after[k - 1], step, k = 1)
  BY <1>1, RecallsRecur
<1>3. after[1] = Knowledge!Reinforced(score, step, TRUE)
  <2>1. PICK k \in 1..recalls : k = 1
    OBVIOUS
  <2>2. after[k] = Knowledge!Reinforced(after[k - 1], step, k = 1)
    BY <1>2
  <2>3. (k = 1) = TRUE /\ k - 1 = 0
    BY <2>1
  <2>. QED
    BY <1>2, <2>1, <2>2, <2>3
<1>4. score <= after[1] /\ OfUnit(after[1])
  BY <1>3, OneRecall
<1>. DEFINE S == {k \in 0..recalls : k = 0 \/ after[k] = after[1]}
<1>5. ASSUME NEW k \in 1..recalls, k - 1 \in S PROVE k \in S
  <2>1. CASE k = 1
    BY <2>1
  <2>2. CASE k # 1
    <3>1. after[k] = Knowledge!Reinforced(after[k - 1], step, FALSE)
      <4>1. after[k] = Knowledge!Reinforced(after[k - 1], step, k = 1)
        BY <1>2
      <4>2. (k = 1) = FALSE
        BY <2>2
      <4>. QED
        BY <4>1, <4>2
    <3>2. after[k] = after[k - 1]
      BY SMT, <3>1 DEF Knowledge!Reinforced
    <3>. QED
      BY <1>5, <2>2, <3>2
  <2>. QED
    BY <2>1, <2>2
<1>6. recalls \in S
  <2>1. 0 \in S
    OBVIOUS
  <2>. HIDE DEF S
  <2>2. 0..recalls \subseteq S
    BY <1>5, <2>1, Upwards
  <2>. QED
    BY <2>2
<1>7. after[recalls] = after[1]
  BY <1>6
<1>. QED
  BY <1>1, <1>4, <1>7, ReinforcesIs

(* The beginning of a sequence.                                            *)
Least(n, m) == IF n < m THEN n ELSE m
Begins(A, s, u, m) == u \in Seq(A) /\ Len(u) = m /\ \A i \in 1..m : u[i] = s[i]

(* A sequence cut off is its beginning.                                    *)
LEMMA BeginningIs ==
  ASSUME NEW A, NEW s \in Seq(A), NEW n \in Nat
  PROVE  Begins(A, s, Knowledge!UpTo(n, s), Least(n, Len(s)))
<1>1. PICK m \in Nat : m = Least(n, Len(s))
  BY DEF Least
<1>2. Knowledge!UpTo(n, s) = SubSeq(s, 1, m)
  BY <1>1 DEF Knowledge!UpTo, Least
<1>3. m <= Len(s)
  BY <1>1 DEF Least
<1>4. /\ SubSeq(s, 1, m) \in Seq(A) /\ Len(SubSeq(s, 1, m)) = m
      /\ \A i \in 1..m : SubSeq(s, 1, m)[i] = s[i]
  BY <1>3, SubSeqProperties
<1>. QED
  BY <1>1, <1>2, <1>4 DEF Begins

(* A retrieval that did not raise, by what of it is gone.                  *)
Gone(source, broken, aborted) == source \in broken \/ (aborted /\ "memory" \in broken)
Raises(known, broken, aborted) ==
  known.attached /\ (Gone("file", broken, aborted) \/ known.foreign)
Left(gone, items) == IF gone THEN << >> ELSE items

(* What retrieval comes to, source by source.                              *)
LEMMA RetrievedIs ==
  ASSUME NEW known, NEW broken, NEW aborted
  PROVE  LET c == Knowledge!Retrieve(known, broken, aborted)
         IN  /\ Raises(known, broken, aborted) => c.raised
             /\ ~Raises(known, broken, aborted) =>
                  /\ ~c.raised
                  /\ c.poisoned = (aborted /\ "memory" \in broken)
                  /\ c.memories = Left(Gone("memory", broken, aborted),
                       Knowledge!Recall(known.memories, KNOWLEDGE_MAX_MEMORIES))
                  /\ c.goals = Left(Gone("goal", broken, aborted),
                                    Knowledge!UpTo(5, known.goals))
                  /\ c.files = Left(Gone("file", broken, aborted),
                                    Knowledge!UpTo(8, known.files))
                  /\ c.inventory = (IF Gone("file", broken, aborted) THEN 0
                                    ELSE known.inventory)
                  /\ c.search = << >> /\ c.attached = known.attached
  BY DEF Knowledge!Retrieve, Raises, Gone, Left

(* The sources that are named.                                             *)
LEMMA UsedAre ==
  ASSUME NEW c
  PROVE  /\ Knowledge!SourcesUsed(c) \subseteq {"memory", "goal", "file"}
         /\ "memory" \in Knowledge!SourcesUsed(c) <=> c.memories # << >>
         /\ "goal" \in Knowledge!SourcesUsed(c) <=> c.goals # << >>
         /\ "file" \in Knowledge!SourcesUsed(c) <=> c.files # << >> \/ c.inventory > 0
  BY DEF Knowledge!SourcesUsed

(* Whatever is known, a source that breaks down costs the turn what it     *)
(* would have given and nothing else, but for the files the message came   *)
(* with, and for a memory search that aborted the transaction: then there  *)
(* is nothing to tell, and nothing the turn writes later is kept           *)
(* (knowledge_retrieval_service.py, retrieve).                             *)
THEOREM RetrievalDegrades ==
  ASSUME NEW known, NEW broken, NEW aborted \in BOOLEAN,
         known.attached \in BOOLEAN, known.foreign \in BOOLEAN
  PROVE  Knowledge!DegradesGracefully(known, broken, aborted)
<1>1. PICK c, full : /\ c = Knowledge!Retrieve(known, broken, aborted)
                     /\ full = Knowledge!Retrieve(known, {}, FALSE)
  OBVIOUS
<1>2. CASE Raises(known, broken, aborted)
  <2>1. c.raised /\ known.attached
    BY <1>1, <1>2, RetrievedIs DEF Raises
  <2>2. known.foreign \/ "file" \in broken \/ (aborted /\ "memory" \in broken)
    BY <1>2 DEF Raises, Gone
  <2>. QED
    BY <1>1, <2>1, <2>2 DEF Knowledge!DegradesGracefully
<1>3. CASE ~Raises(known, broken, aborted)
  <2>. DEFINE u == Knowledge!SourcesUsed(c)
              v == Knowledge!SourcesUsed(full)
              gone(source) == Gone(source, broken, aborted)
  <2>1. /\ ~c.raised
        /\ c.poisoned = (aborted /\ "memory" \in broken)
        /\ c.memories = Left(gone("memory"),
             Knowledge!Recall(known.memories, KNOWLEDGE_MAX_MEMORIES))
        /\ c.goals = Left(gone("goal"), Knowledge!UpTo(5, known.goals))
        /\ c.files = Left(gone("file"), Knowledge!UpTo(8, known.files))
        /\ c.inventory = IF gone("file") THEN 0 ELSE known.inventory
    BY <1>1, <1>3, RetrievedIs
  <2>2. known.attached => ~known.foreign
    BY <1>3 DEF Raises
  <2>3. ~Raises(known, {}, FALSE) /\ \A source : ~Gone(source, {}, FALSE)
    BY <2>2 DEF Raises, Gone
  <2>4. /\ full.memories = Knowledge!Recall(known.memories, KNOWLEDGE_MAX_MEMORIES)
        /\ full.goals = Knowledge!UpTo(5, known.goals)
        /\ full.files = Knowledge!UpTo(8, known.files)
        /\ full.inventory = known.inventory
    BY <1>1, <2>3, RetrievedIs DEF Left
  <2>5. /\ u \subseteq {"memory", "goal", "file"} /\ v \subseteq {"memory", "goal", "file"}
        /\ "memory" \in u <=> c.memories # << >>
        /\ "goal" \in u <=> c.goals # << >>
        /\ "file" \in u <=> c.files # << >> \/ c.inventory > 0
        /\ "memory" \in v <=> full.memories # << >>
        /\ "goal" \in v <=> full.goals # << >>
        /\ "file" \in v <=> full.files # << >> \/ full.inventory > 0
    BY UsedAre
  <2>. HIDE DEF u, v
  <2>6. \A source \in {"memory", "goal", "file"} :
          source \in u <=> source \in v /\ ~gone(source)
    <3>1. ~(0 > 0)
      OBVIOUS
    <3>2. "memory" \in u <=> "memory" \in v /\ ~gone("memory")
      BY <2>1, <2>4, <2>5 DEF Left
    <3>3. "goal" \in u <=> "goal" \in v /\ ~gone("goal")
      BY <2>1, <2>4, <2>5 DEF Left
    <3>4. "file" \in u <=> "file" \in v /\ ~gone("file")
      BY <2>1, <2>4, <2>5, <3>1 DEF Left
    <3>. QED
      BY <3>2, <3>3, <3>4
  <2>7. aborted /\ "memory" \in broken => \A source : gone(source)
    BY DEF Gone
  <2>8. ~(aborted /\ "memory" \in broken) => \A source : gone(source) <=> source \in broken
    BY DEF Gone
  <2>. HIDE DEF gone
  <2>9. aborted /\ "memory" \in broken => u = {}
    BY <2>5, <2>6, <2>7
  <2>10. ~(aborted /\ "memory" \in broken) => u = v \ broken
    BY <2>5, <2>6, <2>8
  <2>. QED
    BY <1>1, <2>1, <2>2, <2>9, <2>10 DEF Knowledge!DegradesGracefully, u, v
<1>. QED
  BY <1>2, <1>3

(* What a pack is built of.                                                *)
Refuses(known, broken) ==
  \/ broken \cap {"memory", "task"} # {}
  \/ known.attached /\ ("file" \in broken \/ known.foreign)

(* What building a pack comes to, source by source.                        *)
LEMMA BuiltIs ==
  ASSUME NEW known, NEW broken
  PROVE  LET p == Knowledge!BuildPack(known, broken)
         IN  /\ Refuses(known, broken) => p.raised
             /\ ~Refuses(known, broken) =>
                  /\ ~p.raised
                  /\ p.memories = Knowledge!Recall(known.memories, DEFAULT_CONTEXT_MAX_MEMORIES)
                  /\ p.goals = Left("goal" \in broken, Knowledge!UpTo(5, known.goals))
                  /\ p.tasks = Knowledge!UpTo(10, known.tasks)
                  /\ p.files = Left("file" \in broken, Knowledge!UpTo(8, known.files))
                  /\ p.inventory = (IF "file" \in broken THEN 0 ELSE known.inventory)
                  /\ p.search = << >>
<1>1. CASE Refuses(known, broken)
  BY <1>1 DEF Knowledge!BuildPack, Refuses
<1>2. CASE ~Refuses(known, broken)
  <2>1. PICK p : p = Knowledge!BuildPack(known, broken)
    OBVIOUS
  <2>2. p = [raised |-> FALSE,
             memories |-> Knowledge!Recall(known.memories, DEFAULT_CONTEXT_MAX_MEMORIES),
             goals |-> Left("goal" \in broken, Knowledge!UpTo(5, known.goals)),
             tasks |-> Knowledge!UpTo(10, known.tasks),
             files |-> Left("file" \in broken, Knowledge!UpTo(8, known.files)),
             inventory |-> IF "file" \in broken THEN 0 ELSE known.inventory,
             search |-> << >>, attached |-> known.attached]
    BY <1>2, <2>1 DEF Knowledge!BuildPack, Refuses, Left
  <2>. QED
    BY <1>2, <2>1, <2>2
<1>. QED
  BY <1>1, <1>2

(* Retrieving memories is sorting, cutting, keeping, sorting again, and    *)
(* taking the first of each text.                                          *)
Memories(U) ==
  [similarity : Int, importance : Int, recency : Int, confidence : Int, text : U,
   cost : Nat]
BySimilarity(s) ==
  Knowledge!Taken(s, Knowledge!InOrder(Len(s),
    {p \in (1..Len(s)) \X (1..Len(s)) : s[p[1]].similarity > s[p[2]].similarity}))
ByScore(s) ==
  Knowledge!Taken(s, Knowledge!InOrder(Len(s),
    {p \in (1..Len(s)) \X (1..Len(s)) :
       Knowledge!HybridScore(s[p[1]]) > Knowledge!HybridScore(s[p[2]])}))
Relevant(s, floor) ==
  Knowledge!Taken(s, Knowledge!Chosen(Len(s), {i \in DOMAIN s : s[i].similarity >= floor}))
OnceEach(s) ==
  Knowledge!Taken(s, Knowledge!Chosen(Len(s),
    {i \in DOMAIN s : \A j \in 1..(i - 1) : s[j].text # s[i].text}))
Candidates(pool, limit) ==
  Knowledge!UpTo(RETRIEVAL_CANDIDATE_MULTIPLIER * limit, BySimilarity(pool))

(* Retrieval sorts, drops, sorts again and says once.                      *)
LEMMA RetrievedMemoriesAre ==
  ASSUME NEW pool, NEW floor, NEW limit
  PROVE  Knowledge!RetrieveMemories(pool, floor, limit)
           = Knowledge!UpTo(limit, OnceEach(ByScore(Relevant(Candidates(pool, limit), floor))))
  BY DEF Knowledge!RetrieveMemories, Knowledge!Sorted, Knowledge!Pairs, Knowledge!Kept,
         Knowledge!Firsts, BySimilarity, ByScore, Relevant, OnceEach, Candidates

(* What is taken at the places of an order.                                *)
IsTaken(A, s, n, places, t) ==
  /\ t \in Seq(A) /\ Len(t) = Len(places)
  /\ \A k \in 1..Len(places) : places[k] \in 1..n /\ t[k] = s[places[k]]
  /\ Elements(t) = {s[i] : i \in Elements(places)}

(* Elements taken at places.                                               *)
LEMMA TakenAt ==
  ASSUME NEW A, NEW s \in Seq(A), NEW places, places \in Seq(1..Len(s))
  PROVE  IsTaken(A, s, Len(s), places, Knowledge!Taken(s, places))
<1>0. PICK n \in Nat : n = Len(s)
  OBVIOUS
<1>1. PICK m \in Nat : m = Len(places)
  OBVIOUS
<1>2. DOMAIN places = 1..m /\ \A k \in 1..m : places[k] \in 1..Len(s)
  BY <1>1
<1>3. PICK t : t = [k \in 1..m |-> s[places[k]]]
  OBVIOUS
<1>4. t = Knowledge!Taken(s, places)
  BY <1>2, <1>3 DEF Knowledge!Taken
<1>5. t \in [1..m -> A]
  BY <1>0, <1>2, <1>3
<1>6. t \in Seq(A) /\ Len(t) = m
  BY <1>5
<1>7. Elements(t) = {s[i] : i \in Elements(places)}
  <2>1. Elements(t) = {t[k] : k \in 1..m}
    BY <1>6 DEF Elements
  <2>2. \A k \in 1..m : t[k] = s[places[k]]
    BY <1>3
  <2>3. Elements(places) = {places[k] : k \in 1..m}
    BY <1>1 DEF Elements
  <2>4. PICK E : E = Elements(places)
    OBVIOUS
  <2>5. {t[k] : k \in 1..m} \subseteq {s[i] : i \in E}
    <3>1. \A k \in 1..m : places[k] \in E
      BY <2>3, <2>4
    <3>. QED
      BY <2>2, <3>1
  <2>6. {s[i] : i \in E} \subseteq {t[k] : k \in 1..m}
    <3>1. \A i \in E : \E k \in 1..m : i = places[k]
      BY <2>3, <2>4
    <3>. QED
      BY <2>2, <3>1
  <2>. QED
    BY <2>1, <2>4, <2>5, <2>6
<1>. QED
  BY <1>1, <1>2, <1>3, <1>4, <1>6, <1>7 DEF IsTaken

(* Sorting by a number.                                                    *)
Descends(t, key) == \A i, j \in 1..Len(t) : i < j => key[t[j]] <= key[t[i]]
SortedSo(A, s, n, key, t) ==
  t \in Seq(A) /\ Len(t) = n /\ Elements(t) = Elements(s) /\ Descends(t, key)
SortedBy(s, n, key) ==
  Knowledge!Taken(s, Knowledge!InOrder(n,
    {p \in (1..n) \X (1..n) : key[s[p[1]]] > key[s[p[2]]]}))

(* A sort by a number sorts so.                                            *)
LEMMA SortedByNumber ==
  ASSUME NEW A, NEW s \in Seq(A), NEW key, key \in [A -> Int]
  PROVE  SortedSo(A, s, Len(s), key, SortedBy(s, Len(s), key))
<1>1. PICK n \in Nat : n = Len(s)
  OBVIOUS
<1>2. PICK at : at = [i \in 1..n |-> key[s[i]]]
  OBVIOUS
<1>3. \A i \in 1..n : s[i] \in A
  BY <1>1
<1>4. at \in [1..n -> Int]
  BY <1>2, <1>3
<1>5. PICK over : over = {p \in (1..n) \X (1..n) : at[p[1]] > at[p[2]]}
  OBVIOUS
<1>6. over = {p \in (1..n) \X (1..n) : key[s[p[1]]] > key[s[p[2]]]}
  BY <1>2, <1>5
<1>7. PICK order : order = Knowledge!InOrder(n, over)
  OBVIOUS
<1>8. ByNumber(n, at, order)
  BY <1>4, <1>5, <1>7, InOrderByNumber
<1>9. /\ order \in Seq(1..n) /\ Len(order) = n /\ Elements(order) = 1..n
      /\ \A k, m \in 1..n : k < m => ~(at[order[m]] > at[order[k]])
  BY <1>8 DEF ByNumber
<1>10. PICK t : t = Knowledge!Taken(s, order)
  OBVIOUS
<1>11. /\ t \in Seq(A) /\ Len(t) = n
       /\ \A k \in 1..n : order[k] \in 1..n /\ t[k] = s[order[k]]
       /\ Elements(t) = {s[i] : i \in 1..n}
  <2>1. IsTaken(A, s, n, order, t)
    BY <1>1, <1>9, <1>10, TakenAt
  <2>. QED
    BY <1>9, <2>1 DEF IsTaken
<1>12. Elements(t) = Elements(s)
  BY <1>1, <1>11 DEF Elements
<1>13. Descends(t, key)
  <2>. SUFFICES ASSUME NEW i \in 1..n, NEW j \in 1..n, i < j PROVE key[t[j]] <= key[t[i]]
    BY <1>11 DEF Descends
  <2>1. PICK a \in 1..n, b \in 1..n : a = order[i] /\ b = order[j]
    BY <1>11
  <2>2. ~(at[b] > at[a])
    BY <1>9, <2>1
  <2>3. at[a] = key[t[i]] /\ at[b] = key[t[j]]
    BY <1>2, <1>11, <2>1
  <2>4. at[a] \in Int /\ at[b] \in Int
    BY <1>4
  <2>. QED
    BY <2>2, <2>3, <2>4
<1>14. SortedBy(s, n, key) = t
  BY <1>6, <1>7, <1>10 DEF SortedBy
<1>15. SortedSo(A, s, n, key, t)
  BY <1>11, <1>12, <1>13 DEF SortedSo
<1>. QED
  BY <1>1, <1>14, <1>15

Similarity(U) == [m \in Memories(U) |-> m.similarity]
Score(U) == [m \in Memories(U) |-> Knowledge!HybridScore(m)]

(* Memories are sorted by their likeness and by their scores.              *)
LEMMA MemoriesSort ==
  ASSUME NEW U, NEW s \in Seq(Memories(U))
  PROVE  /\ BySimilarity(s) \in Seq(Memories(U)) /\ Len(BySimilarity(s)) = Len(s)
         /\ Elements(BySimilarity(s)) = Elements(s)
         /\ Descends(BySimilarity(s), Similarity(U))
         /\ ByScore(s) \in Seq(Memories(U)) /\ Elements(ByScore(s)) = Elements(s)
         /\ Descends(ByScore(s), Score(U))
<1>1. \A m \in Memories(U) : m.similarity \in Int /\ Knowledge!HybridScore(m) \in Int
  BY DEF Memories, Knowledge!HybridScore
<1>2. Similarity(U) \in [Memories(U) -> Int] /\ Score(U) \in [Memories(U) -> Int]
  BY <1>1 DEF Similarity, Score
<1>3. PICK n \in Nat : n = Len(s) /\ \A i \in 1..n : s[i] \in Memories(U)
  OBVIOUS
<1>4. {p \in (1..n) \X (1..n) : s[p[1]].similarity > s[p[2]].similarity}
        = {p \in (1..n) \X (1..n) : Similarity(U)[s[p[1]]] > Similarity(U)[s[p[2]]]}
  BY <1>3 DEF Similarity
<1>5. {p \in (1..n) \X (1..n) :
         Knowledge!HybridScore(s[p[1]]) > Knowledge!HybridScore(s[p[2]])}
        = {p \in (1..n) \X (1..n) : Score(U)[s[p[1]]] > Score(U)[s[p[2]]]}
  BY <1>3 DEF Score
<1>6. PICK near : near = Similarity(U)
  OBVIOUS
<1>7. PICK high : high = Score(U)
  OBVIOUS
<1>8. /\ BySimilarity(s) \in Seq(Memories(U)) /\ Len(BySimilarity(s)) = Len(s)
      /\ Elements(BySimilarity(s)) = Elements(s)
      /\ Descends(BySimilarity(s), near)
  <2>1. BySimilarity(s) = SortedBy(s, Len(s), near)
    BY <1>3, <1>4, <1>6 DEF BySimilarity, SortedBy
  <2>2. near \in [Memories(U) -> Int]
    BY <1>2, <1>6
  <2>. QED
    BY <2>1, <2>2, SortedByNumber DEF SortedSo
<1>9. /\ ByScore(s) \in Seq(Memories(U)) /\ Elements(ByScore(s)) = Elements(s)
      /\ Descends(ByScore(s), high)
  <2>1. ByScore(s) = SortedBy(s, Len(s), high)
    BY <1>3, <1>5, <1>7 DEF ByScore, SortedBy
  <2>2. high \in [Memories(U) -> Int]
    BY <1>2, <1>7
  <2>. QED
    BY <2>1, <2>2, SortedByNumber DEF SortedSo
<1>. QED
  BY <1>6, <1>7, <1>8, <1>9

(* Keeping the relevant.                                                   *)
LEMMA RelevantAre ==
  ASSUME NEW U, NEW s \in Seq(Memories(U)), NEW floor
  PROVE  /\ Relevant(s, floor) \in Seq(Memories(U))
         /\ Elements(Relevant(s, floor)) = {m \in Elements(s) : m.similarity >= floor}
<1>1. PICK n \in Nat : n = Len(s) /\ DOMAIN s = 1..n
  OBVIOUS
<1>2. PICK Q : Q = {i \in 1..n : s[i].similarity >= floor}
  OBVIOUS
<1>3. PICK c : c = Knowledge!Chosen(n, Q)
  OBVIOUS
<1>4. c \in Seq(1..n) /\ Elements(c) = Q
  <2>1. Q \cap (1..n) = Q
    BY <1>2
  <2>. QED
    BY <1>3, <2>1, ChosenIs
<1>5. Relevant(s, floor) = Knowledge!Taken(s, c)
  BY <1>1, <1>2, <1>3 DEF Relevant
<1>6. /\ Knowledge!Taken(s, c) \in Seq(Memories(U))
      /\ Elements(Knowledge!Taken(s, c)) = {s[i] : i \in Q}
  <2>1. IsTaken(Memories(U), s, n, c, Knowledge!Taken(s, c))
    BY <1>1, <1>4, TakenAt
  <2>. QED
    BY <1>4, <2>1 DEF IsTaken
<1>7. {s[i] : i \in Q} = {m \in Elements(s) : m.similarity >= floor}
  BY <1>1, <1>2 DEF Elements
<1>. QED
  BY <1>5, <1>6, <1>7

(* Taking the first of each text: what is taken is in order, and before    *)
(* or at every place there is what says the same.                          *)
FirstPlaces(s, t, c) ==
  /\ \A k \in 1..Len(t) : c[k] \in 1..Len(s) /\ t[k] = s[c[k]]
  /\ \A j, k \in 1..Len(t) : j < k => c[j] < c[k] /\ t[j].text # t[k].text
  /\ \A i \in 1..Len(s) : \E k \in 1..Len(t) : c[k] <= i /\ t[k].text = s[i].text

(* The first of each text, in order.                                       *)
LEMMA OnceEachIs ==
  ASSUME NEW U, NEW s \in Seq(Memories(U))
  PROVE  OnceEach(s) \in Seq(Memories(U)) /\ \E c : FirstPlaces(s, OnceEach(s), c)
<1>1. PICK n \in Nat : n = Len(s) /\ DOMAIN s = 1..n
  OBVIOUS
<1>2. PICK Q : Q = {i \in 1..n : \A j \in 1..(i - 1) : s[j].text # s[i].text}
  OBVIOUS
<1>3. PICK c : c = Knowledge!Chosen(n, Q)
  OBVIOUS
<1>4. PICK m \in Nat : /\ m = Len(c) /\ DOMAIN c = 1..m
                       /\ \A k \in 1..m : c[k] \in 1..n /\ c[k] \in Q
                       /\ \A j, k \in 1..m : j < k => c[j] < c[k]
                       /\ \A i \in Q \cap (1..n) : \E k \in 1..m : c[k] = i
  <2>1. PICK m \in Nat :
          /\ m = Len(Knowledge!Chosen(n, Q)) /\ DOMAIN Knowledge!Chosen(n, Q) = 1..m
          /\ \A k \in 1..m : /\ Knowledge!Chosen(n, Q)[k] \in 1..n
                             /\ Knowledge!Chosen(n, Q)[k] \in Q
          /\ \A j, k \in 1..m : j < k => Knowledge!Chosen(n, Q)[j] < Knowledge!Chosen(n, Q)[k]
          /\ \A i \in Q \cap (1..n) : \E k \in 1..m : Knowledge!Chosen(n, Q)[k] = i
    BY ChosenPlaces
  <2>. QED
    BY <1>3, <2>1
<1>5. c \in Seq(1..n)
  BY <1>3, ChosenIs
<1>6. PICK t : t = OnceEach(s)
  OBVIOUS
<1>7. t = Knowledge!Taken(s, c)
  BY <1>1, <1>2, <1>3, <1>6 DEF OnceEach
<1>8. /\ t \in Seq(Memories(U)) /\ Len(t) = m
      /\ \A k \in 1..m : c[k] \in 1..n /\ t[k] = s[c[k]]
  <2>1. IsTaken(Memories(U), s, n, c, t)
    BY <1>1, <1>5, <1>7, TakenAt
  <2>. QED
    BY <1>4, <2>1 DEF IsTaken
<1>9. ASSUME NEW j \in 1..m, NEW k \in 1..m, j < k PROVE c[j] < c[k] /\ t[j].text # t[k].text
  <2>1. PICK a \in 1..n, b \in 1..n : a = c[j] /\ b = c[k] /\ a < b /\ b \in Q
    BY <1>4, <1>9
  <2>2. a \in 1..(b - 1)
    BY <2>1
  <2>3. s[a].text # s[b].text
    BY <1>2, <2>1, <2>2
  <2>. QED
    BY <1>8, <2>1, <2>3
<1>10. ASSUME NEW i \in 1..n PROVE \E k \in 1..m : c[k] <= i /\ t[k].text = s[i].text
  <2>. DEFINE R == {j \in 1..i : s[j].text = s[i].text}
  <2>1. i \in Nat /\ R \in SUBSET (1..i) /\ i \in R /\ R # {}
    OBVIOUS
  <2>2. PICK j \in R : \A h \in 1..(j - 1) : h \notin R
    <3>. HIDE DEF R
    <3>. QED
      BY <2>1, FirstOfAll
  <2>3. j \in 1..n /\ j <= i /\ s[j].text = s[i].text
    OBVIOUS
  <2>4. ASSUME NEW h \in 1..(j - 1) PROVE s[h].text # s[j].text
    <3>1. h \notin R /\ h \in 1..i
      BY <2>2, <2>3
    <3>. QED
      BY <2>3, <3>1
  <2>5. j \in Q
    BY <1>2, <2>3, <2>4
  <2>6. PICK k \in 1..m : c[k] = j
    BY <1>4, <2>3, <2>5
  <2>. QED
    BY <1>8, <2>3, <2>6
<1>11. FirstPlaces(s, t, c)
  BY <1>1, <1>8, <1>9, <1>10 DEF FirstPlaces
<1>. QED
  BY <1>6, <1>8, <1>11

(* A memory that beats another scores above it.                            *)
Beats(a, b) == /\ a.similarity > b.similarity /\ a.importance > b.importance
               /\ a.recency > b.recency /\ a.confidence > b.confidence

(* Such a memory scores above the other.                                   *)
LEMMA BeatsScores ==
  ASSUME NEW U, NEW a \in Memories(U), NEW b \in Memories(U), Beats(a, b)
  PROVE  Score(U)[a] > Score(U)[b] /\ Similarity(U)[a] > Similarity(U)[b]
<1>1. /\ a.similarity \in Int /\ a.importance \in Int /\ a.recency \in Int /\ a.confidence \in Int
      /\ b.similarity \in Int /\ b.importance \in Int /\ b.recency \in Int /\ b.confidence \in Int
  BY DEF Memories
<1>2. Knowledge!HybridScore(a) > Knowledge!HybridScore(b)
  BY <1>1 DEF Beats, Knowledge!HybridScore
<1>. QED
  BY <1>2 DEF Beats, Score, Similarity

(* What memories are sorted by are numbers.                                *)
LEMMA NumbersOf ==
  ASSUME NEW U, NEW m \in Memories(U)
  PROVE  /\ Score(U)[m] \in Int
         /\ Similarity(U)[m] = m.similarity /\ m.similarity \in Int
<1>1. /\ m.similarity \in Int /\ m.importance \in Int
      /\ m.recency \in Int /\ m.confidence \in Int
  BY DEF Memories
<1>2. Knowledge!HybridScore(m) \in Int
  BY <1>1 DEF Knowledge!HybridScore
<1>. QED
  BY <1>1, <1>2 DEF Score, Similarity

(* As many texts as memories when no two say the same.                     *)
LEMMA MemoriesCounted ==
  ASSUME NEW U, NEW found \in Seq(Memories(U)),
         \A j, k \in 1..Len(found) : j < k => found[j].text # found[k].text
  PROVE  Knowledge!Cardinality({found[i].text : i \in DOMAIN found}) = Len(found)
<1>1. PICK n \in Nat : n = Len(found) /\ DOMAIN found = 1..n
  OBVIOUS
<1>2. PICK W : W = {found[i].text : i \in 1..n}
  OBVIOUS
<1>3. PICK f : f = [i \in 1..n |-> found[i].text]
  OBVIOUS
<1>4. f \in Bijection(1..n, W)
  <2>1. f \in [1..n -> W] /\ \A w \in W : \E i \in 1..n : f[i] = w
    BY <1>2, <1>3
  <2>2. \A i, j \in 1..n : f[i] = f[j] => i = j
    <3>. SUFFICES ASSUME NEW i \in 1..n, NEW j \in 1..n, f[i] = f[j], i # j PROVE FALSE
      OBVIOUS
    <3>1. i < j \/ j < i
      OBVIOUS
    <3>. QED
      BY <1>1, <1>3, <3>1
  <2>. QED
    BY <2>1, <2>2 DEF Bijection, Injection, Surjection, IsInjective
<1>5. ExistsBijection(1..n, W)
  BY <1>4 DEF ExistsBijection
<1>6. Cardinality(W) = n
  BY <1>5, FS_CountingElements
<1>. QED
  BY <1>1, <1>2, <1>6, CountedAlike

(* Whatever memories there are, whatever the floor and the limit, what is  *)
(* retrieved is relevant and said once, and nothing comes before or        *)
(* instead of what beats it (memory_retrieval_service.py,                  *)
(* retrieve_memories).                                                     *)
THEOREM RetrievesWhatIsRelevant ==
  ASSUME NEW U, NEW pool \in Seq(Memories(U)), NEW floor \in Int, NEW limit \in Nat,
         RETRIEVAL_CANDIDATE_MULTIPLIER \in Nat
  PROVE  Knowledge!RetrievesTheRelevant(pool, floor, limit)
<1>. DEFINE A == Memories(U)
<1>1. PICK most \in Nat : most = RETRIEVAL_CANDIDATE_MULTIPLIER * limit
  OBVIOUS
<1>2. PICK near, cands, kept, ranked, once, found :
        /\ near = BySimilarity(pool) /\ cands = Candidates(pool, limit)
        /\ kept = Relevant(cands, floor) /\ ranked = ByScore(kept)
        /\ once = OnceEach(ranked) /\ found = Knowledge!UpTo(limit, once)
  OBVIOUS
<1>3. found = Knowledge!RetrieveMemories(pool, floor, limit)
  BY <1>2, RetrievedMemoriesAre
<1>4. PICK n \in Nat : n = Len(pool)
  OBVIOUS
<1>5. /\ near \in Seq(A) /\ Len(near) = n /\ Elements(near) = Elements(pool)
      /\ Descends(near, Similarity(U))
  BY <1>2, <1>4, MemoriesSort
<1>6. /\ cands \in Seq(A) /\ Len(cands) = Least(most, n)
      /\ \A k \in 1..Least(most, n) : cands[k] = near[k]
  <2>1. Begins(A, near, cands, Least(most, n))
    BY <1>1, <1>2, <1>5, BeginningIs DEF Candidates
  <2>. QED
    BY <2>1 DEF Begins
<1>7. kept \in Seq(A) /\ Elements(kept) = {m \in Elements(cands) : m.similarity >= floor}
  BY <1>2, <1>6, RelevantAre
<1>8. ranked \in Seq(A) /\ Elements(ranked) = Elements(kept) /\ Descends(ranked, Score(U))
  BY <1>2, <1>7, MemoriesSort
<1>9. PICK c : once \in Seq(A) /\ FirstPlaces(ranked, once, c)
  BY <1>2, <1>8, OnceEachIs
<1>10. PICK r \in Nat, o \in Nat : r = Len(ranked) /\ o = Len(once)
  BY <1>8, <1>9
<1>11. /\ \A k \in 1..o : c[k] \in 1..r /\ once[k] = ranked[c[k]]
       /\ \A j, k \in 1..o : j < k => c[j] < c[k] /\ once[j].text # once[k].text
       /\ \A i \in 1..r : \E k \in 1..o : c[k] <= i /\ once[k].text = ranked[i].text
  BY <1>9, <1>10 DEF FirstPlaces
<1>12. PICK w \in Nat : w = Least(limit, o)
  BY DEF Least
<1>13. found \in Seq(A) /\ Len(found) = w /\ \A k \in 1..w : found[k] = once[k]
  <2>1. Begins(A, once, found, Least(limit, o))
    BY <1>2, <1>9, <1>10, BeginningIs
  <2>. QED
    BY <1>12, <2>1 DEF Begins
<1>14. w <= limit /\ w <= o /\ (w < limit => w = o)
  BY <1>12 DEF Least
<1>15. DOMAIN found = 1..w
  BY <1>13
<1>16. \A k \in 1..w : /\ c[k] \in 1..r /\ found[k] = ranked[c[k]] /\ found[k] \in A
                       /\ found[k] \in Elements(ranked)
  <2>. SUFFICES ASSUME NEW k \in 1..w
                PROVE  /\ c[k] \in 1..r /\ found[k] = ranked[c[k]] /\ found[k] \in A
                       /\ found[k] \in Elements(ranked)
    OBVIOUS
  <2>1. k \in 1..o
    BY <1>14
  <2>2. c[k] \in 1..r /\ found[k] = ranked[c[k]]
    BY <1>11, <1>13, <2>1
  <2>3. found[k] \in A
    BY <1>13
  <2>. QED
    BY <1>10, <2>2, <2>3 DEF Elements
<1>17. \A j, k \in 1..w : j < k => found[j].text # found[k].text
  <2>. SUFFICES ASSUME NEW j \in 1..w, NEW k \in 1..w, j < k
                PROVE  found[j].text # found[k].text
    OBVIOUS
  <2>1. j \in 1..o /\ k \in 1..o
    BY <1>14
  <2>2. found[j] = once[j] /\ found[k] = once[k]
    BY <1>13
  <2>. QED
    BY <1>11, <2>1, <2>2
<1>18. Knowledge!Cardinality({found[i].text : i \in DOMAIN found}) = Len(found)
  BY <1>13, <1>17, MemoriesCounted
<1>19. \A m \in Elements(ranked) : m.similarity >= floor /\ m \in Elements(cands)
  BY <1>7, <1>8
<1>20. ASSUME NEW i \in 1..w, NEW j \in 1..w, i < j PROVE ~Beats(found[j], found[i])
  <2>1. i \in 1..o /\ j \in 1..o
    BY <1>14
  <2>2. PICK a \in 1..r, b \in 1..r : a = c[i] /\ b = c[j] /\ a < b
    <3>1. c[i] < c[j]
      BY <1>11, <1>20, <2>1
    <3>. QED
      BY <1>16, <3>1
  <2>3. Score(U)[found[j]] <= Score(U)[found[i]]
    BY <1>8, <1>10, <1>16, <2>2 DEF Descends
  <2>4. Score(U)[found[j]] \in Int /\ Score(U)[found[i]] \in Int
    <3>1. \A m \in A : Score(U)[m] \in Int
      BY NumbersOf
    <3>. QED
      BY <1>16, <3>1
  <2>5. Beats(found[j], found[i]) => Score(U)[found[j]] > Score(U)[found[i]]
    BY <1>16, BeatsScores
  <2>. QED
    BY <2>3, <2>4, <2>5
<1>21. \A i \in 1..w : found[i].similarity >= floor
  BY <1>16, <1>19
<1>. DEFINE texts == {found[i].text : i \in DOMAIN found}
<1>22. ASSUME NEW m \in Elements(kept) PROVE \E p \in 1..r : ranked[p] = m
  BY <1>8, <1>10 DEF Elements
<1>23. ASSUME NEW m \in Elements(pool), NEW i \in 1..w, Beats(m, found[i]) PROVE m.text \in texts
  <2>1. m \in A
    BY DEF Elements
  <2>2. Score(U)[m] > Score(U)[found[i]] /\ Similarity(U)[m] > Similarity(U)[found[i]]
    BY <1>16, <1>23, <2>1, BeatsScores
  <2>3. /\ \A x \in A : Score(U)[x] \in Int /\ Similarity(U)[x] \in Int
        /\ \A x \in A : Similarity(U)[x] = x.similarity /\ x.similarity \in Int
    BY NumbersOf
  <2>4. PICK l \in Nat : l = Least(most, n) /\ l <= n
    BY DEF Least
  <2>5. PICK k \in 1..l : near[k] = found[i]
    <3>1. found[i] \in Elements(cands)
      BY <1>16, <1>19
    <3>2. PICK k \in 1..l : cands[k] = found[i]
      BY <1>6, <2>4, <3>1 DEF Elements
    <3>. QED
      BY <1>6, <2>4, <3>2
  <2>6. PICK h \in 1..n : near[h] = m
    <3>1. m \in Elements(near)
      BY <1>5
    <3>. QED
      BY <1>5, <3>1 DEF Elements
  <2>7. h < k
    <3>1. k < h => Similarity(U)[near[h]] <= Similarity(U)[near[k]]
      BY <1>5, <2>4 DEF Descends
    <3>2. Similarity(U)[m] \in Int /\ Similarity(U)[found[i]] \in Int
      BY <1>16, <2>1, <2>3
    <3>3. h # k /\ ~(k < h)
      BY <2>2, <2>5, <2>6, <3>1, <3>2
    <3>. QED
      BY <2>4, <3>3
  <2>8. m \in Elements(kept)
    <3>1. h \in 1..l /\ cands[h] = m
      BY <1>6, <2>4, <2>6, <2>7
    <3>2. m \in Elements(cands)
      BY <1>6, <2>4, <3>1 DEF Elements
    <3>3. m.similarity >= floor
      <4>1. found[i].similarity >= floor /\ m.similarity > found[i].similarity
        BY <1>21, <1>23 DEF Beats
      <4>2. m.similarity \in Int /\ found[i].similarity \in Int
        BY <1>16, <2>1, <2>3
      <4>. QED
        BY <4>1, <4>2
    <3>. QED
      BY <1>7, <3>2, <3>3
  <2>9. PICK p \in 1..r : ranked[p] = m
    BY <1>22, <2>8
  <2>10. PICK a \in 1..r : a = c[i] /\ ranked[a] = found[i]
    BY <1>16
  <2>11. p < a
    <3>1. a < p => Score(U)[ranked[p]] <= Score(U)[ranked[a]]
      BY <1>8, <1>10 DEF Descends
    <3>2. Score(U)[m] \in Int /\ Score(U)[found[i]] \in Int
      BY <1>16, <2>1, <2>3
    <3>3. p # a /\ ~(a < p)
      BY <2>2, <2>9, <2>10, <3>1, <3>2
    <3>. QED
      BY <3>3
  <2>12. PICK q \in 1..o : c[q] <= p /\ once[q].text = m.text
    BY <1>11, <2>9
  <2>13. q < i
    <3>1. i \in 1..o
      BY <1>14
    <3>2. PICK d \in 1..r : d = c[q] /\ d <= p
      BY <1>11, <2>12
    <3>3. i < q => a < d
      BY <1>11, <2>10, <3>1, <3>2
    <3>4. i = q => a = d
      BY <2>10, <3>2
    <3>. QED
      BY <2>11, <3>1, <3>2, <3>3, <3>4
  <2>14. q \in 1..w /\ found[q].text = m.text
    BY <1>13, <2>12, <2>13
  <2>. QED
    BY <1>15, <2>14
<1>24. ASSUME NEW m \in Elements(pool), m.similarity >= floor, w < limit, n <= most
       PROVE  m.text \in texts
  <2>1. Least(most, n) = n
    BY <1>24 DEF Least
  <2>2. PICK h \in 1..n : near[h] = m
    <3>1. m \in Elements(near)
      BY <1>5
    <3>. QED
      BY <1>5, <3>1 DEF Elements
  <2>3. m \in Elements(cands)
    BY <1>6, <2>1, <2>2 DEF Elements
  <2>4. PICK p \in 1..r : ranked[p] = m
    BY <1>7, <1>22, <1>24, <2>3
  <2>5. PICK q \in 1..o : once[q].text = m.text
    BY <1>11, <2>4
  <2>6. q \in 1..w
    BY <1>14, <1>24
  <2>7. found[q].text = m.text
    BY <1>13, <2>5, <2>6
  <2>. QED
    BY <1>15, <2>6, <2>7
<1>25. Knowledge!ToSet(pool) = Elements(pool)
  BY DEF Knowledge!ToSet, Elements
<1>. HIDE DEF texts
<1>26. /\ Len(found) <= limit /\ Knowledge!Cardinality(texts) = Len(found)
       /\ \A i, j \in DOMAIN found : i < j => ~Beats(found[j], found[i])
       /\ \A i \in DOMAIN found : found[i].similarity >= floor
       /\ \A m \in Knowledge!ToSet(pool) \ Knowledge!ToSet(found) :
            /\ \A i \in DOMAIN found : Beats(m, found[i]) => m.text \in texts
            /\ m.similarity >= floor /\ Len(found) < limit
                 /\ Len(pool) <= RETRIEVAL_CANDIDATE_MULTIPLIER * limit
               => m.text \in texts
  <2>1. Len(found) <= limit
    BY <1>13, <1>14
  <2>2. Knowledge!Cardinality(texts) = Len(found)
    BY <1>18 DEF texts
  <2>3. \A m \in Elements(pool) : \A i \in DOMAIN found : Beats(m, found[i]) => m.text \in texts
    BY <1>15, <1>23
  <2>4. \A m \in Elements(pool) :
          m.similarity >= floor /\ Len(found) < limit
            /\ Len(pool) <= RETRIEVAL_CANDIDATE_MULTIPLIER * limit => m.text \in texts
    BY <1>1, <1>4, <1>13, <1>24
  <2>. QED
    BY <1>15, <1>20, <1>21, <1>25, <2>1, <2>2, <2>3, <2>4
<1>. QED
  BY <1>3, <1>26 DEF Knowledge!RetrievesTheRelevant, Beats, texts

(* What a reader of so many memories is given of those nearest to a query. *)
Enough == Knowledge!RETRIEVAL_MIN_SEMANTIC_SIMILARITY
AsGiven(m) == [score |-> Knowledge!HybridScore(m), text |-> m.text, cost |-> m.cost]
Picked(pool, limit) == OnceEach(ByScore(Relevant(Candidates(pool, limit), Enough)))
Looked(pool, limit) == Least(RETRIEVAL_CANDIDATE_MULTIPLIER * limit, Len(pool))
RecallOf(U, once, limit, recall) ==
  /\ once \in Seq(Memories(U)) /\ recall \in Seq(Remembered(U))
  /\ Len(recall) = Least(limit, Len(once))
  /\ \A k \in 1..Len(recall) : recall[k] = AsGiven(once[k])
Matched(recall, m) ==
  \E k \in 1..Len(recall) :
    recall[k].text = m.text /\ recall[k].score >= Knowledge!HybridScore(m)
Crowded(recall, limit, m) ==
  /\ Len(recall) = limit
  /\ \A k \in 1..Len(recall) : recall[k].score >= Knowledge!HybridScore(m)
RecalledOf(near, looked, limit, recall) ==
  /\ \A k \in 1..Len(recall) : \E h \in 1..looked :
       near[h].similarity >= Enough /\ recall[k] = AsGiven(near[h])
  /\ \A h \in 1..looked : near[h].similarity >= Enough =>
       Matched(recall, near[h]) \/ Crowded(recall, limit, near[h])

(* A reader is given of each memory it looked at the best that says the    *)
(* same, unless it is given as many as it wanted, of no lower score.       *)
LEMMA RecallIs ==
  ASSUME NEW U, NEW pool \in Seq(Memories(U)), NEW limit \in Nat,
         RETRIEVAL_CANDIDATE_MULTIPLIER \in Nat
  PROVE  /\ RecallOf(U, Picked(pool, limit), limit, Knowledge!Recall(pool, limit))
         /\ RecalledOf(BySimilarity(pool), Looked(pool, limit), limit,
                       Knowledge!Recall(pool, limit))
<1>. DEFINE A == Memories(U)
<1>1. PICK most \in Nat, n \in Nat :
        most = RETRIEVAL_CANDIDATE_MULTIPLIER * limit /\ n = Len(pool)
  OBVIOUS
<1>2. PICK floor \in Int : floor = Enough
  BY DEF Enough, Knowledge!RETRIEVAL_MIN_SEMANTIC_SIMILARITY
<1>3. PICK near, cands, kept, ranked, once, found, recall :
        /\ near = BySimilarity(pool) /\ cands = Candidates(pool, limit)
        /\ kept = Relevant(cands, floor) /\ ranked = ByScore(kept)
        /\ once = OnceEach(ranked) /\ found = Knowledge!UpTo(limit, once)
        /\ recall = Knowledge!Recall(pool, limit)
  OBVIOUS
<1>4. once = Picked(pool, limit)
  BY <1>2, <1>3 DEF Picked
<1>5. found = Knowledge!RetrieveMemories(pool, floor, limit)
  BY <1>3, RetrievedMemoriesAre
<1>6. PICK l \in Nat : l = Least(most, n) /\ l <= n /\ l = Looked(pool, limit)
  BY <1>1 DEF Least, Looked
<1>7. near \in Seq(A) /\ Len(near) = n
  BY <1>1, <1>3, MemoriesSort
<1>8. cands \in Seq(A) /\ Len(cands) = l /\ \A k \in 1..l : cands[k] = near[k]
  <2>1. Begins(A, near, cands, l)
    BY <1>1, <1>3, <1>6, <1>7, BeginningIs DEF Candidates
  <2>. QED
    BY <2>1 DEF Begins
<1>9. kept \in Seq(A) /\ Elements(kept) = {m \in Elements(cands) : m.similarity >= floor}
  BY <1>3, <1>8, RelevantAre
<1>10. ranked \in Seq(A) /\ Elements(ranked) = Elements(kept) /\ Descends(ranked, Score(U))
  BY <1>3, <1>9, MemoriesSort
<1>11. PICK c : once \in Seq(A) /\ FirstPlaces(ranked, once, c)
  BY <1>3, <1>10, OnceEachIs
<1>12. PICK r \in Nat, o \in Nat : r = Len(ranked) /\ o = Len(once)
  BY <1>10, <1>11
<1>13. /\ \A k \in 1..o : c[k] \in 1..r /\ once[k] = ranked[c[k]]
       /\ \A j, k \in 1..o : j < k => c[j] < c[k]
       /\ \A i \in 1..r : \E k \in 1..o : c[k] <= i /\ once[k].text = ranked[i].text
  BY <1>11, <1>12 DEF FirstPlaces
<1>14. PICK w \in Nat : w = Least(limit, o) /\ w <= o /\ (w < o => w = limit)
  BY DEF Least
<1>15. found \in Seq(A) /\ Len(found) = w /\ \A k \in 1..w : found[k] = once[k]
  <2>1. Begins(A, once, found, w)
    BY <1>3, <1>11, <1>12, <1>14, BeginningIs
  <2>. QED
    BY <2>1 DEF Begins
<1>16. \A m \in A : /\ AsGiven(m) \in Remembered(U) /\ Score(U)[m] = Knowledge!HybridScore(m)
                    /\ Score(U)[m] \in Int
  BY DEF AsGiven, Remembered, Score, Memories, Knowledge!HybridScore
<1>17. recall \in Seq(Remembered(U)) /\ Len(recall) = w
       /\ \A k \in 1..w : recall[k] = AsGiven(once[k])
  <2>1. DOMAIN found = 1..w
    BY <1>15
  <2>2. recall = [k \in 1..w |-> AsGiven(found[k])]
    BY <1>2, <1>3, <1>5, <2>1 DEF Knowledge!Recall, AsGiven, Enough
  <2>3. \A k \in 1..w : found[k] \in A
    BY <1>15
  <2>4. recall \in [1..w -> Remembered(U)]
    BY <1>16, <2>2, <2>3
  <2>. QED
    BY <1>15, <2>2, <2>4
<1>18. RecallOf(U, once, limit, recall)
  BY <1>11, <1>12, <1>14, <1>17 DEF RecallOf
<1>19. \A k \in 1..o : once[k] \in A /\ once[k] \in Elements(ranked)
  <2>1. \A k \in 1..o : once[k] \in A
    BY <1>11, <1>12
  <2>. QED
    BY <1>12, <1>13, <2>1 DEF Elements
<1>20. ASSUME NEW k \in 1..w
       PROVE  \E h \in 1..l : near[h].similarity >= floor /\ recall[k] = AsGiven(near[h])
  <2>1. k \in 1..o
    BY <1>14
  <2>2. once[k] \in Elements(cands) /\ once[k].similarity >= floor
    BY <1>9, <1>10, <1>19, <2>1
  <2>3. PICK h \in 1..l : cands[h] = once[k]
    BY <1>8, <2>2 DEF Elements
  <2>. QED
    BY <1>8, <1>17, <2>2, <2>3
<1>21. ASSUME NEW h \in 1..l, near[h].similarity >= floor
       PROVE  Matched(recall, near[h]) \/ Crowded(recall, limit, near[h])
  <2>1. PICK m \in A : m = near[h]
    BY <1>6, <1>7
  <2>2. m \in Elements(ranked)
    <3>1. m \in Elements(cands)
      BY <1>8, <2>1 DEF Elements
    <3>. QED
      BY <1>9, <1>10, <1>21, <2>1, <3>1
  <2>3. PICK p \in 1..r : ranked[p] = m
    BY <1>12, <2>2 DEF Elements
  <2>4. PICK q \in 1..o : c[q] <= p /\ once[q].text = m.text
    BY <1>13, <2>3
  <2>5. ASSUME NEW k \in 1..o, c[k] <= p PROVE AsGiven(once[k]).score >= Knowledge!HybridScore(m)
    <3>1. PICK a \in 1..r : a = c[k] /\ a <= p /\ ranked[a] = once[k]
      BY <1>13, <2>5
    <3>2. a < p => Score(U)[ranked[p]] <= Score(U)[ranked[a]]
      BY <1>10, <1>12 DEF Descends
    <3>3. Score(U)[once[k]] >= Score(U)[m]
      <4>1. Score(U)[once[k]] \in Int /\ Score(U)[m] \in Int
        BY <1>16, <1>19
      <4>2. a = p => once[k] = m
        BY <2>3, <3>1
      <4>. QED
        BY <2>3, <3>1, <3>2, <4>1, <4>2
    <3>. QED
      BY <1>16, <1>19, <3>3 DEF AsGiven
  <2>6. CASE q \in 1..w
    <3>1. recall[q].text = m.text /\ recall[q].score >= Knowledge!HybridScore(m)
      BY <1>17, <2>4, <2>5, <2>6 DEF AsGiven
    <3>. QED
      BY <1>17, <2>1, <2>6, <3>1 DEF Matched
  <2>7. CASE q \notin 1..w
    <3>1. w < q /\ w = limit
      BY <1>14, <2>7
    <3>2. ASSUME NEW k \in 1..w PROVE recall[k].score >= Knowledge!HybridScore(m)
      <4>1. k \in 1..o /\ k < q
        BY <1>14, <3>1
      <4>2. PICK a \in 1..r, b \in 1..r : a = c[k] /\ b = c[q] /\ a < b /\ b <= p
        BY <1>13, <2>4, <4>1
      <4>3. c[k] <= p
        BY <4>2
      <4>. QED
        BY <1>17, <2>5, <4>1, <4>3
    <3>. QED
      BY <1>17, <2>1, <3>1, <3>2 DEF Crowded
  <2>. QED
    BY <2>6, <2>7
<1>22. RecalledOf(near, l, limit, recall)
  BY <1>2, <1>17, <1>20, <1>21 DEF RecalledOf
<1>. QED
  BY <1>3, <1>4, <1>6, <1>18, <1>22

(* Whatever a user has and whatever breaks down, an agent's pack agrees    *)
(* with the fallback core's context: on goals and files, and on memories   *)
(* as far as the smaller pool of candidates lets the core see them         *)
(* (context_builder.py, build; knowledge_retrieval_service.py, retrieve).  *)
THEOREM PacksAgreeWithTheCore ==
  ASSUME NEW U, NEW K, NEW known, NEW broken,
         RETRIEVAL_CANDIDATE_MULTIPLIER \in Nat,
         KNOWLEDGE_MAX_MEMORIES \in Nat, DEFAULT_CONTEXT_MAX_MEMORIES \in Nat,
         KNOWLEDGE_MAX_MEMORIES <= DEFAULT_CONTEXT_MAX_MEMORIES,
         known.memories \in Seq(Memories(U)), known.tasks \in Seq(K),
         known.attached \in BOOLEAN, known.foreign \in BOOLEAN
  PROVE  Knowledge!PacksAgree(known, broken)
<1>1. PICK p, c : /\ p = Knowledge!BuildPack(known, broken)
                  /\ c = Knowledge!Retrieve(known, broken, FALSE)
  OBVIOUS
<1>2. \A source : Gone(source, broken, FALSE) <=> source \in broken
  BY DEF Gone
<1>3. Raises(known, broken, FALSE) => Refuses(known, broken)
  BY <1>2 DEF Raises, Refuses
<1>4. Refuses(known, broken) /\ ~Raises(known, broken, FALSE) =>
        broken \cap {"memory", "task"} # {}
  BY <1>2 DEF Raises, Refuses
<1>5. /\ p.raised <=> Refuses(known, broken)
      /\ c.raised <=> Raises(known, broken, FALSE)
  BY <1>1, BuiltIs, RetrievedIs
<1>. DEFINE Covers(m) ==
       \/ \E n \in Knowledge!ToSet(p.memories) : n.text = m.text /\ n.score >= m.score
       \/ /\ Len(p.memories) = DEFAULT_CONTEXT_MAX_MEMORIES
          /\ \A n \in Knowledge!ToSet(p.memories) : n.score >= m.score
<1>6. ASSUME ~p.raised
      PROVE  /\ \A m \in Knowledge!ToSet(c.memories) : Covers(m)
             /\ Len(known.memories) <= RETRIEVAL_CANDIDATE_MULTIPLIER * KNOWLEDGE_MAX_MEMORIES
                  => Knowledge!IsPrefix(c.memories, p.memories)
             /\ c.goals = p.goals /\ c.files = p.files
             /\ c.inventory = p.inventory
             /\ Len(known.tasks) > 0 => p.tasks # << >>
  <2>. HIDE DEF Covers
  <2>1. ~Refuses(known, broken) /\ ~Raises(known, broken, FALSE)
    BY <1>3, <1>5, <1>6
  <2>2. "memory" \notin broken
    BY <2>1 DEF Refuses
  <2>3. /\ c.memories = Knowledge!Recall(known.memories, KNOWLEDGE_MAX_MEMORIES)
        /\ c.goals = Left("goal" \in broken, Knowledge!UpTo(5, known.goals))
        /\ c.files = Left("file" \in broken, Knowledge!UpTo(8, known.files))
        /\ c.inventory = (IF "file" \in broken THEN 0 ELSE known.inventory)
    BY <1>1, <1>2, <2>1, <2>2, RetrievedIs DEF Left
  <2>4. /\ p.memories = Knowledge!Recall(known.memories, DEFAULT_CONTEXT_MAX_MEMORIES)
        /\ p.goals = c.goals /\ p.files = c.files /\ p.inventory = c.inventory
        /\ p.tasks = Knowledge!UpTo(10, known.tasks)
    BY <1>1, <2>1, <2>3, BuiltIs
  <2>5. PICK few \in Nat, many \in Nat, n \in Nat, per \in Nat :
          /\ few = KNOWLEDGE_MAX_MEMORIES /\ many = DEFAULT_CONTEXT_MAX_MEMORIES
          /\ few <= many /\ n = Len(known.memories) /\ per = RETRIEVAL_CANDIDATE_MULTIPLIER
    <3>1. PICK n \in Nat : n = Len(known.memories)
      OBVIOUS
    <3>. QED
      BY <3>1, Zenon
  <2>6. PICK near, x, y : /\ near = BySimilarity(known.memories)
                          /\ x = c.memories /\ y = p.memories
    OBVIOUS
  <2>7. /\ RecallOf(U, Picked(known.memories, few), few, x)
        /\ RecalledOf(near, Looked(known.memories, few), few, x)
    BY <2>3, <2>5, <2>6, RecallIs
  <2>8. /\ RecallOf(U, Picked(known.memories, many), many, y)
        /\ RecalledOf(near, Looked(known.memories, many), many, y)
    BY <2>4, <2>5, <2>6, RecallIs
  <2>9. PICK a \in Nat, b \in Nat : /\ a = Looked(known.memories, few)
                                    /\ b = Looked(known.memories, many) /\ a <= b
    <3>1. PICK f \in Nat, g \in Nat : f = per * few /\ g = per * many
      OBVIOUS
    <3>2. f <= g
      <4>1. PICK d \in Nat : many = few + d
        <5>1. many - few \in Nat /\ many = few + (many - few)
          BY <2>5
        <5>. QED
          BY <5>1
      <4>2. per * many = per * few + per * d /\ per * d \in Nat
        BY <4>1
      <4>. QED
        BY <3>1, <4>2
    <3>. QED
      BY <2>5, <3>1, <3>2 DEF Looked, Least
  <2>10. x \in Seq(Remembered(U)) /\ y \in Seq(Remembered(U))
    BY <2>7, <2>8 DEF RecallOf
  <2>11. PICK v \in Nat, w \in Nat : v = Len(x) /\ w = Len(y)
    BY <2>10
  <2>12. /\ Knowledge!ToSet(x) = {x[k] : k \in 1..v}
         /\ Knowledge!ToSet(y) = {y[k] : k \in 1..w}
    <3>1. DOMAIN x = 1..v /\ DOMAIN y = 1..w
      BY <2>10, <2>11
    <3>. QED
      BY <3>1, Zenon DEF Knowledge!ToSet
  <2>13. ASSUME NEW k \in 1..v PROVE Covers(x[k])
    <3>1. PICK h \in 1..a : near[h].similarity >= Enough /\ x[k] = AsGiven(near[h])
      BY <2>7, <2>9, <2>11 DEF RecalledOf
    <3>2. h \in 1..b
      BY <2>9
    <3>3. Matched(y, near[h]) \/ Crowded(y, many, near[h])
      BY <2>8, <2>9, <3>1, <3>2 DEF RecalledOf
    <3>4. x[k].text = near[h].text /\ x[k].score = Knowledge!HybridScore(near[h])
      BY <3>1 DEF AsGiven
    <3>5. CASE Matched(y, near[h])
      <4>1. PICK i \in 1..w : y[i].text = x[k].text /\ y[i].score >= x[k].score
        BY <2>11, <3>4, <3>5 DEF Matched
      <4>2. y[i] \in Knowledge!ToSet(y)
        BY <2>12
      <4>. QED
        BY <2>6, <4>1, <4>2 DEF Covers
    <3>6. CASE Crowded(y, many, near[h])
      <4>1. w = many /\ \A i \in 1..w : y[i].score >= x[k].score
        BY <2>11, <3>4, <3>6 DEF Crowded
      <4>2. \A z \in Knowledge!ToSet(y) : z.score >= x[k].score
        BY <2>12, <4>1
      <4>. QED
        BY <2>5, <2>6, <2>11, <4>1, <4>2 DEF Covers
    <3>. QED
      BY <3>3, <3>5, <3>6
  <2>14. \A m \in Knowledge!ToSet(c.memories) : Covers(m)
    BY <2>6, <2>12, <2>13
  <2>15. ASSUME n <= per * few PROVE Knowledge!IsPrefix(x, y)
    <3>1. Candidates(known.memories, few) = Candidates(known.memories, many)
      <4>1. Len(near) = n
        BY <2>5, <2>6, MemoriesSort
      <4>2. PICK f \in Nat, g \in Nat : f = per * few /\ g = per * many
        OBVIOUS
      <4>3. ~(f < n) /\ ~(g < n)
        <5>1. PICK d \in Nat : many = few + d
          <6>1. many - few \in Nat /\ many = few + (many - few)
            BY <2>5
          <6>. QED
            BY <6>1
        <5>2. per * many = per * few + per * d /\ per * d \in Nat
          BY <5>1
        <5>. QED
          BY <2>15, <4>2, <5>2
      <4>4. Knowledge!UpTo(f, near) = Knowledge!UpTo(g, near)
        BY <4>1, <4>3 DEF Knowledge!UpTo
      <4>. QED
        BY <2>5, <2>6, <4>2, <4>4 DEF Candidates
    <3>2. PICK once : /\ once = Picked(known.memories, few)
                      /\ once = Picked(known.memories, many)
      BY <3>1 DEF Picked
    <3>3. RecallOf(U, once, few, x) /\ RecallOf(U, once, many, y)
      BY <2>7, <2>8, <3>2
    <3>4. PICK o \in Nat : o = Len(once)
      BY <3>3 DEF RecallOf
    <3>5. v = Least(few, o) /\ w = Least(many, o)
      BY <2>11, <3>3, <3>4 DEF RecallOf
    <3>6. v <= w
      BY <2>5, <3>5 DEF Least
    <3>7. \A k \in 1..v : y[k] = x[k]
      <4>1. \A k \in 1..v : x[k] = AsGiven(once[k])
        BY <2>11, <3>3 DEF RecallOf
      <4>2. \A k \in 1..w : y[k] = AsGiven(once[k])
        BY <2>11, <3>3 DEF RecallOf
      <4>. QED
        BY <3>6, <4>1, <4>2
    <3>8. Leads(x, y)
      BY <2>11, <3>6, <3>7 DEF Leads
    <3>9. Providers!IsPrefix(x, y)
      BY <2>10, <3>8, LeadsIsPrefix
    <3>. QED
      BY <3>9 DEF Providers!IsPrefix, Knowledge!IsPrefix
  <2>16. Len(known.tasks) > 0 => p.tasks # << >>
    <3>1. PICK k \in Nat : k = Len(known.tasks)
      OBVIOUS
    <3>2. Begins(K, known.tasks, p.tasks, Least(10, k))
      BY <2>4, <3>1, BeginningIs
    <3>3. k > 0 => Least(10, k) > 0
      BY DEF Least
    <3>4. Len(p.tasks) = Least(10, k)
      BY <3>2 DEF Begins
    <3>5. k > 0 => p.tasks # << >>
      BY <3>3, <3>4
    <3>. QED
      BY <3>1, <3>5
  <2>. QED
    BY <2>4, <2>5, <2>6, <2>14, <2>15, <2>16
<1>. QED
  BY <1>1, <1>3, <1>4, <1>5, <1>6 DEF Knowledge!PacksAgree

-----------------------------------------------------------------------------
(* EVIDENCE. What a search finds and what of it is in the prompt, by the   *)
(* rankings and the packing above.                                         *)

(* Results are looked at one after the other.                              *)
LEMMA DedupedRecur ==
  ASSUME NEW hits, NEW n, n = Len(hits), n \in Nat
  PROVE  /\ Knowledge!DedupedUpTo(hits)[0] = << >>
         /\ \A k \in 1..n :
              Knowledge!DedupedUpTo(hits)[k]
                = Knowledge!Unless(Knowledge!DedupedUpTo(hits)[k - 1], hits[k])
<1>. DEFINE n0 == n
            f == Knowledge!DedupedUpTo(hits)
            OneStep(g, k) == Knowledge!Unless(g[k - 1], hits[k])
            Body(g, k) == IF k = 0 THEN << >> ELSE OneStep(g, k)
            Is(g, m) == g = [k \in 0..m |-> Body(g, k)]
            M == {m \in 0..n0 : \E g : Is(g, m)}
<1>1. f = CHOOSE g : Is(g, n0)
  BY DEF Knowledge!DedupedUpTo
<1>2. ASSUME NEW g, NEW h, NEW k, h[k - 1] = g[k - 1] PROVE OneStep(h, k) = OneStep(g, k)
  BY <1>2
<1>. HIDE DEF OneStep
<1>3. 0 \in M
  <2>1. Is([k \in 0..0 |-> << >>], 0)
    OBVIOUS
  <2>2. \E g : Is(g, 0)
    <3>. HIDE DEF Is
    <3>. QED
      BY <2>1
  <2>. QED
    BY <2>2
<1>4. ASSUME NEW m \in 1..n0, m - 1 \in M PROVE m \in M
  <2>1. PICK g : Is(g, m - 1)
    BY <1>4
  <2>. DEFINE h == [k \in 0..m |-> IF k < m THEN g[k] ELSE Body(g, m)]
  <2>2. ASSUME NEW k \in 0..m PROVE h[k] = Body(h, k)
    <3>1. k # 0 => h[k - 1] = g[k - 1]
      OBVIOUS
    <3>2. Body(h, k) = Body(g, k)
      <4>. HIDE DEF h
      <4>. QED
        BY <3>1, <1>2
    <3>3. k < m => h[k] = Body(g, k)
      BY <2>1
    <3>. QED
      BY <3>2, <3>3
  <2>3. \E i : Is(i, m)
    <3>1. Is(h, m)
      BY <2>2
    <3>. HIDE DEF Is, h
    <3>. QED
      BY <3>1
  <2>. QED
    BY <2>3
<1>5. Is(f, n0)
  <2>1. 0..n0 \subseteq M
    <3>. HIDE DEF M
    <3>. QED
      BY <1>3, <1>4, Upwards
  <2>2. n0 \in M
    <3>. HIDE DEF M
    <3>. QED
      BY <2>1
  <2>3. \E g : Is(g, n0)
    BY <2>2
  <2>. HIDE DEF Is, f
  <2>. QED
    BY <1>1, <2>3
<1>6. \A k \in 0..n0 : f[k] = Body(f, k)
  BY <1>5
<1>. QED
  BY <1>6 DEF OneStep

(* The costs of items only add up.                                         *)
LEMMA CostsRise ==
  ASSUME NEW C, \A c \in C : c.cost \in Nat, NEW items \in Seq(C), NEW inventory \in Nat,
         NEW n \in 1..Len(items)
  PROVE  /\ Knowledge!Cost(items, inventory)[n] \in Nat
         /\ Knowledge!Cost(items, inventory)[n] <= Knowledge!Cost(items, inventory)[Len(items)]
<1>1. PICK l \in Nat : l = Len(items)
  OBVIOUS
<1>2. PICK cost : cost = Knowledge!Cost(items, inventory)
  OBVIOUS
<1>3. cost[0] = inventory /\ \A k \in 1..l : cost[k] = cost[k - 1] + items[k].cost
  BY <1>1, <1>2, CostRecur
<1>4. \A k \in 1..l : items[k].cost \in Nat
  <2>1. \A k \in 1..l : items[k] \in C
    BY <1>1
  <2>. QED
    BY <2>1
<1>. DEFINE S == {k \in 0..l : \A j \in 0..k : cost[j] \in Nat /\ cost[j] <= cost[k]}
<1>5. 0 \in S
  BY <1>3
<1>6. ASSUME NEW k \in 1..l, k - 1 \in S PROVE k \in S
  <2>1. \A j \in 0..(k - 1) : cost[j] \in Nat /\ cost[j] <= cost[k - 1]
    BY <1>6
  <2>2. PICK d \in Nat : d = items[k].cost
    BY <1>4
  <2>3. cost[k - 1] \in Nat /\ cost[k] = cost[k - 1] + d
    BY <1>3, <2>1, <2>2
  <2>4. ASSUME NEW j \in 0..k PROVE cost[j] \in Nat /\ cost[j] <= cost[k]
    <3>1. CASE j = k
      BY <2>3, <3>1
    <3>2. CASE j \in 0..(k - 1)
      BY <2>1, <2>3, <3>2
    <3>. QED
      BY <3>1, <3>2
  <2>. QED
    BY <2>4
<1>7. 0..l \subseteq S
  <2>. HIDE DEF S
  <2>. QED
    BY <1>5, <1>6, Upwards
<1>8. l \in S /\ n \in 0..l
  BY <1>1, <1>7
<1>. QED
  BY <1>1, <1>2, <1>8

(* What a search has of a page: where it is and what it is called.         *)
Results(U) == [page : U, site : U, title : U, cost : Nat]
Usable(hits) == \E i \in DOMAIN hits : hits[i].page # "" /\ hits[i].title # ""
Complete(hits) == {i \in DOMAIN hits : hits[i].page # "" /\ hits[i].title # ""}

(* What a provider parses, by the places of the complete hits.             *)
LEMMA ParsedAre ==
  ASSUME NEW hits
  PROVE  Knowledge!Parsed(hits)
           = Knowledge!UpTo(Limit, Knowledge!Taken(hits, Knowledge!Chosen(Len(hits), Complete(hits))))
  BY DEF Knowledge!Parsed, Knowledge!Kept, Complete

(* A provider's answer has something left just when a hit of it is usable. *)
LEMMA ParsedHas ==
  ASSUME NEW H, NEW hits \in Seq(H), Limit \in Nat \ {0}
  PROVE  Knowledge!Parsed(hits) \in Seq(H) /\ (Knowledge!Parsed(hits) # << >> <=> Usable(hits))
<1>1. PICK n \in Nat : n = Len(hits) /\ DOMAIN hits = 1..n
  OBVIOUS
<1>2. PICK places : places = Knowledge!Chosen(n, Complete(hits))
  OBVIOUS
<1>3. Complete(hits) \cap (1..n) = Complete(hits)
  BY <1>1 DEF Complete
<1>4. places \in Seq(1..n) /\ Elements(places) = Complete(hits)
  BY <1>1, <1>2, <1>3, ChosenIs
<1>5. PICK kept : kept = Knowledge!Taken(hits, places)
  OBVIOUS
<1>6. kept \in Seq(H) /\ Len(kept) = Len(places)
  <2>1. IsTaken(H, hits, n, places, kept)
    BY <1>1, <1>4, <1>5, TakenAt
  <2>. QED
    BY <2>1 DEF IsTaken
<1>7. PICK p \in Nat : p = Len(places)
  BY <1>4
<1>8. Knowledge!Parsed(hits) = Knowledge!UpTo(Limit, kept)
  BY <1>1, <1>2, <1>5, ParsedAre
<1>9. Begins(H, kept, Knowledge!Parsed(hits), Least(Limit, p))
  BY <1>6, <1>7, <1>8, BeginningIs
<1>10. Knowledge!Parsed(hits) \in Seq(H) /\ Len(Knowledge!Parsed(hits)) = Least(Limit, p)
  BY <1>9 DEF Begins
<1>11. Knowledge!Parsed(hits) # << >> <=> Least(Limit, p) # 0
  BY <1>10
<1>12. Least(Limit, p) # 0 <=> p # 0
  BY DEF Least
<1>13. p # 0 <=> Elements(places) # {}
  <2>1. CASE p = 0
    BY <1>7, <2>1 DEF Elements
  <2>2. CASE p # 0
    <3>1. 1 \in 1..Len(places)
      BY <1>7, <2>2
    <3>2. places[1] \in Elements(places)
      BY <3>1 DEF Elements
    <3>. QED
      BY <2>2, <3>2
  <2>. QED
    BY <2>1, <2>2
<1>14. Elements(places) # {} <=> Usable(hits)
  BY <1>4 DEF Complete, Usable
<1>. QED
  BY <1>10, <1>11, <1>12, <1>13, <1>14

(* No two of the results are at one place.                                 *)
Apart(kept) ==
  \A i, j \in 1..Len(kept) : i # j => ~Knowledge!SamePlace(kept[i], kept[j])

(* What is left of the hits has no two at one place.                       *)
LEMMA DedupedAre ==
  ASSUME NEW H, NEW hits \in Seq(H)
  PROVE  /\ Knowledge!Deduped(hits) \in Seq(H) /\ Apart(Knowledge!Deduped(hits))
         /\ Knowledge!Deduped(hits) = << >> <=> hits = << >>
<1>1. PICK n \in Nat : n = Len(hits)
  OBVIOUS
<1>2. PICK f : f = Knowledge!DedupedUpTo(hits)
  OBVIOUS
<1>3. f[0] = << >> /\ \A k \in 1..n : f[k] = Knowledge!Unless(f[k - 1], hits[k])
  BY <1>1, <1>2, DedupedRecur
<1>. DEFINE Fine(s, k) == s \in Seq(H) /\ Apart(s) /\ (s = << >> => k = 0)
            S == {k \in 0..n : Fine(f[k], k)}
<1>4. 0 \in S
  <2>1. << >> \in Seq(H) /\ Apart(<< >>)
    BY DEF Apart
  <2>2. Fine(f[0], 0)
    BY <1>3, <2>1
  <2>. QED
    BY <2>2
<1>5. ASSUME NEW k \in 1..n, k - 1 \in S PROVE k \in S
  <2>1. PICK s : s = f[k - 1]
    OBVIOUS
  <2>2. PICK h \in H : h = hits[k]
    BY <1>1
  <2>3. s \in Seq(H) /\ Apart(s) /\ (s = << >> => k - 1 = 0)
    BY <1>5, <2>1
  <2>4. f[k] = Knowledge!Unless(s, h)
    BY <1>3, <2>1, <2>2
  <2>5. PICK m \in Nat : m = Len(s) /\ DOMAIN s = 1..m
    BY <2>3
  <2>6. CASE \E i \in DOMAIN s : Knowledge!SamePlace(s[i], h)
    <3>1. f[k] = s
      BY <2>4, <2>6 DEF Knowledge!Unless
    <3>2. s # << >>
      BY <2>5, <2>6
    <3>3. Fine(f[k], k)
      BY <2>3, <3>1, <3>2
    <3>. QED
      BY <3>3
  <2>7. CASE ~\E i \in DOMAIN s : Knowledge!SamePlace(s[i], h)
    <3>1. PICK t : t = Append(s, h)
      OBVIOUS
    <3>2. f[k] = t
      BY <2>4, <2>7, <3>1 DEF Knowledge!Unless
    <3>3. /\ t \in Seq(H) /\ Len(t) = m + 1 /\ t[m + 1] = h
          /\ \A i \in 1..m : t[i] = s[i]
      BY <2>3, <2>5, <3>1, AppendedIs
    <3>4. ASSUME NEW i \in 1..(m + 1), NEW j \in 1..(m + 1), i # j
          PROVE  ~Knowledge!SamePlace(t[i], t[j])
      <4>1. i \in 1..m \/ i = m + 1
        OBVIOUS
      <4>2. j \in 1..m \/ j = m + 1
        OBVIOUS
      <4>3. CASE i \in 1..m /\ j \in 1..m
        BY <2>3, <2>5, <3>3, <3>4, <4>3 DEF Apart
      <4>4. CASE i \in 1..m /\ j = m + 1
        BY <2>5, <2>7, <3>3, <4>4
      <4>5. CASE i = m + 1 /\ j \in 1..m
        <5>1. ~Knowledge!SamePlace(s[j], h) /\ t[j] = s[j] /\ t[i] = h
          BY <2>5, <2>7, <3>3, <4>5
        <5>. QED
          BY <5>1 DEF Knowledge!SamePlace
      <4>. QED
        BY <3>4, <4>1, <4>2, <4>3, <4>4, <4>5
    <3>5. Apart(t) /\ t # << >>
      BY <3>3, <3>4 DEF Apart
    <3>6. Fine(f[k], k)
      BY <3>2, <3>3, <3>5
    <3>. QED
      BY <3>6
  <2>. QED
    BY <2>6, <2>7
<1>6. 0..n \subseteq S
  <2>. HIDE DEF S
  <2>. QED
    BY <1>4, <1>5, Upwards
<1>7. Fine(f[n], n)
  BY <1>6
<1>8. Knowledge!Deduped(hits) = f[n]
  BY <1>1, <1>2 DEF Knowledge!Deduped
<1>9. hits = << >> => f[n] = << >>
  BY <1>1, <1>3
<1>10. f[n] = << >> => hits = << >>
  BY <1>1, <1>7
<1>. QED
  BY <1>7, <1>8, <1>9, <1>10

(* What comes of a search that is made, or of none.                        *)
Expected(config, provider) ==
  IF Knowledge!IsLive(config) /\ ~provider.fails /\ Usable(provider.hits) THEN "available"
  ELSE IF ~Knowledge!IsLive(config) THEN "unavailable"
  ELSE IF provider.fails THEN "failed" ELSE "no_results"
Finds(H, config, results) ==
  /\ results \in Seq(H) /\ Apart(results)
  /\ Len(results) <= Limit /\ (results # << >> => Knowledge!IsLive(config))

(* A search that is made reports so, and finds so.                         *)
LEMMA SearchFinds ==
  ASSUME NEW H, NEW config, NEW provider, provider.hits \in Seq(H), Limit \in Nat \ {0}
  PROVE  LET outcome == Knowledge!SearchOutcome(config, provider)
         IN  outcome.status = Expected(config, provider) /\ Finds(H, config, outcome.results)
<1>1. PICK hits : hits = provider.hits
  OBVIOUS
<1>2. PICK parsed : parsed = Knowledge!Parsed(hits)
  OBVIOUS
<1>3. parsed \in Seq(H) /\ (parsed # << >> <=> Usable(hits))
  BY <1>1, <1>2, ParsedHas
<1>4. PICK deduped : deduped = Knowledge!Deduped(parsed)
  OBVIOUS
<1>5. deduped \in Seq(H) /\ Apart(deduped) /\ (deduped = << >> <=> parsed = << >>)
  BY <1>3, <1>4, DedupedAre
<1>6. PICK d \in Nat : d = Len(deduped)
  BY <1>5
<1>7. PICK ranked : ranked = Knowledge!UpTo(Limit, deduped)
  OBVIOUS
<1>8. /\ ranked \in Seq(H) /\ Len(ranked) = Least(Limit, d)
      /\ \A i \in 1..Least(Limit, d) : ranked[i] = deduped[i]
  <2>1. Begins(H, deduped, ranked, Least(Limit, d))
    BY <1>5, <1>6, <1>7, BeginningIs
  <2>. QED
    BY <2>1 DEF Begins
<1>9. PICK l \in Nat : l = Least(Limit, d) /\ l <= Limit /\ l <= d /\ (l = 0 <=> d = 0)
  BY DEF Least
<1>10. Apart(ranked) /\ Len(ranked) <= Limit /\ (ranked = << >> <=> deduped = << >>)
  <2>1. \A i \in 1..l : i \in 1..d /\ ranked[i] = deduped[i]
    BY <1>8, <1>9
  <2>2. Apart(ranked)
    BY <1>5, <1>6, <1>8, <1>9, <2>1 DEF Apart
  <2>3. ranked = << >> <=> l = 0
    BY <1>8, <1>9
  <2>4. deduped = << >> <=> d = 0
    BY <1>5, <1>6
  <2>. QED
    BY <1>8, <1>9, <2>2, <2>3, <2>4
<1>11. << >> \in Seq(H) /\ Apart(<< >>) /\ Len(<< >>) <= Limit
  BY DEF Apart
<1>12. Knowledge!SearchOutcome(config, provider)
         = IF ~Knowledge!IsLive(config) THEN Knowledge!Outcome("unavailable", << >>)
           ELSE IF provider.fails THEN Knowledge!Outcome("failed", << >>)
           ELSE Knowledge!Outcome(IF ranked = << >> THEN "no_results" ELSE "available", ranked)
  BY <1>1, <1>2, <1>4, <1>7 DEF Knowledge!SearchOutcome
<1>13. \A status, results : /\ Knowledge!Outcome(status, results).status = status
                            /\ Knowledge!Outcome(status, results).results = results
  BY DEF Knowledge!Outcome
<1>14. CASE ~Knowledge!IsLive(config)
  BY <1>11, <1>12, <1>13, <1>14 DEF Expected, Finds
<1>15. CASE Knowledge!IsLive(config) /\ provider.fails
  <2>1. Knowledge!SearchOutcome(config, provider) = Knowledge!Outcome("failed", << >>)
    BY <1>12, <1>15
  <2>2. Finds(H, config, << >>)
    BY <1>11 DEF Finds
  <2>. QED
    BY <1>13, <1>15, <2>1, <2>2 DEF Expected
<1>16. CASE Knowledge!IsLive(config) /\ ~provider.fails
  <2>1. Knowledge!SearchOutcome(config, provider)
          = Knowledge!Outcome(IF ranked = << >> THEN "no_results" ELSE "available", ranked)
    BY <1>12, <1>16
  <2>2. ranked = << >> <=> ~Usable(provider.hits)
    BY <1>1, <1>3, <1>5, <1>10
  <2>3. Finds(H, config, ranked)
    BY <1>8, <1>10, <1>16 DEF Finds
  <2>. QED
    BY <1>13, <1>16, <2>1, <2>2, <2>3 DEF Expected
<1>. QED
  BY <1>14, <1>15, <1>16

(* So does a turn that may not be searched for, of a message that needs    *)
(* it.                                                                     *)
LEMMA MaybeFinds ==
  ASSUME NEW H, NEW config, NEW may, NEW question, NEW provider,
         provider.hits \in Seq(H), Limit \in Nat \ {0}
  PROVE  LET outcome == Knowledge!MaybeSearch(config, may, question, provider)
         IN  /\ question.fresh => outcome.status = Expected(config, provider)
             /\ Finds(H, config, outcome.results)
<1>1. PICK made : made = Knowledge!SearchOutcome(config, provider)
  OBVIOUS
<1>2. made.status = Expected(config, provider) /\ Finds(H, config, made.results)
  BY <1>1, SearchFinds
<1>3. CASE Knowledge!IsEligible(config, may, question)
  BY <1>1, <1>2, <1>3 DEF Knowledge!MaybeSearch
<1>4. CASE ~Knowledge!IsEligible(config, may, question)
  <2>1. PICK none : none = Knowledge!MaybeSearch(config, may, question, provider)
    OBVIOUS
  <2>2. /\ none.status = IF question.fresh THEN "unavailable" ELSE "no_results"
        /\ none.results = << >>
    BY <1>4, <2>1 DEF Knowledge!MaybeSearch, Knowledge!Outcome
  <2>3. Finds(H, config, << >>)
    BY DEF Finds, Apart
  <2>4. question.fresh => ~Knowledge!IsLive(config)
    BY <1>4 DEF Knowledge!IsEligible, Knowledge!IsLive
  <2>5. question.fresh => none.status = Expected(config, provider)
    BY <2>2, <2>4 DEF Expected
  <2>. QED
    BY <2>1, <2>2, <2>3, <2>5
<1>. QED
  BY <1>3, <1>4

(* Every result is an item of what is ranked.                              *)
Handed(U, pack) ==
  /\ Known(U, pack) /\ pack.inventory \in Nat
  /\ {"memories", "goals", "files", "search", "inventory", "attached"} \subseteq DOMAIN pack
Searched(pack, results) ==
  [Knowledge!FromPack(pack) EXCEPT !.search = Knowledge!AsHits(results)]

(* The context of a prompt with the results in it.                         *)
LEMMA SearchedIs ==
  ASSUME NEW U, NEW pack, Handed(U, pack), NEW results \in Seq(Results(U))
  PROVE  /\ Known(U, Searched(pack, results)) /\ Searched(pack, results).inventory \in Nat
         /\ Searched(pack, results).search = Knowledge!AsHits(results)
         /\ Knowledge!AsHits(results) \in Seq(WebHits(U))
         /\ Len(Knowledge!AsHits(results)) = Len(results)
         /\ \A i \in 1..Len(results) :
              /\ Knowledge!AsHits(results)[i].named
              /\ Knowledge!AsHits(results)[i].text = results[i].page
              /\ Knowledge!AsHits(results)[i].cost = results[i].cost
<1>1. PICK n \in Nat : n = Len(results) /\ DOMAIN results = 1..n
  OBVIOUS
<1>2. PICK hits : hits = Knowledge!AsHits(results)
  OBVIOUS
<1>3. hits = [i \in 1..n |-> [named |-> TRUE, text |-> results[i].page, cost |-> results[i].cost]]
  BY <1>1, <1>2 DEF Knowledge!AsHits
<1>4. \A i \in 1..n : results[i].page \in U /\ results[i].cost \in Nat
  <2>1. \A i \in 1..n : results[i] \in Results(U)
    BY <1>1
  <2>. QED
    BY <2>1 DEF Results
<1>5. hits \in [1..n -> WebHits(U)]
  BY <1>3, <1>4 DEF WebHits
<1>6. hits \in Seq(WebHits(U)) /\ Len(hits) = n
  BY <1>5
<1>7. PICK c : c = Searched(pack, results)
  OBVIOUS
<1>8. /\ c.memories = pack.memories /\ c.goals = pack.goals /\ c.files = pack.files
      /\ c.inventory = pack.inventory /\ c.search = hits
  BY <1>2, <1>7 DEF Searched, Knowledge!FromPack, Handed
<1>9. Known(U, c) /\ c.inventory \in Nat
  BY <1>6, <1>8 DEF Handed, Known
<1>. QED
  BY <1>1, <1>2, <1>3, <1>6, <1>7, <1>8, <1>9

(* Every result has an item.                                               *)
LEMMA ResultsAreItems ==
  ASSUME NEW U, NEW hits \in Seq(WebHits(U)), \A i \in 1..Len(hits) : hits[i].named,
         NEW i \in 1..Len(hits)
  PROVE  \E k \in 1..Len(Knowledge!SearchItems(hits)) :
           /\ Knowledge!SearchItems(hits)[k].source = "search"
           /\ Knowledge!SearchItems(hits)[k].text = hits[i].text
           /\ Knowledge!SearchItems(hits)[k].cost = hits[i].cost
<1>1. PICK n \in Nat : n = Len(hits) /\ DOMAIN hits = 1..n
  OBVIOUS
<1>2. PICK named : named = Knowledge!Chosen(n, NamedHits(hits))
  OBVIOUS
<1>3. NamedHits(hits) \cap (1..n) = 1..n
  BY <1>1 DEF NamedHits
<1>4. named \in Seq(1..n) /\ Elements(named) = 1..n
  BY <1>1, <1>2, <1>3, ChosenIs
<1>5. PICK k \in 1..Len(named) : named[k] = i
  BY <1>1, <1>4 DEF Elements
<1>6. PICK v : v = Knowledge!Decayed(n)[named[k] - 1]
  OBVIOUS
<1>7. PICK items : items = Knowledge!SearchItems(hits)
  OBVIOUS
<1>8. items = HitsAt(hits, named)
  BY <1>1, <1>2, <1>7, SearchItemsAre
<1>9. DOMAIN named = 1..Len(named) /\ Len(named) \in Nat
  BY <1>4
<1>10. Len(items) = Len(named) /\ items[k] = HitItem(hits[i], v)
  BY <1>1, <1>5, <1>6, <1>8, <1>9 DEF HitsAt
<1>11. /\ items[k].source = "search" /\ items[k].text = hits[i].text
       /\ items[k].cost = hits[i].cost
  BY <1>10 DEF HitItem, Knowledge!Item
<1>. QED
  BY <1>7, <1>10, <1>11

(* What a context has scored is all in what is ranked.                     *)
LEMMA AllRanked ==
  ASSUME NEW U, NEW c, Known(U, c), NEW k \in 1..Len(Knowledge!SearchItems(c.search))
  PROVE  /\ Knowledge!Rank(c) \in Seq(Items(U))
         /\ \E q \in 1..Len(Knowledge!Rank(c)) :
              Knowledge!Rank(c)[q] = Knowledge!SearchItems(c.search)[k]
<1>1. PICK s : s = Knowledge!ScoredItems(c)
  OBVIOUS
<1>2. PICK m \in Nat, g \in Nat, f \in Nat, w \in Nat :
        /\ m = Len(c.memories) /\ g = Len(c.goals) /\ f = Len(c.files)
        /\ w = Len(Knowledge!SearchItems(c.search))
  <2>1. Len(Knowledge!SearchItems(c.search)) \in Nat
    BY SearchIs DEF Known
  <2>. QED
    BY <2>1 DEF Known
<1>3. Lies(U, c, s, m, g, f, w)
  BY <1>1, <1>2, ScoredIs
<1>4. PICK n \in Nat : n = Len(s) /\ n = m + g + f + w
  BY <1>3 DEF Lies
<1>5. PICK order : order = Knowledge!InOrder(n, Outranking(s))
  OBVIOUS
<1>6. s \in Seq(Items(U)) /\ Sorts(n, Outranking(s))
  BY <1>3, <1>4, OutranksSorts DEF Lies
<1>7. /\ order \in Seq(1..n) /\ Elements(order) = 1..n
  BY <1>5, <1>6, InOrderIs
<1>8. PICK p \in 1..n : p = m + g + f + k
  <2>1. k \in 1..w
    BY <1>2
  <2>2. m + g + f + k \in 1..n
    BY <1>4, <2>1
  <2>. QED
    BY <2>2
<1>9. s[p] = Knowledge!SearchItems(c.search)[k]
  BY <1>2, <1>3, <1>8 DEF Lies, InSources
<1>10. PICK q \in 1..Len(order) : order[q] = p
  BY <1>7 DEF Elements
<1>11. PICK ranked : ranked = Knowledge!Rank(c)
  OBVIOUS
<1>12. ranked = Knowledge!Taken(s, order)
  BY <1>1, <1>4, <1>5, <1>11, RankIs
<1>13. IsTaken(Items(U), s, n, order, ranked)
  BY <1>4, <1>6, <1>7, <1>12, TakenAt
<1>14. ranked \in Seq(Items(U)) /\ Len(ranked) = Len(order) /\ ranked[q] = s[p]
  BY <1>10, <1>13 DEF IsTaken
<1>. QED
  BY <1>9, <1>11, <1>14

(* An item is in the prompt, or one of its kind is, unless the budget went *)
(* to others.                                                              *)
LEMMA ShownOrSpent ==
  ASSUME NEW U, NEW ranked \in Seq(Items(U)), NEW inventory \in Nat, NEW budget \in Nat,
         NEW q \in 1..Len(ranked)
  PROVE  LET packed == Knowledge!Build(ranked, inventory, budget)
         IN  \/ \E i \in DOMAIN packed.items :
                  /\ packed.items[i].source = ranked[q].source
                  /\ packed.items[i].text = ranked[q].text
             \/ packed.used + ranked[q].cost > budget
<1>1. PICK packed : packed = Knowledge!Build(ranked, inventory, budget)
  OBVIOUS
<1>2. \A x \in Items(U) : x.cost \in Nat
  BY DEF Items
<1>3. PackedSoFar(Items(U), ranked, inventory, budget, Len(ranked), packed)
  BY <1>1, <1>2, PackedWhole
<1>4. PICK items, cost : items = packed.items /\ cost = Knowledge!Cost(items, inventory)
  OBVIOUS
<1>5. /\ items \in Seq(Items(U)) /\ packed.used \in Nat /\ packed.used = cost[Len(items)]
      /\ Dealt(ranked, items, cost, budget, q)
  BY <1>3, <1>4 DEF PackedSoFar, AllDealt
<1>6. PICK l \in Nat : l = Len(items) /\ DOMAIN items = 1..l
  BY <1>5
<1>7. CASE \E k \in 1..l : items[k] = ranked[q]
  BY <1>1, <1>4, <1>6, <1>7
<1>8. CASE \E j \in 1..(q - 1) :
             /\ \E k \in 1..l : items[k] = ranked[j]
             /\ Knowledge!Kind(ranked[j]) = Knowledge!Kind(ranked[q])
  BY <1>1, <1>4, <1>6, <1>8 DEF Knowledge!Kind
<1>9. CASE \E n \in 1..l : cost[n] + ranked[q].cost > budget
  <2>1. PICK n \in 1..l : cost[n] + ranked[q].cost > budget
    BY <1>9
  <2>2. cost[n] <= packed.used /\ cost[n] \in Nat
    BY <1>2, <1>4, <1>5, <1>6, CostsRise
  <2>3. ranked[q].cost \in Nat
    BY <1>2
  <2>4. packed.used + ranked[q].cost > budget
    BY <1>5, <2>1, <2>2, <2>3
  <2>. QED
    BY <1>1, <2>4
<1>. QED
  BY <1>5, <1>6, <1>7, <1>8, <1>9 DEF Dealt

(* Whatever is found, a reply about the present that had no evidence says  *)
(* so, and why; nothing is cited without a search, nor one place twice;    *)
(* and what is cited was in the prompt unless the budget went to what      *)
(* outranks it (grounding.py, prepare and notice_for; search_service.py).  *)
THEOREM RepliesAreHonest ==
  ASSUME NEW U, NEW config, NEW may, NEW question, NEW provider, NEW pack,
         provider.hits \in Seq(Results(U)), Handed(U, pack),
         question.fresh \in BOOLEAN, NEW budget \in Nat, NEW admitted,
         Limit \in Nat \ {0}
  PROVE  Knowledge!HonestAboutNow(config, may, question, provider, pack, budget, admitted)
<1>1. PICK outcome : outcome = Knowledge!MaybeSearch(config, may, question, provider)
  OBVIOUS
<1>2. PICK results : results = outcome.results
  OBVIOUS
<1>3. /\ question.fresh => outcome.status = Expected(config, provider)
      /\ Finds(Results(U), config, results)
  <2>1. /\ question.fresh =>
             Knowledge!MaybeSearch(config, may, question, provider).status = Expected(config, provider)
        /\ Finds(Results(U), config, Knowledge!MaybeSearch(config, may, question, provider).results)
    BY MaybeFinds
  <2>. QED
    BY <1>1, <1>2, <2>1
<1>4. PICK context, ranked :
        context = Searched(pack, results) /\ ranked = Knowledge!Rank(context)
  OBVIOUS
<1>5. PICK packed : packed = Knowledge!Build(ranked, context.inventory, budget)
  OBVIOUS
<1>6. PICK prepared : prepared = Knowledge!Prepare(pack, question, outcome, budget)
  OBVIOUS
<1>7. /\ prepared.packed = packed /\ prepared.cited = results
      /\ prepared.missing = (question.fresh /\ outcome.status # "available")
      /\ prepared.status = outcome.status
  BY <1>2, <1>4, <1>5, <1>6 DEF Knowledge!Prepare, Searched
<1>8. PICK notice : notice = Knowledge!Finish(prepared, admitted)
  OBVIOUS
<1>9. notice = IF ~(question.fresh /\ outcome.status # "available") THEN "none"
               ELSE IF admitted THEN "model" ELSE outcome.status
  BY <1>7, <1>8 DEF Knowledge!Finish
<1>10. PICK n \in Nat : n = Len(results) /\ DOMAIN results = 1..n
  BY <1>3 DEF Finds
<1>11. ASSUME NEW i \in 1..n
       PROVE  \/ \E k \in DOMAIN packed.items : /\ packed.items[k].source = "search"
                                                /\ packed.items[k].text = results[i].page
              \/ packed.used + results[i].cost > budget
  <2>1. PICK hits : hits = Knowledge!AsHits(results)
    OBVIOUS
  <2>2. /\ Known(U, context) /\ context.inventory \in Nat /\ context.search = hits
        /\ hits \in Seq(WebHits(U)) /\ Len(hits) = n
        /\ \A j \in 1..n : /\ hits[j].named /\ hits[j].text = results[j].page
                           /\ hits[j].cost = results[j].cost
    BY <1>3, <1>4, <1>10, <2>1, SearchedIs DEF Finds
  <2>3. PICK items : items = Knowledge!SearchItems(hits)
    OBVIOUS
  <2>4. PICK k \in 1..Len(items) :
          /\ items[k].source = "search" /\ items[k].text = hits[i].text
          /\ items[k].cost = hits[i].cost
    <3>1. /\ hits \in Seq(WebHits(U)) /\ i \in 1..Len(hits)
          /\ \A j \in 1..Len(hits) : hits[j].named
      BY <2>2
    <3>2. \E k \in 1..Len(Knowledge!SearchItems(hits)) :
            /\ Knowledge!SearchItems(hits)[k].source = "search"
            /\ Knowledge!SearchItems(hits)[k].text = hits[i].text
            /\ Knowledge!SearchItems(hits)[k].cost = hits[i].cost
      BY <3>1, ResultsAreItems
    <3>. QED
      BY <2>3, <3>2
  <2>5. ranked \in Seq(Items(U)) /\ \E q \in 1..Len(ranked) : ranked[q] = items[k]
    BY <1>4, <2>2, <2>3, AllRanked
  <2>6. PICK q \in 1..Len(ranked) : ranked[q] = items[k]
    BY <2>5
  <2>7. \/ \E j \in DOMAIN packed.items : /\ packed.items[j].source = ranked[q].source
                                          /\ packed.items[j].text = ranked[q].text
        \/ packed.used + ranked[q].cost > budget
    BY <1>5, <2>2, <2>5, ShownOrSpent
  <2>. QED
    BY <2>2, <2>4, <2>6, <2>7
<1>12. Knowledge!HonestAboutNow(config, may, question, provider, pack, budget, admitted)
         <=> /\ question.fresh =>
                  notice = IF Knowledge!IsLive(config) /\ ~provider.fails /\ Usable(provider.hits)
                           THEN "none"
                           ELSE IF admitted THEN "model"
                           ELSE IF ~Knowledge!IsLive(config) THEN "unavailable"
                           ELSE IF provider.fails THEN "failed" ELSE "no_results"
             /\ ~question.fresh => notice = "none"
             /\ prepared.cited # << >> => Knowledge!IsLive(config) /\ Len(prepared.cited) <= Limit
             /\ \A i, j \in DOMAIN prepared.cited :
                  i # j => ~Knowledge!SamePlace(prepared.cited[i], prepared.cited[j])
             /\ \A i \in DOMAIN prepared.cited :
                  \/ \E k \in DOMAIN prepared.packed.items :
                       /\ prepared.packed.items[k].source = "search"
                       /\ prepared.packed.items[k].text = prepared.cited[i].page
                  \/ prepared.packed.used + prepared.cited[i].cost > budget
  BY <1>1, <1>6, <1>8 DEF Knowledge!HonestAboutNow, Usable
<1>13. question.fresh =>
         notice = IF Knowledge!IsLive(config) /\ ~provider.fails /\ Usable(provider.hits)
                  THEN "none"
                  ELSE IF admitted THEN "model"
                  ELSE IF ~Knowledge!IsLive(config) THEN "unavailable"
                  ELSE IF provider.fails THEN "failed" ELSE "no_results"
  BY <1>3, <1>9 DEF Expected
<1>14. ~question.fresh => notice = "none"
  BY <1>9
<1>15. /\ results # << >> => Knowledge!IsLive(config) /\ Len(results) <= Limit
       /\ \A i, j \in 1..n : i # j => ~Knowledge!SamePlace(results[i], results[j])
  BY <1>3, <1>10 DEF Finds, Apart
<1>. QED
  BY <1>7, <1>10, <1>11, <1>12, <1>13, <1>14, <1>15
=============================================================================
