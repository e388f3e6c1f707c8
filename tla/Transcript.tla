----------------------------- MODULE Transcript -----------------------------
(***************************************************************************)
(* What a conversation promises: an append-only log of messages.  A turn   *)
(* asks at most once and is answered at most once, after it asked.  Its    *)
(* question and its reply enter the log together, or the question alone    *)
(* and the reply later, or never.  Turns implements this module.           *)
(***************************************************************************)
EXTENDS Sequences

CONSTANTS Turns, Replies

VARIABLE log

Question(t) == [turn |-> t, text |-> "question"]
Reply(t, text) == [turn |-> t, text |-> text]

Entered(m) == \E i \in DOMAIN log : log[i] = m
Asked(t) == Entered(Question(t))
Answered(t) == \E text \in Replies : Entered(Reply(t, text))

Init == log = <<>>

EnterQuestion(t) ==
  /\ ~Asked(t)
  /\ log' = Append(log, Question(t))

EnterReply(t) ==
  /\ Asked(t) /\ ~Answered(t)
  /\ \E text \in Replies : log' = Append(log, Reply(t, text))

EnterExchange(t) ==
  /\ ~Asked(t)
  /\ \E text \in Replies : log' = log \o <<Question(t), Reply(t, text)>>

Next == \E t \in Turns : EnterQuestion(t) \/ EnterReply(t) \/ EnterExchange(t)

Spec == Init /\ [][Next]_log
=============================================================================
