------------------------------- MODULE Channel -------------------------------
(***************************************************************************)
(* The Telegram channel of GUMMY OS: a worker polls for updates, runs each *)
(* message of the one allowed chat as a turn of that chat's conversation,  *)
(* and sends the reply.  Where it stands in the stream of updates, and     *)
(* which conversation belongs to the chat, it keeps in memory.             *)
(*                                                                         *)
(* Telegram keeps an update until a poll asks for a later one.             *)
(*                                                                         *)
(* Operators whose name has an underscore are faulty variants of the       *)
(* definition they precede; no specification uses them.                    *)
(***************************************************************************)
EXTENDS Integers, Sequences, FiniteSets

CONSTANTS
  Pieces,        \* messages a reply is sent in, at most
  MaxUpdates,    \* bound on the updates of a behaviour
  MaxRestarts    \* bound on its restarts

VARIABLES
  updates,    \* what was sent to the bot: "text", "edited" or "unwanted"
  forgotten,  \* how many of the updates Telegram has forgotten
  offset,     \* the worker's offset, 0 for none
  batch,      \* updates of the last poll that are still to be looked at
  at,         \* the update being handled, and how far it is
  thread,     \* the conversation the worker takes for the chat's, 0 for none
  threads,    \* per conversation of the chat, whether it still exists
  ran,        \* per update, the conversations it was run in as a turn
  shown,      \* per update, the messages the user got for it
  failed,     \* updates whose handling failed
  cutShort,   \* updates that a restart found in the worker's hands
  reboots

channelVars == <<updates, forgotten, offset, batch, at, thread, threads, ran,
                 shown, failed, cutShort, reboots>>

(* What is assumed of the constants.                                       *)
Assumption == MaxUpdates \in Nat /\ MaxRestarts \in Nat /\ Pieces \in Nat

Update == 1..MaxUpdates
Waiting == [ stage |-> "idle", update |-> 0, sent |-> 0 ]

Init ==
  /\ updates = << >> /\ forgotten = 0
  /\ offset = 0 /\ batch = << >> /\ at = Waiting
  /\ thread = 0 /\ threads = << >>
  /\ ran = [u \in Update |-> << >>]
  /\ shown = [u \in Update |-> {}]
  /\ failed = {} /\ cutShort = {}
  /\ reboots = 0

-----------------------------------------------------------------------------
(* The user writes to the bot, and deletes a thread in the application.    *)
Send(kind) ==
  /\ Len(updates) < MaxUpdates
  /\ updates' = Append(updates, kind)
  /\ UNCHANGED <<forgotten, offset, batch, at, thread, threads, ran, shown,
                 failed, cutShort, reboots>>

DeleteThread ==
  /\ \E t \in DOMAIN threads : threads[t] /\ threads' = [threads EXCEPT ![t] = FALSE]
  /\ UNCHANGED <<updates, forgotten, offset, batch, at, thread, ran, shown,
                 failed, cutShort, reboots>>

-----------------------------------------------------------------------------
(* A poll.  Asking from an offset on makes Telegram forget what is before. *)
Larger(a, b) == IF a > b THEN a ELSE b
Kept == Larger(forgotten, offset - 1)

Poll ==
  /\ at = Waiting /\ batch = << >>
  /\ forgotten' = Kept
  /\ Kept < Len(updates)
  /\ batch' = [k \in 1..(Len(updates) - Kept) |-> Kept + k]
  /\ UNCHANGED <<updates, offset, at, thread, threads, ran, shown, failed,
                 cutShort, reboots>>

(* The offset moves past every update, before it is looked at.             *)
After_Same(update) == update

After(update) == update + 1

NextUpdate ==
  /\ at = Waiting /\ batch # << >>
  /\ offset' = After(Head(batch))
  /\ batch' = Tail(batch)
  /\ at' = IF updates[Head(batch)] = "unwanted" THEN Waiting
           ELSE [stage |-> "thread", update |-> Head(batch), sent |-> 0]
  /\ UNCHANGED <<updates, forgotten, thread, threads, ran, shown, failed,
                 cutShort, reboots>>

(* The chat's thread is opened on first use and remembered.                *)
FindThread ==
  /\ at.stage = "thread"
  /\ IF thread = 0
     THEN /\ threads' = Append(threads, TRUE)
          /\ thread' = Len(threads) + 1
     ELSE UNCHANGED <<thread, threads>>
  /\ at' = [at EXCEPT !.stage = "turn"]
  /\ UNCHANGED <<updates, forgotten, offset, batch, ran, shown, failed,
                 cutShort, reboots>>

(* A turn (module Turns) fails in a thread that is gone.                   *)
RunTurn ==
  /\ at.stage = "turn" /\ threads[thread]
  /\ ran' = [ran EXCEPT ![at.update] = Append(@, thread)]
  /\ at' = [at EXCEPT !.stage = "reply"]
  /\ UNCHANGED <<updates, forgotten, offset, batch, thread, threads, shown,
                 failed, cutShort, reboots>>

(* The reply goes out in pieces of the length Telegram takes.              *)
SendPiece(last) ==
  /\ at.stage = "reply"
  /\ last \/ at.sent + 1 < Pieces
  /\ shown' = [shown EXCEPT ![at.update] = @ \cup {"reply"}]
  /\ at' = IF last THEN Waiting ELSE [at EXCEPT !.sent = @ + 1]
  /\ UNCHANGED <<updates, forgotten, offset, batch, thread, threads, ran,
                 failed, cutShort, reboots>>

(* Whatever fails, the next update is taken up, after an apology that may  *)
(* not arrive either.                                                      *)
Fail(apology) ==
  /\ at.stage # "idle"
  /\ failed' = failed \cup {at.update}
  /\ shown' = IF apology THEN [shown EXCEPT ![at.update] = @ \cup {"apology"}]
              ELSE shown
  /\ at' = Waiting
  /\ UNCHANGED <<updates, forgotten, offset, batch, thread, threads, ran,
                 cutShort, reboots>>

(* After a restart the worker begins with what Telegram still has.         *)
Restart ==
  /\ reboots < MaxRestarts
  /\ reboots' = reboots + 1
  /\ cutShort' = cutShort \cup {u \in Update : forgotten < u /\ u <= Len(updates)
                                              /\ (u < offset \/ at.update = u)}
  /\ offset' = 0 /\ batch' = << >> /\ at' = Waiting /\ thread' = 0
  /\ UNCHANGED <<updates, forgotten, threads, ran, shown, failed>>

-----------------------------------------------------------------------------
Next ==
  \/ \E kind \in {"text", "edited", "unwanted"} : Send(kind)
  \/ DeleteThread \/ Poll \/ NextUpdate \/ FindThread \/ RunTurn
  \/ (\E last \in BOOLEAN : SendPiece(last))
  \/ (\E apology \in BOOLEAN : Fail(apology)) \/ Restart

Spec == Init /\ [][Next]_channelVars

-----------------------------------------------------------------------------
TypeOK ==
  /\ updates \in Seq({"text", "edited", "unwanted"})
  /\ forgotten \in 0..MaxUpdates /\ offset \in 0..(MaxUpdates + 1)
  /\ batch \in Seq(Update)
  /\ at \in [ stage : {"idle", "thread", "turn", "reply"}, update : 0..MaxUpdates,
              sent : 0..Pieces ]
  /\ threads \in Seq(BOOLEAN) /\ thread \in 0..Len(threads)
  /\ \A u \in Update : ran[u] \in Seq(DOMAIN threads)
  /\ shown \in [Update -> SUBSET {"reply", "apology"}]
  /\ failed \subseteq Update /\ cutShort \subseteq Update
  /\ reboots \in 0..MaxRestarts

(* Every message is heard, and heard once.  A text that Telegram has       *)
(* forgotten was run as a turn, or its handling failed; an update is run   *)
(* again only if a restart came before Telegram had forgotten it, and      *)
(* never twice by one process, which takes one thread for the chat's; a    *)
(* reply is only shown for a turn that is stored, an apology for a         *)
(* failure.  What becomes of an edit, the code and its docstring disagree  *)
(* about: it need not be run here, and may be.                             *)
HeardOnce ==
  /\ \A u \in 1..forgotten :
       updates[u] = "text" => ran[u] # << >> \/ u \in failed
  /\ \A u \in Update :
       /\ Len(ran[u]) > 1 => u \in cutShort
       /\ \A i, j \in DOMAIN ran[u] : i # j => ran[u][i] # ran[u][j]
       /\ "reply" \in shown[u] => ran[u] # << >>
       /\ "apology" \in shown[u] => u \in failed
       /\ u \in DOMAIN updates /\ updates[u] = "unwanted" =>
            ran[u] = << >> /\ shown[u] = {}

(* telegram_worker, of its decisions: "Each Telegram chat maps to a        *)
(* persistent conversation, so context survives across messages and across *)
(* restarts".  All messages of the chat were run in one thread, but for    *)
(* threads the user has deleted.                                           *)
ChatKeepsItsThread ==
  \A u, v \in Update : \A i \in DOMAIN ran[u], j \in DOMAIN ran[v] :
    threads[ran[u][i]] /\ threads[ran[v][j]] => ran[u][i] = ran[v][j]
=============================================================================
