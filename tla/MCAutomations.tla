---------------------------- MODULE MCAutomations ----------------------------
(***************************************************************************)
(* Small instances of Automations for TLC.  The races for a slot take few  *)
(* automations, a backlog and the user's limit several, so a behaviour of  *)
(* MCSpec has one of them:                                                 *)
(*   races      few automations and one client beside all the pollers;     *)
(*   backlog    more automations than a batch holds, which the user leaves *)
(*              as they are;                                               *)
(*   creations  the clients create and delete, and no poller runs.         *)
(***************************************************************************)
EXTENDS Automations, TLC

CONSTANTS
  Parts,  \* the kinds of behaviour of the run
  Few,    \* the automations of the races
  One     \* the client of the races and of the backlog

VARIABLE part

Creating(c) == CountForCreate(c) \/ Create(c)

Races ==
  /\ Next
  /\ unused' \cup Few = Automations
  /\ \A c \in Clients \ One : UNCHANGED <<toggle[c], creation[c]>>

Backlog ==
  \/ \E s \in Schedulers : Poller(s) \/ Abort(s)
  \/ \E c \in One : Creating(c)
  \/ Advance

Creations ==
  \/ \E c \in Clients : Creating(c)
  \/ \E a \in Automations : Delete(a)
  \/ Advance

MCInit == Init /\ part \in Parts

MCNext ==
  /\ UNCHANGED part
  /\ \/ part = "races" /\ Races
     \/ part = "backlog" /\ Backlog
     \/ part = "creations" /\ Creations

MCSpec == MCInit /\ [][MCNext]_<<vars, part>>

MCFairSpec ==
  MCSpec /\ (\A s \in Schedulers : WF_vars(Poller(s))) /\ WF_vars(Advance)

PollerSymmetry == Permutations(Schedulers)
=============================================================================
