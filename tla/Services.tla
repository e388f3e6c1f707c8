------------------------------ MODULE Services ------------------------------
(***************************************************************************)
(* The services of GUMMY OS that share no state, side by side: a run of    *)
(* the agents, memories and their vectors, what is learned from a user's   *)
(* turns, accounts and sessions, the Telegram channel, files and their     *)
(* index, goals, and the tools of external servers.  They run in one       *)
(* process, on one event loop, and take their steps in any order: a step   *)
(* of one leaves the rows, queues and connections of the others alone.     *)
(*                                                                         *)
(* Each is a module of its own; the modules with proofs of theirs are      *)
(* brought in together with their theorems.                                *)
(***************************************************************************)
EXTENDS Integers, Sequences, FiniteSets

-----------------------------------------------------------------------------
(* A run of the agents.                                                    *)
CONSTANTS Messages, ToolCalling, Requested, Allowances, StepCosts,
          MaxRunSteps, MaxRunCost, MaxIterations, MaxCalls
VARIABLES plan, stage, run, steps, hops, guard, informed, loop, told, read,
          audit, pending, effects, reply

agentVars == <<plan, stage, run, steps, hops, guard, informed, loop, told,
               read, audit, pending, effects, reply>>

AgentRun == INSTANCE AgentRunProofs

-----------------------------------------------------------------------------
(* Memories and their vectors.                                             *)
CONSTANTS Memory, Content, InitialFacts, Near, Elaborates, Request, NoContent,
          MaxRetries, MaxCommits
VARIABLES memories, versions, vectors, request, jobs, worker, excuse, commits

memoryVars == <<memories, versions, vectors, request, jobs, worker, excuse,
                commits>>

Memories == INSTANCE MemoriesProofs WITH Stored <- InitialFacts

-----------------------------------------------------------------------------
(* What is learned from the turns of a user.                               *)
CONSTANTS Turn, MaxMessages, MaxDelta, Trigger, MaxFound
VARIABLES asked, profile, turns, enrich, consumer, summaries, extracted,
          stored, linked, skipped, refused, beyond, cut, crossed

learningVars == <<asked, profile, turns, crossed, enrich, consumer, summaries,
                  extracted, stored, linked, skipped, refused, beyond, cut>>

Learning == INSTANCE Learning

-----------------------------------------------------------------------------
(* An account, its refresh tokens and its reset links.                     *)
CONSTANTS Caller, Password, NoPassword, MaxTokens, MaxLinks
VARIABLES account, tokens, links, call, chosen, contested

sessionVars == <<account, tokens, links, call, chosen, contested>>

Sessions == INSTANCE SessionsProofs

-----------------------------------------------------------------------------
(* The Telegram channel.                                                   *)
CONSTANTS MaxPieces, MaxUpdates, MaxRestarts
VARIABLES updates, forgotten, offset, batch, at, thread, threads, ran, shown,
          failed, cutShort, reboots

channelVars == <<updates, forgotten, offset, batch, at, thread, threads, ran,
                 shown, failed, cutShort, reboots>>

Channel == INSTANCE Channel WITH Pieces <- MaxPieces

-----------------------------------------------------------------------------
(* Uploaded files and their index.                                         *)
CONSTANTS File, FileBytes, MaxRuns
VARIABLES files, chunks, blobs, task, runs, stranded, hollow, contended

fileVars == <<files, chunks, blobs, task, runs, stranded, hollow, contended>>

Files == INSTANCE FilesProofs WITH Content <- FileBytes

-----------------------------------------------------------------------------
(* A goal, its milestones and a task.                                      *)
CONSTANTS Milestone, Manual, Targets, MaxWrites
VARIABLES goal, milestones, tasked, edit, closed, muddled, writes

goalVars == <<goal, milestones, tasked, edit, closed, muddled, writes>>

Goals == INSTANCE Goals WITH MaxCommits <- MaxWrites

-----------------------------------------------------------------------------
(* The tools of external servers.                                          *)
CONSTANTS Configured, Offers, Key(_, _), Listed, Builtin, Client, MaxTools,
          MaxLines, MaxOpened
VARIABLES boot, found, catalog, connections, lines, left, returned, opened

externalVars == <<boot, found, catalog, connections, lines, left, returned,
                  opened>>

External == INSTANCE External WITH Caller <- Client, MaxCalls <- MaxOpened

-----------------------------------------------------------------------------
ASSUME ServicesAssumption ==
  /\ AgentRun!Assumption
  /\ Memories!Assumption
  /\ Learning!Assumption
  /\ Sessions!Assumption
  /\ Channel!Assumption
  /\ Files!Assumption
  /\ Goals!Assumption
  /\ External!Assumption

vars == <<agentVars, memoryVars, learningVars, sessionVars, channelVars,
          fileVars, goalVars, externalVars>>

Init ==
  /\ AgentRun!Init /\ Memories!Init /\ Learning!Init /\ Sessions!Init
  /\ Channel!Init /\ Files!Init /\ Goals!Init /\ External!Init

AgentsMove ==
  /\ AgentRun!Next
  /\ UNCHANGED <<memoryVars, learningVars, sessionVars, channelVars, fileVars,
                 goalVars, externalVars>>
MemoriesMove ==
  /\ Memories!Next
  /\ UNCHANGED <<agentVars, learningVars, sessionVars, channelVars, fileVars,
                 goalVars, externalVars>>
LearningMoves ==
  /\ Learning!Next
  /\ UNCHANGED <<agentVars, memoryVars, sessionVars, channelVars, fileVars,
                 goalVars, externalVars>>
SessionsMove ==
  /\ Sessions!Next
  /\ UNCHANGED <<agentVars, memoryVars, learningVars, channelVars, fileVars,
                 goalVars, externalVars>>
ChannelMoves ==
  /\ Channel!Next
  /\ UNCHANGED <<agentVars, memoryVars, learningVars, sessionVars, fileVars,
                 goalVars, externalVars>>
FilesMove ==
  /\ Files!Next
  /\ UNCHANGED <<agentVars, memoryVars, learningVars, sessionVars, channelVars,
                 goalVars, externalVars>>
GoalsMove ==
  /\ Goals!Next
  /\ UNCHANGED <<agentVars, memoryVars, learningVars, sessionVars, channelVars,
                 fileVars, externalVars>>
ServersMove ==
  /\ External!Next
  /\ UNCHANGED <<agentVars, memoryVars, learningVars, sessionVars, channelVars,
                 fileVars, goalVars>>

Next ==
  \/ AgentsMove \/ MemoriesMove \/ LearningMoves \/ SessionsMove
  \/ ChannelMoves \/ FilesMove \/ GoalsMove \/ ServersMove

Spec == Init /\ [][Next]_vars /\ Memories!Fairness

-----------------------------------------------------------------------------
(* Every service keeps its state within its types, whatever the others do. *)
TypeOK ==
  /\ AgentRun!TypeOK /\ Memories!TypeOK /\ Learning!TypeOK /\ Sessions!TypeOK
  /\ Channel!TypeOK /\ Files!TypeOK /\ Goals!TypeOK /\ External!TypeOK

(* The properties of the services, each stated, with the code it is about, *)
(* in the module of its service.                                           *)
TraceTellsTheRun == AgentRun!TraceTellsTheRun
OverspendsByOneRound == AgentRun!OverspendsByOneRound
AnswersHaveSeenTheirTools == AgentRun!AnswersHaveSeenTheirTools
UnaskedIsGreen == AgentRun!UnaskedIsGreen
HistoryTellsTheMemory == Memories!HistoryTellsTheMemory
StaleVectorsAreSeenTo == Memories!StaleVectorsAreSeenTo
VectorsCatchUp == Memories!VectorsCatchUp
LearnsFromEveryTurn == Learning!LearnsFromEveryTurn
RotationIsExclusive == Sessions!RotationIsExclusive
ResetsAreFinal == Sessions!ResetsAreFinal
HeardOnce == Channel!HeardOnce
IndexTellsTheFile == Files!IndexTellsTheFile
GoalsAddUp == Goals!GoalsAddUp
ServersAreContained == External!ServersAreContained

(* Said of the code and not kept by it.                                    *)
FindingsAreHandedOn == AgentRun!FindingsAreHandedOn
=============================================================================
