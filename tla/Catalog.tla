------------------------------ MODULE Catalog -------------------------------
(***************************************************************************)
(* What the agents of GUMMY OS may do: the tools the program knows, the    *)
(* agents' manifests, and the gate that judges each proposed call from     *)
(* these two alone.  All of it is fixed when the process starts.           *)
(*                                                                         *)
(* Operators whose name has an underscore are faulty variants of the       *)
(* definition they precede; no specification uses them.                    *)
(***************************************************************************)
EXTENDS Integers

Tiers == {"green", "yellow", "red"}
Rank == [green |-> 0, yellow |-> 1, red |-> 2]

(* The built-in tools, as they are grouped in the catalog.                 *)
LocalTools ==
  { "calculator", "memory_read", "file_search", "file_list", "current_time",
    "web_search", "doc_read" }
AutomationTools == { "automation_create", "automation_list" }
GitTools == { "git_status", "git_log", "git_diff" }
WorkspaceReaders == { "workspace_read", "workspace_list", "http_fetch" }
MachineChangers == { "workspace_write", "shell_exec" }
Deferred == { "email_send", "social_publish" }

Executable ==
  LocalTools \cup AutomationTools \cup GitTools \cup WorkspaceReaders
    \cup MachineChangers

BuiltIn == Executable \cup Deferred

TierOf(tool) ==
  CASE tool \in { "workspace_write", "email_send" } -> "yellow"
    [] tool \in { "shell_exec", "social_publish" } -> "red"
    [] OTHER -> "green"

-----------------------------------------------------------------------------
(* The manifests: an agent's tools, the highest tier it may propose, and   *)
(* its weight when the router finds two specialists equally fitting.       *)
BaseTools ==
  { "calculator", "current_time", "memory_read", "file_search", "file_list" }
ResearchTools == BaseTools \cup { "web_search", "http_fetch" }
CodeReadTools == GitTools \cup { "workspace_read", "workspace_list" }

Specialists ==
  << "career", "learning", "planner", "memory", "research", "automation",
     "engineer" >>
Agents == { "general", "recall" } \cup {Specialists[i] : i \in DOMAIN Specialists}

ToolsOf(agent) ==
  CASE agent = "general" -> BaseTools \cup CodeReadTools
    [] agent = "recall" -> { "memory_read" }
    [] agent \in { "career", "learning", "research" } -> ResearchTools
    [] agent \in { "planner", "memory" } -> BaseTools
    [] agent = "automation" ->
         { "current_time", "memory_read" } \cup AutomationTools
    [] agent = "engineer" ->
         BaseTools \cup CodeReadTools \cup MachineChangers \cup { "http_fetch" }

CeilingOf(agent) == IF agent = "engineer" THEN "red" ELSE "green"

Priority ==
  [ career |-> 5, learning |-> 4, planner |-> 1, memory |-> 2, research |-> 3,
    automation |-> 6, engineer |-> 7 ]

(* What the registry demands of a manifest before it starts: every tool    *)
(* known, and none above the agent's ceiling.                              *)
Valid(agent) ==
  \A tool \in ToolsOf(agent) :
    tool \in BuiltIn /\ Rank[TierOf(tool)] <= Rank[CeilingOf(agent)]

-----------------------------------------------------------------------------
(* The gate.                                                               *)
Judged_ByManifestOnly(agent, tool, allowances) ==
  IF tool \in ToolsOf(agent) THEN "allow" ELSE "block"

Judged(agent, tool, allowances) ==
  IF tool \notin ToolsOf(agent) \/ Rank[TierOf(tool)] > Rank[CeilingOf(agent)] THEN "block"
  ELSE IF TierOf(tool) = "green" \/ (TierOf(tool) = "yellow" /\ tool \in allowances)
  THEN "allow" ELSE "prompt"

(* The tools whose schema an agent's model is shown: those that can run.   *)
Offered(agent) == ToolsOf(agent) \cap Executable
=============================================================================
