SPECIFICATION MCSpec
CONSTANTS
  Messages <- MCMessages
  ToolCalling = TRUE
  Requested = {"calculator", "workspace_write", "shell_exec", "email_send", "made_up"}
  Allowances = {}
  StepCosts = {0, 2}
  MaxRunSteps = 3
  MaxRunCost = 3
  MaxIterations = 2
  MaxCalls = 1
  Memory = {"m1", "m2"}
  Content = {"short", "long"}
  InitialFacts <- MCStored
  Near <- MCNear
  Elaborates <- MCElaborates
  Request = {"r1", "r2"}
  NoContent = ""
  MaxRetries = 2
  MaxCommits = 2
  Turn = {"t1", "t2"}
  MaxMessages = 3
  MaxDelta = 3
  Trigger = 2
  MaxFound = 2
  Caller = {"c1", "c2"}
  Password = {"p1", "p2"}
  NoPassword = ""
  MaxTokens = 3
  MaxLinks = 2
  MaxPieces = 2
  MaxUpdates = 2
  MaxRestarts = 1
  File = {"f1", "f2"}
  FileBytes = {"text"}
  MaxRuns = 3
  Milestone = {"m1", "m2"}
  Manual = {30}
  Targets = {"active", "completed", "archived", "in_progress", "done"}
  MaxWrites = 3
  Configured <- MCConfigured
  Offers <- MCOffers
  Key <- MCKey
  Listed <- MCListed
  Builtin = {"calculator"}
  Client = {"c1"}
  MaxTools = 3
  MaxLines = 2
  MaxOpened = 2
INVARIANT FindingsAreHandedOn
CHECK_DEADLOCK FALSE
