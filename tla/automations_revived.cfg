SPECIFICATION Spec
CONSTANTS
  NULL = NULL
  Automations = {a1}
  Schedulers = {s1}
  Clients = {c1}
  Schedules = {"once"}
  Day = 1
  MaxFailures = 2
  BatchSize = 1
  MaxPerUser = 1
  Horizon = 1
  MaxTime = 2
  MaxSetBacks = 0
  MaxAborts = 0
CHECK_DEADLOCK FALSE
INVARIANTS
  SpentOneOffStaysCompleted
