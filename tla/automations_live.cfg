SPECIFICATION MCFairSpec
CONSTANTS
  NULL = NULL
  Parts = {"races", "backlog"}
  Automations = {a1, a2, a3}
  Few = {a1, a2}
  Schedulers = {s1, s2}
  Clients = {c1}
  One = {c1}
  Schedules = {"daily"}
  Day = 1
  MaxFailures = 2
  BatchSize = 2
  MaxPerUser = 3
  Horizon = 1
  MaxTime = 1
  MaxSetBacks = 0
  MaxAborts = 1
CHECK_DEADLOCK FALSE
PROPERTIES
  DueIsServed
