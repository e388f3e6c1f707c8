SPECIFICATION MCSpec
CONSTANTS
  NULL = NULL
  Automations = {a1, a2, a3}
  Parts = {"races", "creations"}
  Few = {a1}
  Schedulers = {s1, s2}
  Clients = {c1, c2}
  One = {c1}
  Schedules = {"once", "daily"}
  Day = 2
  MaxFailures = 2
  BatchSize = 1
  MaxPerUser = 1
  Horizon = 1
  MaxTime = 5
  MaxSetBacks = 1
  MaxAborts = 1
CHECK_DEADLOCK FALSE
SYMMETRY PollerSymmetry
INVARIANTS
  TypeOK
  RowsTellTheirRuns
  QuotaOvershootIsBounded
PROPERTIES
  PauseIsNotUndone
  FiresLikeALedger
