SPECIFICATION Spec
CONSTANTS
  Actions = {x1}
  Requests = {r1, r2}
  TTL = 1
  MaxTime = 1
  MaxKills = 0
  NULL = NULL
INVARIANT RunsAtMostOnce
CHECK_DEADLOCK FALSE
