SPECIFICATION Spec
CONSTANTS
  Pieces = 1
  MaxUpdates = 2
  MaxRestarts = 1
INVARIANT ChatKeepsItsThread
CHECK_DEADLOCK FALSE
