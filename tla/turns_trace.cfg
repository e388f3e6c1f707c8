SPECIFICATION Spec
CONSTANTS
  Turns = {t1, t2}
  Streamed = {t1}
  MaxDeaths = 1
INVARIANT TraceLandsWithTheMessages
CHECK_DEADLOCK FALSE
