SPECIFICATION FairSpec
CONSTANTS
  Turns = {t1, t2}
  Streamed = {t1}
  MaxDeaths = 1
INVARIANTS
  OneWriter
  WholeUnlessTorn
  RepliesMatchTheirTrace
  ShownIsStored
  ShownRepliesAreKept
  CountReachesTheLastReply
PROPERTIES
  ImplementsTranscript
  UserTitlesStick
  EveryTurnEnds
  ThreadsGetTitled
CHECK_DEADLOCK FALSE
