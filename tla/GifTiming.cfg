CONSTANTS
  MaxFrames = 3
  Unclamped = {0, 20, 105}
  DelayTimes = {100, 240}
SPECIFICATION FairSpec
CHECK_DEADLOCK FALSE
INVARIANTS
  TypeOK
  GcdRight
  DelaysKept
  FrameTimeIsGcd
PROPERTIES
  Terminates
  EveryTurnCounts
