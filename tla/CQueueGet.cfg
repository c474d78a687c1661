SPECIFICATION FairSpec
CONSTANTS
  maxFrames = 3
  MaxPush = 12
  MaxHeld = 2
  Calls <- GetOnly
CHECK_DEADLOCK FALSE
INVARIANTS TypeOK FrameKept CountMatchesIndices NoLostWakeup NeverBlocked
PROPERTIES ImplementsChannel Drained
