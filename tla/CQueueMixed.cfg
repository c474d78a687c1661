SPECIFICATION FairSpec
CONSTANTS
  maxFrames = 3
  MaxPush = 9
  MaxHeld = 1
  Calls <- BothCalls
CHECK_DEADLOCK FALSE
INVARIANT NeverBothBlocked
PROPERTIES PushReturns PopReturns
