SPECIFICATION FairSpec
CONSTANTS
  maxFrames = 3
  MaxPush = 9
  MaxHeld = 1
  Calls <- GetOnly
CHECK_DEADLOCK FALSE
PROPERTY DeliveredInOrder
