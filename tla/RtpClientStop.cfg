SPECIFICATION FairSpec
CONSTANTS
  NetFrames = 3
  H264Frames = 2
  MaxRequests = 3
CHECK_DEADLOCK FALSE

PROPERTY StopReturns
