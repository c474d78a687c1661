SPECIFICATION FairSpec
CONSTANTS
  Reads = 5
  Ports = {50400}
  MaxInits = 2
CHECK_DEADLOCK FALSE
INVARIANTS OwnReplyAccepted StartedWhenPlaying NothingStale RequestsComplete FailureExcused
PROPERTY InitReturns
