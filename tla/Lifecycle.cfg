SPECIFICATION FairSpec
CONSTANTS
  Fds = {3, 4, 5, 6, 7}
  MaxInits = 3
  MaxApp = 1
  Requested = 2000000
  KernelSizes = {0, 212992}
CHECK_DEADLOCK FALSE
INVARIANTS ClosesOwn DefinedWhenClean HoldsItsOwn
PROPERTY CallReturns
