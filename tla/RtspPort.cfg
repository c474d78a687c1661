SPECIFICATION Spec
CONSTANTS
  Reads = 5
  Ports = {50400}
  MaxInits = 1
CHECK_DEADLOCK FALSE
INVARIANT PortAdvertised
