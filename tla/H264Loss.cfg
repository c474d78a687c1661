SPECIFICATION Spec
CONSTANTS
  mFUBufferLen = 5
  Shapes <- AllShapes
  MaxNals = 3
  MaxLost = 3
CHECK_DEADLOCK FALSE
INVARIANTS FramesSound WholeNalsSurvive
