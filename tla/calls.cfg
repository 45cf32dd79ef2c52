CONSTANTS
  Radix = 3
  Code <- AnyProgram
  Entry = 64
  STACK_BOTTOM = 20
  HostResults = {7}
  HostData <- MCHostData
  Sentinel = 80
SPECIFICATION Spec
CHECK_DEADLOCK FALSE
INVARIANTS
  TypeOK
  FramesIntact
  FramesNested
PROPERTIES
  RefinesCallStack
