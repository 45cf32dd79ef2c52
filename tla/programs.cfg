CONSTANTS
  Radix = 3
  Code <- NestedCalls
  Entry = 58
  STACK_BOTTOM = 48
  HostResults <- MCHostResults
  HostData <- MCHostData
  Sentinel = 80
SPECIFICATION CpuSpec
CHECK_DEADLOCK FALSE
INVARIANTS
  RegistersRestored
PROPERTIES
  Terminates
