CONSTANTS
  MAX_BRK = 3
  UintMax = 15
  Pc <- MCPc
  Succ <- MCSucc
  Kind <- MCKind
  cc = 2
  counts <- ElfCounts
  siz <- ElfSiz
  MaxDepth = 0
  Keys <- BreakpointKeys
  Raw = FALSE
SPECIFICATION Spec
CHECK_DEADLOCK FALSE
PROPERTIES
  ContinueHonoursAllBreakpoints
