CONSTANTS
  MAX_BRK = 1
  UintMax = 15
  Pc <- MCPc
  Succ <- MCSucc
  Kind <- MCKind
  cc = 2
  counts <- ElfCounts
  siz <- ElfSiz
  MaxDepth = 2
  Keys <- WindowKeys
  Raw = FALSE
SPECIFICATION Spec
CHECK_DEADLOCK FALSE
INVARIANTS
  TerminalModes
  CodeScrollInBounds
  StackScrollInBounds
PROPERTIES
  CommandsReturn
