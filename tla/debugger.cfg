CONSTANTS
  MAX_BRK = 3
  UintMax = 15
  Pc <- RawPc
  Succ <- RawSucc
  Kind <- RawKind
  cc = 1
  counts <- RawCounts
  siz <- RawSiz
  MaxDepth = 0
  Keys <- BreakpointKeys
  Raw = TRUE
SPECIFICATION Spec
CHECK_DEADLOCK FALSE
INVARIANTS
  TypeOK
  ScannedEntriesAreSet
PROPERTIES
  ContinueHonoursBreakpoints
