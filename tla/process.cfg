CONSTANTS
  Radix = 4
  GdtEntries = 4
  TlsReserved = 2
  IndexSize = 8
  GdtPlaces = {3, 5}
  GDT_ADDR = 3
  STACK_BOTTOM = 240
  CommandLines <- MCCommandLines
  Files <- MCFiles
  Auxvs <- MCAuxvs
  Platform <- MCPlatform
  Garbage <- MCGarbage
  Scratch = 72
  ScratchSize = 24
  Registers <- MCRegisters
  HostResults = {5}
  Sentinel = 222
  CreatBit = 1
  AreaEntries <- MCEntries
  AreaBases = {27, 228}
  AreaLimits = {40}
  Iovecs <- MCIovecs
  Answers <- MCAnswers
  Handlers <- MCHandlers
  MaxAreas = 3
SPECIFICATION Spec
CHECK_DEADLOCK FALSE
INVARIANTS
  GuestFindsArguments
  GuestFindsAuxv
  ImageIntact
  SymbolsSorted
  PointersTranslated
  ExecvePassesArguments
  SegmentBases
PROPERTIES
  AreasApart
