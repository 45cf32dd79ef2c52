CONSTANTS
  Width <- MCWidth
  Cells <- MCCells
  Sources <- MCSources
  Counts <- MCCounts
  BitAnd <- MCAnd
  BitOr <- MCOr
  BitXor <- MCXor
SPECIFICATION Spec
INVARIANTS
  ShiftsExact
  RotatesExact
  RclNarrowExact
  ShrdExact
  BitsExact
