CONSTANTS
  Width <- MCWidth
  BitAnd <- MCAnd
  BitOr <- MCOr
  BitXor <- MCXor
  Routines <- MCRoutines
  Packed <- MCPacked
  Unpacked <- MCUnpacked
  Length = 2
SPECIFICATION Spec
INVARIANTS
  DecimalSum
  DecimalDifference
  DigitsExact
