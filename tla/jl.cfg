CONSTANTS
  Width <- MCWidth
  BitAnd <- MCAnd
  BitOr <- MCOr
  BitXor <- MCXor
  Cells <- MCCells
  OpSizes = {1, 4}
SPECIFICATION Spec
INVARIANTS
  SignedCompare
