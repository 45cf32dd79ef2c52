CONSTANTS
  Radix = 4
  ByteBits = 2
  Ops <- MCOps
  EsBase = 0
  Memories <- MCMemories
  Pointers <- MCPointers
  Accumulators <- MCAccumulators
  MaxCount = 3
SPECIFICATION Spec
CHECK_DEADLOCK FALSE
INVARIANTS
  MovesLikeMemmove
  FillsLikeMemset
  ComparesLikeMemcmp
PROPERTIES
  RepeatEnds
