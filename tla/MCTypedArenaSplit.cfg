\* Callers who allocate from an arena after they split it.
CONSTANTS
  v1 = v1
  v2 = v2
  zero = zero
  torn = torn
  foreign = foreign
  Vals = {v1, v2}
  Zero = zero
  Torn = torn
  Foreign = foreign
  Counts = {3, 4}
  Sizes = {1, 2}
  Memory = 3
  Buffers <- MCBuffers
  U32 = 4
  Configs = {"Retain", "Zeroize"}
  MaxBrands = 3
  MaxResets = 1
  MaxTokens = 1
  CarefulCallers = FALSE

SPECIFICATION Spec

PROPERTY AllocatedSlotHoldsValue
