\* Three slots, up to two scopes open one in the other, and two resets of each.
CONSTANTS
  v1 = v1
  v2 = v2
  zero = zero
  torn = torn
  foreign = foreign
  Vals = {v1, v2}
  Zero = zero
  Torn = torn
  Foreign = foreign
  Counts = {3, 4}
  Sizes = {1, 2}
  Memory = 3
  Buffers <- MCBuffers
  U32 = 4
  Configs = {"Retain", "Zeroize"}
  MaxBrands = 3
  MaxResets = 1
  MaxTokens = 1
  CarefulCallers = TRUE

SYMMETRY MCSymmetry

SPECIFICATION Spec

INVARIANT TypeOK
INVARIANT Nested
INVARIANT NoAliasing
INVARIANT StaleTokensRefused
INVARIANT ZeroizeLeavesNoValue
PROPERTY ImplementsScopeStack
