SPECIFICATION Spec
CONSTANTS
  Total = 4
  BlockSize = 4
  WordSize = 128
  PoolBlock = 9
  Sizes <- SmallSizes
INVARIANTS
  HeldInPool
