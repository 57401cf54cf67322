SPECIFICATION Spec
CONSTANTS
  p1 = p1
  p2 = p2
  Processes = {p1, p2}
  Total = 10
  BlockSize = 4
  WordSize = 128
  PoolBlock = 9
  Sizes <- TwoBlocks
  Images <- ElfAndBinary
  MaxAllocations = 2
  KernelSize = 4
  LowPages = 2
SYMMETRY Symmetry
INVARIANTS
  TypeOK
  HeapSound
  AccountedFor
  Isolation
  KeepsAccess
