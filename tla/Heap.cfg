SPECIFICATION Spec
CONSTANTS
  Total = 7
  BlockSize = 4
  WordSize = 128
  PoolBlock = 9
  Sizes <- SmallSizes
INVARIANTS
  TypeOK
  Disjoint
  TableMatchesHeld
  RequestCovered
  ScanAgrees
PROPERTIES
  OthersUntouched
  Allocates
