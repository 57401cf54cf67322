SPECIFICATION Spec
CONSTANTS
  MaxPath = 8
  Digits = {"0", "1"}
  Lower <- LowerCase
  SectorSize = 2
  SectorsPerCluster = 2
  DataSector = 3
  MaxDescriptors = 2
  Volumes <- AllVolumes
  Paths <- AllPaths
  Offsets = {0, 1, 4, 5}
  MaxPos = 9
INVARIANTS
  ReadsFile
  LoadsWhole
  FindsWhatIsThere
PROPERTIES
  OthersKept
  LoadCloses
