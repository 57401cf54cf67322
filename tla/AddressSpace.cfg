SPECIFICATION Spec
CONSTANTS
  p1 = p1
  p2 = p2
  Processes = {p1, p2}
  Entries = 5
  PageSize = 2
  KernelPages <- KernelCodeAndStack
  Heap <- HeapFrames
  ProgramAddress = 10
  StackEnd = 8
  StackSize = 2
  Files <- Programs
  Sizes <- OneFrame
  MaxAllocations = 2
  Addresses <- SomeAddresses
  MaxArguments = 1
  MaxLoads = 3
SYMMETRY Symmetry
INVARIANTS
  NoFault
  SeesProgram
  BoundsTranslate
  TouchesOwn
PROPERTIES
  TablesKept
  WritesGranted
