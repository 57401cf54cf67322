SPECIFICATION ContextSpec
CONSTANTS
  t1 = t1
  t2 = t2
  Tasks = {t1, t2}
  Marks = {1, 2}
PROPERTIES
  ResumesWhatItLeft
  OthersContextKept
