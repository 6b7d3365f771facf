SPECIFICATION FairSpec
CONSTANTS
  NumFiles = 4
  Sort = FALSE
  ReadJobs = 1
  CpuJobs = 1
  WalkBound = 1
  ReadBound = 1
  CpuBound = 1
  Faults = {"read"}
PROPERTY Terminates
CHECK_DEADLOCK FALSE
