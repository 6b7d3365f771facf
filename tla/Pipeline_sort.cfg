SPECIFICATION FairSpec
CONSTANTS
  NumFiles = 4
  Sort = TRUE
  ReadJobs = 2
  CpuJobs = 2
  WalkBound = 1
  ReadBound = 1
  CpuBound = 1
  Faults = {"walk", "read", "encode", "write"}
INVARIANTS SortedPrefix EachIndexInOnePlace
PROPERTIES Terminates FailureIsReported ImplementsArchiveJob
