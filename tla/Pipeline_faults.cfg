SPECIFICATION FairSpec
CONSTANTS
  NumFiles = 4
  Sort = FALSE
  ReadJobs = 1
  CpuJobs = 2
  WalkBound = 1
  ReadBound = 1
  CpuBound = 1
  Faults = {"walk", "read", "encode", "write", "unwind"}
INVARIANTS TypeOK OkMeansComplete OkLosesOnlyDropped IInv
CHECK_DEADLOCK FALSE
PROPERTY HangsOnlyInBridgeJoin
