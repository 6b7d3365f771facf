SPECIFICATION RawSpec
CONSTANTS
  NumFiles = 2
  Block = 2
  DiskBlocks = 5
  MaxBlocks = 2
  MaxRun = 6
  MaxGap = 2
  Mtimes = {0, 1, 2}
  Epoch = 0
  Layouts <- MCLayouts
  RootPaths <- MCRootPaths
  Shards = 2
  Capacity = 1
  Ahead = 2
  MaxFaults = 1
INVARIANTS
  ShippedIsComplete
  ShippedOnce
  RemainingIsUncopied
  ShardsAgree
  OidsAnswerTheirPaths
  WalkListsRoots
  WindowIsFaithful
