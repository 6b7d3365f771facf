SPECIFICATION Spec
CONSTANTS
  Cores = 4
  JobsGiven = {0, 9}
  ReadsGiven = {0, 1, 5, 40}
  MaxRoots = 2
INVARIANT
  RootsWalkedWhereMeant
