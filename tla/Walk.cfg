SPECIFICATION WalkSpec
CONSTANTS
  Cores = 4
  JobsGiven = {9}
  ReadsGiven = {0, 5}
  MaxRoots = 2
  Volumes <- MCUtf8Trees
  Cases <- MCCases
  MaxUnread = 2
INVARIANTS
  UserFlagsWin
  RootsWalkedWhereMeantBut
  WalkerFitsReader
  ListsWhatWasAsked
  NamesAreDistinct
  ItemsCarryTheirTime
