SPECIFICATION WindowSpec
CONSTANTS
  MaxJobs = 3
  Lens = {0, 3}
  Sizes = {0, 1, 3}
  MaxRead = 2
  Depth = 2
  Faults = {"read", "resize", "enter", "refuse"}
  Gone = TRUE
INVARIANTS CountersAgree ReadsStayInBuffer OkMeansAllEmitted IndexCarriesItsBytes WindowIsComplete
PROPERTY WindowEnds
