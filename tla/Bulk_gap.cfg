SPECIFICATION Spec
CONSTANTS
  MaxFiles = 4
  ReadJobs = 2
  Pool = 2
  Window = 2
  RawBound = 1
  Faults = {"drop"}
INVARIANT GapCostsOneEntry
