SPECIFICATION Spec
CONSTANTS
  MaxFiles = 5
  ReadJobs = 2
  Pool = 2
  Window = 2
  RawBound = 1
  Faults = {"drop", "io", "encode"}
INVARIANTS OnlyOnce VolumesAccounted OkMeansUpToGaps HangsOnlyForVolumes
PROPERTIES TerminatesWithEnoughVolumes ReadErrorIsReported
CHECK_DEADLOCK FALSE
