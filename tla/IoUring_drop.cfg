SPECIFICATION Spec
CONSTANTS
  MaxJobs = 2
  Lens = {1}
  Sizes = {1}
  MaxRead = 1
  Depth = 2
  Faults = {"read"}
INVARIANT BufferLivesUntilCompletion
