CONSTANTS
  None = None
  Block <- Fork
  Candidate <- OneOnEachSide
  Capacity = 1
  Concurrency = 1
  MaxFaults = 0
SPECIFICATION Spec
INVARIANTS
  StoppedRunLeavesNoOpenRow
