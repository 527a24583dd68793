CONSTANTS
  None = None
  Block <- LongFork
  Candidate <- WithHole
  Capacity = 1
  Concurrency = 2
  MaxFaults = 1
SPECIFICATION Spec
INVARIANTS
  TypeOK
  ValidatedIsPublished
  FlagsFollowChain
  OpenRowsAreOwned
  ReportIsOfTheBranch
PROPERTIES
  EndedRowsAreFinal
  SimulatedOnce
