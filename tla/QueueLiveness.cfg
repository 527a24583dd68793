CONSTANTS
  None = None
  Block <- Fork
  Candidate <- OneOnEachSide
  Capacity = 1
  Concurrency = 1
  MaxFaults = 1
SPECIFICATION FairSpec
PROPERTIES
  EveryRowEnds
