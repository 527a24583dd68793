CONSTANTS
  None = None
  Block <- TwoBranches
  Transactions <- Repeated
  Logging <- Swaps
  Pool <- ThreePools
  Launches <- Graduations
  Words = 4
  Tx <- AskedAbout
  Fares <- FaresOnOneBranch
SPECIFICATION LiveClientSpec
CONSTRAINT CollectSeesAll
INVARIANTS
  BundleIsOneBlock
  StoredIsOneBranch
  OpenGapsAreMissing
  ClientTypeOK
  SteadySnapshotIsOfOneBlock
  FollowedPoolsAreLive
  RegistryKnowsBranch
  AnswersAreOfOneBlock
PROPERTIES
  EveryCommandEnds
