CONSTANTS
  None = None
  Block <- TwoBranches
  Transactions <- Repeated
  Logging <- Swaps
  Pool <- ThreePools
  Launches <- Graduations
  Words = 4
  Tx <- AskedAbout
  Fares <- FaresOnOneBranch
SPECIFICATION ClientSpec
CONSTRAINT CollectSeesAll
INVARIANTS
  RegistryFollowsBranch
