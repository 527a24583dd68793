CONSTANTS
  None = None
  Block <- ThreeBranches
  StartBlock = 1
  Lookback = 4
  PoolBlock <- AllBlocks
  Pools <- OnePool
  Apply <- MovingApply
  Fresh <- MovingFresh
  Pending <- PendingPool
  Rejected <- NoBlock
  MaxReorgs = 3
  MaxFaults = 2
SPECIFICATION Spec
INVARIANTS
  TypeOK
  PublishedFollowsCursor
  RestartCanReplay
  PendingJobIsComplete
  GapsExplainPauses
PROPERTIES
  OnlyRecoveryRetracts
  ImplementsPublishedChain
